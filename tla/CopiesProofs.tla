---------------------------- MODULE CopiesProofs -----------------------------
(***************************************************************************)
(* Theorems about what is read through Redis: ConfigCache and FleetCache,  *)
(* for any number of runs, any expiries and run limits, and any edits.     *)
(***************************************************************************)
EXTENDS ConfigCache, FleetCache, TLAPS

-----------------------------------------------------------------------------
(* Configuration files.                                                    *)

CopiesOfFiles == [content : Contents, from : Paths]

\* When a copy was last what its file holds.
WasTrue(c) == lastTrue[c.from][c.content]

ConfigTypes ==
    /\ now \in Nat
    /\ file \in [Paths -> Contents \cup {Absent}]
    /\ copy \in [Keys -> CopiesOfFiles \cup {NoCopy}]
    /\ expires \in [Keys -> Nat]
    /\ step \in [Runs -> {"off", "resolve", "get", "open", "set", "checks"}]
    /\ use \in [Runs -> Uses]
    /\ asked \in [Runs -> Paths]
    /\ got \in [Runs -> [Uses -> CopiesOfFiles \cup {NoCopy}]]
    /\ began \in [Runs -> Nat]
    /\ lastTrue \in [Paths -> [Contents -> Int]]

\* What a file holds is true now, and nothing is true later than now.
FilesAreTrue ==
    /\ \A p \in Paths : file[p] # Absent => lastTrue[p][file[p]] = now
    /\ \A p \in Paths, c \in Contents : lastTrue[p][c] =< now

RunsAreShort ==
    \A r \in Runs : /\ began[r] =< now
                    /\ step[r] # "off" => now - began[r] =< RunLimit

\* What a run is about to store it has read from the file itself.
StoredIsRead ==
    \A r \in Runs : step[r] = "set" =>
        /\ got[r][use[r]] \in CopiesOfFiles
        /\ got[r][use[r]].from = asked[r]
        /\ WasTrue(got[r][use[r]]) >= began[r]

\* A copy is dropped one expiry and one run after it was true...
CopiesExpire ==
    \A k \in Keys : \/ expires[k] = 0
                    \/ /\ copy[k] \in CopiesOfFiles
                       /\ expires[k] =< WasTrue(copy[k]) + TTL + RunLimit

\* ...so a run is given nothing that was not true that long before it began.
GivenIsFresh ==
    \A r \in Runs, u \in Uses :
        got[r][u] # NoCopy => WasTrue(got[r][u]) > began[r] - TTL - RunLimit

FreshInv ==
    /\ ConfigTypes
    /\ FilesAreTrue
    /\ RunsAreShort
    /\ StoredIsRead
    /\ CopiesExpire
    /\ GivenIsFresh

LEMMA ConfigBounds == TTL \in Nat /\ RunLimit \in Nat /\ RunLimit > 0
BY ConfigAssumption

LEMMA ConfigStarts == ConfigInit => FreshInv
<1> SUFFICES ASSUME ConfigInit PROVE FreshInv
  OBVIOUS
<1> USE ConfigBounds, ConfigAssumption DEF ConfigInit
<1>0. NotYet \in Int /\ NotYet < -TTL - RunLimit
  BY DEF NotYet
<1>1. ConfigTypes
  <2>1. file \in [Paths -> Contents \cup {Absent}]
    OBVIOUS
  <2>2. /\ use \in [Runs -> Uses]
        /\ got \in [Runs -> [Uses -> CopiesOfFiles \cup {NoCopy}]]
    BY DEF Uses
  <2>3. lastTrue \in [Paths -> [Contents -> Int]]
    BY <1>0
  <2>4. asked \in [Runs -> Paths] /\ began \in [Runs -> Nat] /\ now \in Nat
    BY DEF Paths
  <2>5. copy \in [Keys -> CopiesOfFiles \cup {NoCopy}] /\ expires \in [Keys -> Nat]
    OBVIOUS
  <2>6. step \in [Runs -> {"off", "resolve", "get", "open", "set", "checks"}]
    OBVIOUS
  <2>7. QED
    BY <2>1, <2>2, <2>3, <2>4, <2>5, <2>6 DEF ConfigTypes
<1>2. FilesAreTrue
  <2>1. ASSUME NEW p \in Paths, file[p] # Absent
        PROVE  lastTrue[p][file[p]] = now
    <3>1. file[p] \in Contents
      BY <1>1, <2>1 DEF ConfigTypes
    <3>2. QED
      BY <3>1
  <2>2. ASSUME NEW p \in Paths, NEW c \in Contents
        PROVE  lastTrue[p][c] =< now
    BY <1>0
  <2>3. QED
    BY <2>1, <2>2 DEF FilesAreTrue
<1>3. RunsAreShort /\ StoredIsRead
  BY DEF RunsAreShort, StoredIsRead
<1>4. CopiesExpire
  BY DEF CopiesExpire
<1>5. GivenIsFresh
  BY DEF GivenIsFresh, Uses
<1>6. QED
  BY <1>1, <1>2, <1>3, <1>4, <1>5 DEF FreshInv

LEMMA GivingKeepsTypes ==
    ASSUME ConfigTypes, NEW r \in Runs, NEW c \in CopiesOfFiles \cup {NoCopy}, Give(r, c)
    PROVE  /\ step' \in [Runs -> {"off", "resolve", "get", "open", "set", "checks"}]
           /\ use' \in [Runs -> Uses]
           /\ got' \in [Runs -> [Uses -> CopiesOfFiles \cup {NoCopy}]]
<1>1. \A u \in Uses : NextUse[u] \in Uses
  BY DEF NextUse, Uses
<1>2. QED
  BY <1>1 DEF ConfigTypes, Give

LEMMA ConfigTypesHold == ConfigTypes /\ [ConfigNext]_cvars => ConfigTypes'
<1> SUFFICES ASSUME ConfigTypes, [ConfigNext]_cvars PROVE ConfigTypes'
  OBVIOUS
<1> USE ConfigBounds, ConfigAssumption DEF ConfigTypes
<1>0. \A r \in Runs : Key[asked[r]] \in Keys
  BY DEF Keys
<1>1. CASE Tick
  BY <1>1 DEF Tick
<1>2. ASSUME NEW p \in Paths, NEW c \in Contents \cup {Absent}, Edit(p, c)
      PROVE  ConfigTypes'
  BY <1>2 DEF Edit
<1>3. ASSUME NEW r \in Runs, Start(r)
      PROVE  ConfigTypes'
  BY <1>3 DEF Start, Uses
<1>4. ASSUME NEW r \in Runs, Resolve(r)
      PROVE  ConfigTypes'
  BY <1>4 DEF Resolve, Paths
<1>5. ASSUME NEW r \in Runs, Get(r)
      PROVE  ConfigTypes'
  <2>1. CASE now < expires[KeyOf(r)] /\ Give(r, copy[KeyOf(r)])
    BY <1>0, <1>5, <2>1, GivingKeepsTypes DEF Get, KeyOf
  <2>2. CASE step' = [step EXCEPT ![r] = "open"] /\ UNCHANGED <<use, got>>
    BY <1>5, <2>2 DEF Get
  <2>3. QED
    BY <1>5, <2>1, <2>2 DEF Get
<1>6. ASSUME NEW r \in Runs, Open(r)
      PROVE  ConfigTypes'
  <2>1. CASE file[asked[r]] = Absent
    BY <1>6, <2>1 DEF Open
  <2>2. CASE file[asked[r]] # Absent
    <3>1. [content |-> file[asked[r]], from |-> asked[r]] \in CopiesOfFiles
      BY <2>2 DEF CopiesOfFiles
    <3>2. got' \in [Runs -> [Uses -> CopiesOfFiles \cup {NoCopy}]]
      <4> DEFINE c == [content |-> file[asked[r]], from |-> asked[r]]
      <4>1. c \in CopiesOfFiles /\ got' = [got EXCEPT ![r][use[r]] = c]
        BY <1>6, <2>2, <3>1 DEF Open
      <4> HIDE DEF c
      <4>2. QED
        BY <4>1
    <3>3. QED
      BY <1>6, <2>2, <3>2 DEF Open
  <2>3. QED
    BY <2>1, <2>2
<1>7. ASSUME NEW r \in Runs, Set(r)
      PROVE  ConfigTypes'
  <2>1. copy' \in [Keys -> CopiesOfFiles \cup {NoCopy}] /\ expires' \in [Keys -> Nat]
    <3>1. got[r][use[r]] \in CopiesOfFiles \cup {NoCopy}
      OBVIOUS
    <3>2. CASE UNCHANGED <<copy, expires>>
      BY <3>2
    <3>3. CASE /\ copy' = [copy EXCEPT ![KeyOf(r)] = got[r][use[r]]]
               /\ expires' = [expires EXCEPT ![KeyOf(r)] = now + TTL]
      BY <1>0, <3>1, <3>3 DEF KeyOf
    <3>4. QED
      BY <1>7, <3>2, <3>3 DEF Set
  <2>2. QED
    BY <1>7, <2>1, GivingKeepsTypes DEF Set
<1>8. ASSUME NEW r \in Runs, End(r)
      PROVE  ConfigTypes'
  BY <1>8 DEF End, Uses, Paths
<1>9. CASE UNCHANGED cvars
  BY <1>9 DEF cvars
<1>10. QED
  BY <1>1, <1>2, <1>3, <1>4, <1>5, <1>6, <1>7, <1>8, <1>9 DEF ConfigNext, GetConfig

\* Only the clock and an edit touch what was true, and they only bring it
\* nearer.
LEMMA TruthGrows ==
    ASSUME FreshInv, ConfigTypes', [ConfigNext]_cvars
    PROVE  /\ FilesAreTrue'
           /\ \A p \in Paths, c \in Contents : lastTrue'[p][c] >= lastTrue[p][c]
<1>0. /\ FilesAreTrue
      /\ now \in Nat /\ now' \in Nat
      /\ file \in [Paths -> Contents \cup {Absent}]
      /\ lastTrue \in [Paths -> [Contents -> Int]]
  BY DEF FreshInv, ConfigTypes
<1> USE <1>0 DEF FilesAreTrue
<1>1. CASE Tick
  <2>1. \A p \in Paths, c \in Contents :
            lastTrue'[p][c] = IF c = file[p] THEN now + 1 ELSE lastTrue[p][c]
    BY <1>1 DEF Tick
  <2>2. now' = now + 1 /\ file' = file
    BY <1>1 DEF Tick
  <2>3. \A p \in Paths, c \in Contents : lastTrue[p][c] \in Int /\ lastTrue[p][c] =< now
    OBVIOUS
  <2>4. \A p \in Paths : file[p] # Absent => file[p] \in Contents
    OBVIOUS
  <2>5. QED
    BY <2>1, <2>2, <2>3, <2>4
<1>2. ASSUME NEW p \in Paths, NEW c \in Contents \cup {Absent}, Edit(p, c)
      PROVE  /\ FilesAreTrue'
             /\ \A q \in Paths, d \in Contents : lastTrue'[q][d] >= lastTrue[q][d]
  <2>1. now' = now /\ file' = [file EXCEPT ![p] = c]
    BY <1>2 DEF Edit
  <2>2. ASSUME NEW q \in Paths, NEW d \in Contents
        PROVE  lastTrue'[q][d] = IF q = p /\ d = c THEN now ELSE lastTrue[q][d]
    BY <1>2, ConfigAssumption DEF Edit
  <2>3. \A q \in Paths, d \in Contents : lastTrue[q][d] \in Int /\ lastTrue[q][d] =< now
    OBVIOUS
  <2>4. \A q \in Paths : /\ file[q] # Absent => file[q] \in Contents
                         /\ file'[q] = IF q = p THEN c ELSE file[q]
    BY <2>1
  <2>5. QED
    BY <2>1, <2>2, <2>3, <2>4
<1>3. CASE UNCHANGED <<now, file, lastTrue>>
  <2>1. \A p \in Paths, c \in Contents : lastTrue[p][c] \in Int
    OBVIOUS
  <2>2. QED
    BY <1>3, <2>1
<1>4. QED
  BY <1>1, <1>2, <1>3
     DEF ConfigNext, GetConfig, Start, Resolve, Get, Open, Set, End, cvars

LEMMA RunsStayShort ==
    ASSUME FreshInv, [ConfigNext]_cvars
    PROVE  RunsAreShort'
<1>0. /\ RunsAreShort
      /\ now \in Nat
      /\ began \in [Runs -> Nat]
      /\ DOMAIN step = Runs
  BY DEF FreshInv, ConfigTypes
<1> USE <1>0, ConfigBounds DEF RunsAreShort
<1>1. CASE Tick
  <2>1. /\ now' = now + 1 /\ began' = began /\ step' = step
        /\ \A r \in Runs : step[r] # "off" => now - began[r] < RunLimit
    BY <1>1 DEF Tick
  <2>2. QED
    BY <2>1
<1>2. ASSUME NEW r \in Runs, Start(r)
      PROVE  RunsAreShort'
  BY <1>2 DEF Start
<1>3. ASSUME NEW r \in Runs, End(r)
      PROVE  RunsAreShort'
  BY <1>3 DEF End
<1>4. ASSUME NEW r \in Runs, GetConfig(r)
      PROVE  RunsAreShort'
  <2>1. now' = now /\ began' = began /\ step[r] # "off"
    BY <1>4 DEF GetConfig, Resolve, Get, Open, Set
  <2>2. \E where : step' = [step EXCEPT ![r] = where]
    BY <1>4 DEF GetConfig, Resolve, Get, Open, Set, Give
  <2>3. QED
    BY <2>1, <2>2
<1>5. CASE UNCHANGED <<now, step, began>>
  BY <1>5
<1>6. QED
  BY <1>1, <1>2, <1>3, <1>4, <1>5 DEF ConfigNext, Edit, cvars

\* What WasTrue says of a copy only grows, so a bound from below lasts.
LEMMA FreshnessLasts ==
    ASSUME FreshInv, \A p \in Paths, c \in Contents : lastTrue'[p][c] >= lastTrue[p][c],
           ConfigTypes'
    PROVE  \A c \in CopiesOfFiles :
               /\ WasTrue(c) \in Int
               /\ lastTrue'[c.from][c.content] \in Int
               /\ lastTrue'[c.from][c.content] >= WasTrue(c)
BY DEF FreshInv, ConfigTypes, CopiesOfFiles, WasTrue

\* A run is given something that is fresh enough at the time.
LEMMA GivingKeepsFresh ==
    ASSUME FreshInv, ConfigTypes', NEW r \in Runs, NEW c \in CopiesOfFiles, Give(r, c),
           UNCHANGED <<now, began, lastTrue>>,
           step[r] # "off",
           now < WasTrue(c) + TTL + RunLimit
    PROVE  GivenIsFresh'
<1> USE DEF FreshInv, ConfigTypes
<1>1. use[r] \in Uses
  OBVIOUS
<1>2. got' = [got EXCEPT ![r][use[r]] = c]
  BY DEF Give
<1>3. WasTrue(c) > began[r] - TTL - RunLimit
  BY ConfigBounds DEF RunsAreShort, WasTrue, CopiesOfFiles
<1>4. ASSUME NEW q \in Runs, NEW u \in Uses, got'[q][u] # NoCopy
      PROVE  WasTrue(got'[q][u]) > began[q] - TTL - RunLimit
  BY <1>1, <1>2, <1>3, <1>4 DEF GivenIsFresh
<1>5. QED
  BY <1>4 DEF GivenIsFresh, WasTrue
\* A step that gives nobody anything and stores nothing keeps what is fresh.
LEMMA NothingGivenKeepsFresh ==
    ASSUME FreshInv, ConfigTypes',
           \A p \in Paths, c \in Contents : lastTrue'[p][c] >= lastTrue[p][c],
           UNCHANGED <<copy, expires, asked, got, began, use>>,
           \A r \in Runs : step'[r] = "set" => step[r] = "set"
    PROVE  StoredIsRead' /\ CopiesExpire' /\ GivenIsFresh'
<1>1. \A c \in CopiesOfFiles :
          WasTrue(c) \in Int /\ lastTrue'[c.from][c.content] \in Int
              /\ lastTrue'[c.from][c.content] >= WasTrue(c)
  BY FreshnessLasts
<1>2. StoredIsRead'
  <2>1. ASSUME NEW r \in Runs, step[r] = "set"
        PROVE  /\ got[r][use[r]] \in CopiesOfFiles
               /\ got[r][use[r]].from = asked[r]
               /\ lastTrue'[got[r][use[r]].from][got[r][use[r]].content] >= began[r]
    BY <1>1, <2>1 DEF FreshInv, ConfigTypes, StoredIsRead
  <2>2. QED
    BY <2>1 DEF StoredIsRead, WasTrue
<1>3. CopiesExpire'
  <2>1. ASSUME NEW k \in Keys, expires[k] # 0
        PROVE  /\ copy[k] \in CopiesOfFiles
               /\ expires[k] =< lastTrue'[copy[k].from][copy[k].content] + TTL + RunLimit
    BY <1>1, <2>1, ConfigBounds DEF FreshInv, ConfigTypes, CopiesExpire
  <2>2. QED
    BY <2>1 DEF CopiesExpire, WasTrue
<1>4. GivenIsFresh'
  <2>1. ASSUME NEW r \in Runs, NEW u \in Uses, got[r][u] # NoCopy
        PROVE  lastTrue'[got[r][u].from][got[r][u].content] > began[r] - TTL - RunLimit
    BY <1>1, <2>1, ConfigBounds DEF FreshInv, ConfigTypes, GivenIsFresh
  <2>2. QED
    BY <2>1 DEF GivenIsFresh, WasTrue
<1>5. QED
  BY <1>2, <1>3, <1>4

LEMMA ConfigSteps == FreshInv /\ [ConfigNext]_cvars => FreshInv'
<1> SUFFICES ASSUME FreshInv, [ConfigNext]_cvars PROVE FreshInv'
  OBVIOUS
<1>0. ConfigTypes'
  BY ConfigTypesHold DEF FreshInv
<1>1. /\ FilesAreTrue'
      /\ RunsAreShort'
      /\ \A p \in Paths, c \in Contents : lastTrue'[p][c] >= lastTrue[p][c]
  BY <1>0, TruthGrows, RunsStayShort
<1>2. \A c \in CopiesOfFiles : WasTrue(c) \in Int
  BY <1>0, <1>1, FreshnessLasts
<1> DEFINE Kept == StoredIsRead' /\ CopiesExpire' /\ GivenIsFresh'
<1>3. ASSUME Tick \/ (\E p \in Paths, c \in Contents \cup {Absent} : Edit(p, c)) \/ UNCHANGED cvars
      PROVE  Kept
  <2>1. UNCHANGED <<copy, expires, asked, got, began, use, step>>
    BY <1>3 DEF Tick, Edit, cvars
  <2>2. QED
    BY <1>0, <1>1, <2>1, NothingGivenKeepsFresh
<1>4. ASSUME NEW r \in Runs, Start(r) \/ End(r)
      PROVE  Kept
  <2>1. /\ UNCHANGED <<copy, expires, lastTrue>>
        /\ \A q \in Runs : step'[q] = "set" => step[q] = "set" /\ q # r
        /\ \A q \in Runs \ {r} : /\ use'[q] = use[q] /\ asked'[q] = asked[q]
                                 /\ got'[q] = got[q] /\ began'[q] = began[q]
        /\ \A u \in Uses : got'[r][u] = NoCopy
    BY <1>4 DEF FreshInv, ConfigTypes, Start, End
  <2>2. StoredIsRead'
    BY <2>1 DEF FreshInv, StoredIsRead, WasTrue
  <2>3. CopiesExpire'
    BY <2>1 DEF FreshInv, CopiesExpire, WasTrue
  <2>4. GivenIsFresh'
    BY <2>1 DEF FreshInv, GivenIsFresh, WasTrue
  <2>5. QED
    BY <2>2, <2>3, <2>4
<1>5. ASSUME NEW r \in Runs, Resolve(r)
      PROVE  Kept
  <2>1. /\ UNCHANGED <<copy, expires, lastTrue, use, got, began>>
        /\ \A q \in Runs : step'[q] = "set" => step[q] = "set" /\ q # r
        /\ \A q \in Runs \ {r} : asked'[q] = asked[q]
    BY <1>5 DEF FreshInv, ConfigTypes, Resolve
  <2>2. QED
    BY <2>1 DEF FreshInv, StoredIsRead, CopiesExpire, GivenIsFresh, WasTrue
<1>6. ASSUME NEW r \in Runs, Get(r)
      PROVE  Kept
  <2> DEFINE k == KeyOf(r)
  <2>1. UNCHANGED <<now, copy, expires, asked, began, lastTrue>> /\ step[r] = "get"
    BY <1>6 DEF Get
  <2>2. CASE now < expires[k] /\ Give(r, copy[k])
    <3>1. k \in Keys
      BY DEF FreshInv, ConfigTypes, KeyOf, Keys
    <3>2. /\ copy[k] \in CopiesOfFiles
          /\ expires[k] =< WasTrue(copy[k]) + TTL + RunLimit
          /\ expires[k] \in Nat /\ now \in Nat
      BY <2>2, <3>1 DEF FreshInv, ConfigTypes, CopiesExpire
    <3>3. now < WasTrue(copy[k]) + TTL + RunLimit
      BY <1>2, <2>2, <3>2, ConfigBounds
    <3>4. GivenIsFresh'
      BY <1>0, <2>1, <2>2, <3>2, <3>3, GivingKeepsFresh
    <3>5. /\ \A q \in Runs : step'[q] = "set" => step[q] = "set" /\ q # r
          /\ \A q \in Runs \ {r} : use'[q] = use[q] /\ got'[q] = got[q]
      BY <2>2 DEF Give, FreshInv, ConfigTypes
    <3>6. StoredIsRead' /\ CopiesExpire'
      BY <2>1, <3>5 DEF FreshInv, StoredIsRead, CopiesExpire, WasTrue
    <3>7. QED
      BY <3>4, <3>6
  <2>3. CASE step' = [step EXCEPT ![r] = "open"] /\ UNCHANGED <<use, got>>
    BY <2>1, <2>3 DEF FreshInv, ConfigTypes, StoredIsRead, CopiesExpire, GivenIsFresh, WasTrue
  <2>4. QED
    BY <1>6, <2>2, <2>3 DEF Get
<1>7. ASSUME NEW r \in Runs, Open(r)
      PROVE  Kept
  <2>1. UNCHANGED <<now, copy, expires, use, asked, began, lastTrue>> /\ step[r] = "open"
    BY <1>7 DEF Open
  <2>2. CASE file[asked[r]] = Absent
    BY <1>7, <2>1, <2>2
       DEF Open, FreshInv, ConfigTypes, StoredIsRead, CopiesExpire, GivenIsFresh, WasTrue
  <2>3. CASE file[asked[r]] # Absent
    <3> DEFINE c == [content |-> file[asked[r]], from |-> asked[r]]
    <3>1. /\ step' = [step EXCEPT ![r] = "set"]
          /\ got' = [got EXCEPT ![r][use[r]] = c]
      BY <1>7, <2>3 DEF Open
    <3>2. /\ c \in CopiesOfFiles
          /\ c.from = asked[r]
          /\ WasTrue(c) = now
      BY <2>3 DEF FreshInv, ConfigTypes, FilesAreTrue, CopiesOfFiles, WasTrue
    <3> HIDE DEF c
    <3>3. WasTrue(c) >= began[r] /\ WasTrue(c) > began[r] - TTL - RunLimit
      BY <3>2, ConfigBounds DEF FreshInv, ConfigTypes, RunsAreShort
    <3>4. \A q \in Runs, u \in Uses :
              got'[q][u] = IF q = r /\ u = use[r] THEN c ELSE got[q][u]
      BY <3>1 DEF FreshInv, ConfigTypes
    <3>5. \A q \in Runs : use[q] \in Uses /\ (step'[q] = "set" => q = r \/ step[q] = "set")
      BY <3>1 DEF FreshInv, ConfigTypes
    <3>6. StoredIsRead'
      BY <2>1, <3>2, <3>3, <3>4, <3>5 DEF FreshInv, StoredIsRead, WasTrue
    <3>7. CopiesExpire'
      BY <2>1 DEF FreshInv, CopiesExpire, WasTrue
    <3>8. GivenIsFresh'
      BY <2>1, <3>3, <3>4 DEF FreshInv, GivenIsFresh, WasTrue
    <3>9. QED
      BY <3>6, <3>7, <3>8
  <2>4. QED
    BY <2>2, <2>3
<1>8. ASSUME NEW r \in Runs, Set(r)
      PROVE  Kept
  <2> DEFINE c == got[r][use[r]]
             k == KeyOf(r)
  <2>1. /\ UNCHANGED <<now, file, asked, began, lastTrue>>
        /\ step[r] = "set"
        /\ Give(r, c)
    BY <1>8 DEF Set
  <2>2. c \in CopiesOfFiles /\ WasTrue(c) >= began[r]
    BY <2>1 DEF FreshInv, StoredIsRead
  <2>3. now =< WasTrue(c) + RunLimit
    <3>1. now - began[r] =< RunLimit /\ now \in Nat /\ began[r] \in Nat
      BY <2>1 DEF FreshInv, ConfigTypes, RunsAreShort
    <3>2. QED
      BY <1>2, <2>2, <3>1, ConfigBounds
  <2>4. CopiesExpire'
    <3>1. CASE UNCHANGED <<copy, expires>>
      BY <2>1, <3>1 DEF FreshInv, CopiesExpire, WasTrue
    <3>2. CASE copy' = [copy EXCEPT ![k] = c] /\ expires' = [expires EXCEPT ![k] = now + TTL]
      <4>1. now + TTL =< WasTrue(c) + TTL + RunLimit
        BY <1>2, <2>2, <2>3, ConfigBounds DEF FreshInv, ConfigTypes
      <4>2. \A j \in Keys : /\ copy'[j] = IF j = k THEN c ELSE copy[j]
                            /\ expires'[j] = IF j = k THEN now + TTL ELSE expires[j]
        BY <3>2 DEF FreshInv, ConfigTypes
      <4>3. QED
        BY <2>1, <2>2, <4>1, <4>2 DEF FreshInv, CopiesExpire, WasTrue
    <3>3. QED
      BY <1>8, <3>1, <3>2 DEF Set
  <2>5. StoredIsRead'
    <3>1. /\ \A q \in Runs : step'[q] = "set" => step[q] = "set" /\ q # r
          /\ \A q \in Runs \ {r} : use'[q] = use[q] /\ got'[q] = got[q]
      BY <2>1 DEF Give, FreshInv, ConfigTypes
    <3>2. QED
      BY <2>1, <3>1 DEF FreshInv, StoredIsRead, WasTrue
  <2>6. GivenIsFresh'
    <3>1. got' = got
      BY <2>1 DEF Give, FreshInv, ConfigTypes
    <3>2. QED
      BY <2>1, <3>1 DEF FreshInv, GivenIsFresh, WasTrue
  <2>7. QED
    BY <2>4, <2>5, <2>6
<1> HIDE DEF Kept
<1>9. Kept
  BY <1>3, <1>4, <1>5, <1>6, <1>7, <1>8 DEF ConfigNext, GetConfig
<1>10. QED
  BY <1>0, <1>1, <1>9 DEF FreshInv, Kept

\* No run is given a file that was not so an expiry and two run lifetimes ago
\* (cache.py:2-5, config_files.py:38-45), for any expiry and any reads that
\* overlap.
THEOREM CopiesAreFresh == ConfigSpec => []FreshEnough
<1>1. FreshInv => FreshEnough
  <2> SUFFICES ASSUME FreshInv, NEW r \in Runs, NEW u \in Uses, step[r] # "off", got[r][u] # NoCopy
               PROVE  now - WasTrue(got[r][u]) < TTL + 2 * RunLimit
    BY DEF FreshEnough, WasTrue
  <2>1. got[r][u] \in CopiesOfFiles
    BY DEF FreshInv, ConfigTypes
  <2>2. WasTrue(got[r][u]) \in Int /\ began[r] \in Nat /\ now \in Nat
    BY <2>1 DEF FreshInv, ConfigTypes, CopiesOfFiles, WasTrue
  <2>3. WasTrue(got[r][u]) > began[r] - TTL - RunLimit /\ now - began[r] =< RunLimit
    BY DEF FreshInv, GivenIsFresh, RunsAreShort
  <2>4. QED
    BY <2>2, <2>3, ConfigBounds
<1>2. QED
  BY <1>1, ConfigStarts, ConfigSteps, PTL DEF ConfigSpec
-----------------------------------------------------------------------------
(* Whose file a run is given.                                              *)

\* Cache.prepare_key keeps the paths in use apart.
KeysDiffer == \A p, q \in Paths : Key[p] = Key[q] => p = q

\* A run only asks for its own files, and stores them under their own keys.
AskedIsOwn ==
    \A r \in Runs : step[r] \in {"get", "open", "set"} => asked[r] \in {Home[r], Packaged}

StoredIsOwn ==
    /\ \A r \in Runs : step[r] = "set" =>
           got[r][use[r]] \in CopiesOfFiles /\ got[r][use[r]].from = asked[r]
    /\ \A k \in Keys : expires[k] = 0 \/ (copy[k] \in CopiesOfFiles /\ Key[copy[k].from] = k)

WholeInv == ConfigTypes /\ AskedIsOwn /\ StoredIsOwn /\ OverrideIsWhole

LEMMA WholeStarts == ConfigInit => WholeInv
<1> SUFFICES ASSUME ConfigInit PROVE WholeInv
  OBVIOUS
<1>1. ConfigTypes
  BY ConfigStarts DEF FreshInv
<1>2. AskedIsOwn /\ StoredIsOwn /\ OverrideIsWhole
  BY DEF ConfigInit, AskedIsOwn, StoredIsOwn, OverrideIsWhole
<1>3. QED
  BY <1>1, <1>2 DEF WholeInv

\* A run is given a file of its own.
LEMMA GivingKeepsWhole ==
    ASSUME WholeInv, ConfigTypes', NEW r \in Runs, NEW c \in CopiesOfFiles, Give(r, c),
           c.from \in {Home[r], Packaged},
           UNCHANGED asked
    PROVE  /\ AskedIsOwn'
           /\ OverrideIsWhole'
           /\ \A q \in Runs : step'[q] = "set" =>
                  step[q] = "set" /\ got'[q] = got[q] /\ use'[q] = use[q]
<1> USE DEF WholeInv, ConfigTypes
<1>1. \A q \in Runs, u \in Uses : got'[q][u] = IF q = r /\ u = use[r] THEN c ELSE got[q][u]
  BY DEF Give
<1>2. \A q \in Runs : /\ q # r => step'[q] = step[q] /\ got'[q] = got[q] /\ use'[q] = use[q]
                      /\ q = r => step'[q] \in {"off", "checks", "resolve"}
  BY DEF Give
<1>3. AskedIsOwn'
  BY <1>2 DEF AskedIsOwn
<1>4. OverrideIsWhole'
  BY <1>1 DEF OverrideIsWhole
<1>5. QED
  BY <1>2, <1>3, <1>4

LEMMA WholeSteps == ASSUME KeysDiffer PROVE WholeInv /\ [ConfigNext]_cvars => WholeInv'
<1> SUFFICES ASSUME WholeInv, [ConfigNext]_cvars PROVE WholeInv'
  OBVIOUS
<1>0. ConfigTypes'
  BY ConfigTypesHold DEF WholeInv
<1> DEFINE Kept == AskedIsOwn' /\ StoredIsOwn' /\ OverrideIsWhole'
<1>1. ASSUME Tick \/ (\E p \in Paths, c \in Contents \cup {Absent} : Edit(p, c)) \/ UNCHANGED cvars
      PROVE  Kept
  <2>1. UNCHANGED <<copy, expires, asked, got, use, step>>
    BY <1>1 DEF Tick, Edit, cvars
  <2>2. QED
    BY <2>1 DEF WholeInv, AskedIsOwn, StoredIsOwn, OverrideIsWhole
<1>2. ASSUME NEW r \in Runs, Start(r) \/ End(r)
      PROVE  Kept
  <2>1. /\ UNCHANGED <<copy, expires>>
        /\ \A q \in Runs \ {r} : /\ use'[q] = use[q] /\ asked'[q] = asked[q]
                                 /\ got'[q] = got[q] /\ step'[q] = step[q]
        /\ step'[r] \in {"off", "resolve"}
        /\ \A u \in Uses : got'[r][u] = NoCopy
    BY <1>2 DEF WholeInv, ConfigTypes, Start, End
  <2>2. QED
    BY <2>1 DEF WholeInv, AskedIsOwn, StoredIsOwn, OverrideIsWhole
<1>3. ASSUME NEW r \in Runs, Resolve(r)
      PROVE  Kept
  <2>1. /\ UNCHANGED <<copy, expires, use, got>>
        /\ step' = [step EXCEPT ![r] = "get"]
        /\ \A q \in Runs \ {r} : asked'[q] = asked[q]
        /\ asked'[r] \in {Home[r], Packaged}
    BY <1>3 DEF WholeInv, ConfigTypes, Resolve
  <2>2. QED
    BY <2>1 DEF WholeInv, ConfigTypes, AskedIsOwn, StoredIsOwn, OverrideIsWhole
<1>4. ASSUME NEW r \in Runs, Get(r)
      PROVE  Kept
  <2> DEFINE k == KeyOf(r)
  <2>1. UNCHANGED <<copy, expires, asked>> /\ step[r] = "get"
    BY <1>4 DEF Get
  <2>2. CASE now < expires[k] /\ Give(r, copy[k])
    <3>1. k \in Keys /\ asked[r] \in Paths /\ k = Key[asked[r]]
      BY DEF WholeInv, ConfigTypes, KeyOf, Keys
    <3>2. copy[k] \in CopiesOfFiles /\ Key[copy[k].from] = k
      BY <2>2, <3>1 DEF WholeInv, ConfigTypes, StoredIsOwn
    <3>3. copy[k].from = asked[r]
      BY <3>1, <3>2 DEF KeysDiffer, CopiesOfFiles
    <3>4. copy[k].from \in {Home[r], Packaged}
      BY <2>1, <3>3 DEF WholeInv, AskedIsOwn
    <3>5. QED
      BY <1>0, <2>1, <2>2, <3>2, <3>4, GivingKeepsWhole DEF WholeInv, StoredIsOwn
  <2>3. CASE step' = [step EXCEPT ![r] = "open"] /\ UNCHANGED <<use, got>>
    BY <2>1, <2>3 DEF WholeInv, ConfigTypes, AskedIsOwn, StoredIsOwn, OverrideIsWhole
  <2>4. QED
    BY <1>4, <2>2, <2>3 DEF Get
<1>5. ASSUME NEW r \in Runs, Open(r)
      PROVE  Kept
  <2>1. UNCHANGED <<copy, expires, use, asked>> /\ step[r] = "open"
    BY <1>5 DEF Open
  <2>2. CASE file[asked[r]] = Absent
    BY <1>5, <2>1, <2>2 DEF Open, WholeInv, ConfigTypes, AskedIsOwn, StoredIsOwn, OverrideIsWhole
  <2>3. CASE file[asked[r]] # Absent
    <3> DEFINE c == [content |-> file[asked[r]], from |-> asked[r]]
    <3>1. /\ step' = [step EXCEPT ![r] = "set"]
          /\ got' = [got EXCEPT ![r][use[r]] = c]
      BY <1>5, <2>3 DEF Open
    <3>2. c \in CopiesOfFiles /\ c.from = asked[r]
      BY <2>3 DEF WholeInv, ConfigTypes, CopiesOfFiles
    <3> HIDE DEF c
    <3>3. \A q \in Runs, u \in Uses :
              got'[q][u] = IF q = r /\ u = use[r] THEN c ELSE got[q][u]
      BY <3>1 DEF WholeInv, ConfigTypes
    <3>4. \A q \in Runs : use[q] \in Uses /\ (step'[q] = "set" => q = r \/ step[q] = "set")
      BY <3>1 DEF WholeInv, ConfigTypes
    <3>5. AskedIsOwn'
      BY <2>1, <3>1 DEF WholeInv, ConfigTypes, AskedIsOwn
    <3>6. StoredIsOwn'
      BY <2>1, <3>2, <3>3, <3>4 DEF WholeInv, StoredIsOwn
    <3>7. OverrideIsWhole'
      BY <2>1, <3>2, <3>3, <3>5 DEF WholeInv, AskedIsOwn, OverrideIsWhole
    <3>8. QED
      BY <3>5, <3>6, <3>7
  <2>4. QED
    BY <2>2, <2>3
<1>6. ASSUME NEW r \in Runs, Set(r)
      PROVE  Kept
  <2> DEFINE c == got[r][use[r]]
             k == KeyOf(r)
  <2>1. UNCHANGED asked /\ step[r] = "set" /\ Give(r, c)
    BY <1>6 DEF Set
  <2>2. c \in CopiesOfFiles /\ c.from = asked[r] /\ asked[r] \in {Home[r], Packaged}
    BY <2>1 DEF WholeInv, StoredIsOwn, AskedIsOwn
  <2>3. \A j \in Keys : expires'[j] = 0 \/ (copy'[j] \in CopiesOfFiles /\ Key[copy'[j].from] = j)
    <3>1. CASE UNCHANGED <<copy, expires>>
      BY <3>1 DEF WholeInv, StoredIsOwn
    <3>2. CASE copy' = [copy EXCEPT ![k] = c] /\ expires' = [expires EXCEPT ![k] = now + TTL]
      BY <2>2, <3>2 DEF WholeInv, ConfigTypes, StoredIsOwn, KeyOf
    <3>3. QED
      BY <1>6, <3>1, <3>2 DEF Set
  <2>4. /\ AskedIsOwn'
        /\ OverrideIsWhole'
        /\ \A q \in Runs : step'[q] = "set" =>
               step[q] = "set" /\ got'[q] = got[q] /\ use'[q] = use[q]
    BY <1>0, <2>1, <2>2, GivingKeepsWhole
  <2>5. QED
    BY <2>1, <2>3, <2>4 DEF WholeInv, StoredIsOwn
<1> HIDE DEF Kept
<1>7. Kept
  BY <1>1, <1>2, <1>3, <1>4, <1>5, <1>6 DEF ConfigNext, GetConfig
<1>8. QED
  BY <1>0, <1>7 DEF WholeInv, Kept

\* A run with an override directory sees its own files and the packaged ones,
\* and no other directory's (config_files.py:34-36), as long as no two paths
\* share a Redis key.
THEOREM OverridesStayWhole == ASSUME KeysDiffer PROVE ConfigSpec => []OverrideIsWhole
<1>1. WholeInv => OverrideIsWhole
  BY DEF WholeInv
<1>2. QED
  BY <1>1, WholeStarts, WholeSteps, PTL DEF ConfigSpec
-----------------------------------------------------------------------------
(* The environment and the list of instances.                              *)

Lists == [fleet : SUBSET Instances, of : Environments]

LookupSteps ==
    {"off", "get parameter", "ask Parameter Store", "set parameter",
     "get list", "ask EC2", "set list", "measure"}

TruthTypes ==
    /\ clock \in Nat
    /\ environment \in Environments
    /\ fleet \in [Environments -> SUBSET Instances]
    /\ environmentWas \in [Environments -> Int]
    /\ fleetWas \in [Environments -> [SUBSET Instances -> Int]]

CopyTypes == parameterCopy.until \in Nat /\ listCopy.until \in Nat

LookupTypes ==
    /\ doing \in [Lookups -> LookupSteps]
    /\ DOMAIN told = Lookups
    /\ DOMAIN listed = Lookups
    /\ since \in [Lookups -> Nat]

FleetTypes == TruthTypes /\ CopyTypes /\ LookupTypes

WasListed(l) == fleetWas[l.of][l.fleet]

\* What is the case now is true now, and nothing is true later than now.
FleetsAreTrue ==
    /\ environmentWas[environment] = clock
    /\ \A e \in Environments : environmentWas[e] =< clock
    /\ \A e \in Environments : fleetWas[e][fleet[e]] = clock
    /\ \A e \in Environments, f \in SUBSET Instances : fleetWas[e][f] =< clock

LookupsAreShort ==
    \A r \in Lookups : /\ since[r] =< clock
                       /\ doing[r] # "off" => clock - since[r] =< LookupLimit

\* What a run stores it has asked for itself.  What it uses may have been a copy:
\* the parameter one expiry and one run older than the run...
ToldIsFresh(r) ==
    /\ doing[r] = "set parameter" =>
           told[r] \in Environments /\ environmentWas[told[r]] >= since[r]
    /\ doing[r] \in {"get list", "ask EC2"} =>
           /\ told[r] \in Environments
           /\ environmentWas[told[r]] > since[r] - Expiry - LookupLimit

\* ...and the list one expiry and one run older again.
ListedIsFresh(r) ==
    /\ doing[r] = "set list" =>
           /\ listed[r] \in Lists
           /\ WasListed(listed[r]) >= since[r]
           /\ environmentWas[listed[r].of] > since[r] - Expiry - LookupLimit
    /\ doing[r] = "measure" =>
           /\ listed[r] \in Lists
           /\ WasListed(listed[r]) > since[r] - Expiry - LookupLimit
           /\ environmentWas[listed[r].of] > since[r] - 2 * Expiry - 2 * LookupLimit

\* Each copy is dropped one expiry and one run after what it copies was true.
ParameterAges ==
    \/ parameterCopy.until = 0
    \/ /\ parameterCopy.value \in Environments
       /\ parameterCopy.until =< environmentWas[parameterCopy.value] + Expiry + LookupLimit

ListAges ==
    \/ listCopy.until = 0
    \/ /\ listCopy.value \in Lists
       /\ listCopy.until =< WasListed(listCopy.value) + Expiry + LookupLimit
       /\ listCopy.until < environmentWas[listCopy.value.of] + 2 * Expiry + 2 * LookupLimit

StaleInv ==
    /\ FleetTypes
    /\ FleetsAreTrue
    /\ LookupsAreShort
    /\ \A r \in Lookups : ToldIsFresh(r) /\ ListedIsFresh(r)
    /\ ParameterAges
    /\ ListAges

LEMMA FleetBounds ==
    Expiry \in Nat /\ LookupLimit \in Nat /\ LookupLimit > 0 /\ Long \in Int /\ Long < 0
BY FleetAssumption DEF Long

LEMMA FleetStarts == FleetInit => StaleInv
<1> SUFFICES ASSUME FleetInit PROVE StaleInv
  OBVIOUS
<1>1. /\ clock = 0
      /\ environment = Local /\ Local \in Environments
      /\ fleet = [e \in Environments |-> {}]
      /\ environmentWas = [e \in Environments |-> IF e = Local THEN 0 ELSE Long]
      /\ fleetWas = [e \in Environments |-> [f \in SUBSET Instances |-> IF f = {} THEN 0 ELSE Long]]
  BY FleetAssumption DEF FleetInit
<1>2. \A e \in Environments : (IF e = Local THEN 0 ELSE Long) \in Int
  BY FleetBounds
<1>3. [f \in SUBSET Instances |-> IF f = {} THEN 0 ELSE Long] \in [SUBSET Instances -> Int]
  <2>1. \A f \in SUBSET Instances : (IF f = {} THEN 0 ELSE Long) \in Int
    BY FleetBounds
  <2>2. QED
    BY <2>1
<1>4. TruthTypes
  BY <1>1, <1>2, <1>3 DEF TruthTypes
<1>5. parameterCopy.until = 0 /\ listCopy.until = 0
  BY DEF FleetInit, Gone
<1>6. LookupTypes /\ (\A r \in Lookups : doing[r] = "off" /\ since[r] = 0)
  BY DEF FleetInit, LookupTypes, LookupSteps
<1>7. FleetsAreTrue
  <2>1. environmentWas[environment] = clock /\ \A e \in Environments : environmentWas[e] =< clock
    BY <1>1, FleetBounds
  <2>2. \A e \in Environments : \A f \in SUBSET Instances :
            fleetWas[e][f] = IF f = {} THEN 0 ELSE Long
    BY <1>1
  <2>3. \A e \in Environments : fleet[e] = {} /\ fleet[e] \in SUBSET Instances
    BY <1>1
  <2>4. \A e \in Environments : fleetWas[e][fleet[e]] = clock
    BY <1>1, <2>2, <2>3
  <2>5. \A e \in Environments, f \in SUBSET Instances : fleetWas[e][f] =< clock
    <3>1. \A f \in SUBSET Instances : (IF f = {} THEN 0 ELSE Long) =< 0
      BY FleetBounds
    <3>2. QED
      BY <1>1, <2>2, <3>1
  <2>6. QED
    BY <2>1, <2>4, <2>5 DEF FleetsAreTrue
<1>8. LookupsAreShort /\ \A r \in Lookups : ToldIsFresh(r) /\ ListedIsFresh(r)
  <2>1. LookupsAreShort
    BY <1>1, <1>6 DEF LookupsAreShort
  <2>2. \A r \in Lookups : ToldIsFresh(r)
    BY <1>6 DEF ToldIsFresh
  <2>3. \A r \in Lookups : ListedIsFresh(r)
    BY <1>6 DEF ListedIsFresh
  <2>4. QED
    BY <2>1, <2>2, <2>3
<1>9. QED
  BY <1>4, <1>5, <1>6, <1>7, <1>8 DEF StaleInv, FleetTypes, CopyTypes, ParameterAges, ListAges

\* The truth changes with the clock, with a change or with a seed, and nowhere
\* else; what was true once only comes nearer.
LEMMA TruthsGrow ==
    ASSUME StaleInv, [FleetNext]_fvars
    PROVE  /\ TruthTypes'
           /\ FleetsAreTrue'
           /\ \A e \in Environments : environmentWas'[e] >= environmentWas[e]
           /\ \A e \in Environments, f \in SUBSET Instances : fleetWas'[e][f] >= fleetWas[e][f]
<1>0. TruthTypes /\ FleetsAreTrue
  BY DEF StaleInv, FleetTypes
<1> DEFINE Grown == /\ TruthTypes'
                    /\ FleetsAreTrue'
                    /\ \A e \in Environments : environmentWas'[e] >= environmentWas[e]
                    /\ \A e \in Environments, f \in SUBSET Instances :
                           fleetWas'[e][f] >= fleetWas[e][f]
<1>1. ASSUME ClockTicks
      PROVE  Grown
  <2>1. /\ clock' = clock + 1 /\ environment' = environment /\ fleet' = fleet
        /\ environmentWas' = [environmentWas EXCEPT ![environment] = clock + 1]
        /\ fleetWas' = [e \in Environments |-> [fleetWas[e] EXCEPT ![fleet[e]] = clock + 1]]
    BY <1>1 DEF ClockTicks
  <2>2. \A e \in Environments : environmentWas'[e] = IF e = environment THEN clock + 1 ELSE environmentWas[e]
    BY <1>0, <2>1 DEF TruthTypes
  <2>3. \A e \in Environments, f \in SUBSET Instances :
            fleetWas'[e][f] = IF f = fleet[e] THEN clock + 1 ELSE fleetWas[e][f]
    BY <1>0, <2>1 DEF TruthTypes
  <2>4. TruthTypes'
    BY <1>0, <2>1 DEF TruthTypes
  <2>5. \A e \in Environments : fleet[e] \in SUBSET Instances
    BY <1>0 DEF TruthTypes
  <2>6. \A e \in Environments, f \in SUBSET Instances :
            fleetWas[e][f] \in Int /\ fleetWas[e][f] =< clock /\ clock \in Nat
    BY <1>0 DEF TruthTypes, FleetsAreTrue
  <2>7. \A e \in Environments :
            environmentWas[e] \in Int /\ environmentWas[e] =< clock /\ clock \in Nat
    BY <1>0 DEF TruthTypes, FleetsAreTrue
  <2>8. environment \in Environments
    BY <1>0 DEF TruthTypes
  <2>9. /\ environmentWas'[environment'] = clock'
        /\ \A e \in Environments :
               environmentWas'[e] =< clock' /\ environmentWas'[e] >= environmentWas[e]
    BY <2>1, <2>2, <2>7, <2>8
  <2>10. /\ \A e \in Environments : fleetWas'[e][fleet'[e]] = clock'
         /\ \A e \in Environments, f \in SUBSET Instances :
                fleetWas'[e][f] =< clock' /\ fleetWas'[e][f] >= fleetWas[e][f]
    BY <2>1, <2>3, <2>5, <2>6
  <2>11. QED
    BY <2>4, <2>9, <2>10 DEF FleetsAreTrue
<1>2. ASSUME NEW e \in Environments, ChangeEnvironment(e)
      PROVE  Grown
  <2>1. /\ clock' = clock /\ environment' = e /\ UNCHANGED <<fleet, fleetWas>>
        /\ environmentWas' = [environmentWas EXCEPT ![e] = clock]
    BY <1>2 DEF ChangeEnvironment
  <2>2. TruthTypes'
    <3>1. environmentWas' \in [Environments -> Int]
      BY <1>0, <2>1 DEF TruthTypes
    <3>2. QED
      BY <1>0, <2>1, <3>1 DEF TruthTypes
  <2>3. \A d \in Environments : environmentWas'[d] = IF d = e THEN clock ELSE environmentWas[d]
    BY <1>0, <2>1 DEF TruthTypes
  <2>4. \A d \in Environments : environmentWas[d] \in Int /\ environmentWas[d] =< clock
    BY <1>0 DEF TruthTypes, FleetsAreTrue
  <2>5. clock \in Nat /\ \A d \in Environments, f \in SUBSET Instances : fleetWas[d][f] \in Int
    BY <1>0 DEF TruthTypes
  <2>6. /\ environmentWas'[environment'] = clock'
        /\ \A d \in Environments :
               environmentWas'[d] =< clock' /\ environmentWas'[d] >= environmentWas[d]
    BY <2>1, <2>3, <2>4, <2>5
  <2>7. FleetsAreTrue'
    BY <1>0, <2>1, <2>6 DEF FleetsAreTrue
  <2>8. \A d \in Environments, f \in SUBSET Instances : fleetWas'[d][f] >= fleetWas[d][f]
    BY <2>1, <2>5
  <2>9. QED
    BY <2>2, <2>6, <2>7, <2>8
<1>3. ASSUME NEW e \in Environments, NEW f \in SUBSET Instances, Scale(e, f),
             UNCHANGED <<clock, environment, environmentWas>>
      PROVE  Grown
  <2>1. /\ fleet' = [fleet EXCEPT ![e] = f]
        /\ fleetWas' = [fleetWas EXCEPT ![e][f] = clock]
    BY <1>3 DEF Scale
  <2>2. TruthTypes'
    <3>1. fleet' \in [Environments -> SUBSET Instances]
      BY <1>0, <2>1 DEF TruthTypes
    <3>2. fleetWas' \in [Environments -> [SUBSET Instances -> Int]]
      <4> DEFINE was == [fleetWas[e] EXCEPT ![f] = clock]
      <4>1. fleetWas[e] \in [SUBSET Instances -> Int] /\ clock \in Nat
        BY <1>0 DEF TruthTypes
      <4>2. was \in [SUBSET Instances -> Int]
        <5>1. clock \in Int
          BY <4>1
        <5>2. QED
          BY <4>1, <5>1, Zenon
      <4>3. fleetWas' = [fleetWas EXCEPT ![e] = was]
        BY <2>1
      <4> HIDE DEF was
      <4>4. QED
        BY <1>0, <4>2, <4>3 DEF TruthTypes
    <3>3. QED
      BY <1>0, <1>3, <3>1, <3>2 DEF TruthTypes
  <2>3. \A d \in Environments, g \in SUBSET Instances :
            fleetWas'[d][g] = IF d = e /\ g = f THEN clock ELSE fleetWas[d][g]
    BY <1>0, <2>1 DEF TruthTypes
  <2>4. \A d \in Environments : /\ fleet'[d] = IF d = e THEN f ELSE fleet[d]
                                /\ fleet'[d] \in SUBSET Instances
    BY <1>0, <2>1 DEF TruthTypes
  <2>5. \A d \in Environments, g \in SUBSET Instances :
            fleetWas[d][g] \in Int /\ fleetWas[d][g] =< clock /\ clock \in Nat
    BY <1>0 DEF TruthTypes, FleetsAreTrue
  <2>6. \A d \in Environments : environmentWas[d] \in Int
    BY <1>0 DEF TruthTypes
  <2>7. /\ \A d \in Environments : fleetWas'[d][fleet'[d]] = clock'
        /\ \A d \in Environments, g \in SUBSET Instances :
               fleetWas'[d][g] =< clock' /\ fleetWas'[d][g] >= fleetWas[d][g]
    <3>1. \A d \in Environments : fleetWas[d][fleet[d]] = clock
      BY <1>0 DEF FleetsAreTrue
    <3>2. \A d \in Environments : fleetWas'[d][fleet'[d]] = clock
      BY <2>3, <2>4, <3>1
    <3>3. \A d \in Environments, g \in SUBSET Instances :
              fleetWas'[d][g] =< clock /\ fleetWas'[d][g] >= fleetWas[d][g]
      BY <2>3, <2>5
    <3>4. QED
      BY <1>3, <3>2, <3>3
  <2>8. \A d \in Environments : environmentWas'[d] >= environmentWas[d]
    BY <1>3, <2>6
  <2>9. QED
    BY <1>0, <1>3, <2>2, <2>7, <2>8 DEF FleetsAreTrue
<1>4. ASSUME UNCHANGED <<clock, environment, fleet, environmentWas, fleetWas>>
      PROVE  Grown
  <2>1. /\ \A e \in Environments : environmentWas[e] \in Int
        /\ \A e \in Environments, f \in SUBSET Instances : fleetWas[e][f] \in Int
    BY <1>0 DEF TruthTypes
  <2>2. TruthTypes' /\ FleetsAreTrue'
    BY <1>0, <1>4 DEF TruthTypes, FleetsAreTrue
  <2>3. /\ \A e \in Environments : environmentWas'[e] >= environmentWas[e]
        /\ \A e \in Environments, f \in SUBSET Instances : fleetWas'[e][f] >= fleetWas[e][f]
    BY <1>4, <2>1
  <2>4. QED
    BY <2>2, <2>3
<1> HIDE DEF Grown
<1>5. ASSUME NEW e \in Environments, NEW f \in SUBSET Instances, ChangeFleet(e, f)
      PROVE  Grown
  BY <1>3, <1>5 DEF ChangeFleet
<1>6. ASSUME NEW r \in Lookups, LookupStep(r)
      PROVE  Grown
  BY <1>4, <1>6
     DEF LookupStep, actual, BeginLookup, GetParameter, AskParameterStore, SetParameter,
         GetList, AskEC2, SetList, EndLookup
<1>7. ASSUME Launch
      PROVE  Grown
  <2>1. Local \in Environments /\ {Fresh} \in SUBSET Instances
    BY FleetAssumption
  <2>2. UNCHANGED <<clock, environment, environmentWas>>
    BY <1>7 DEF Launch
  <2>3. Scale(Local, {Fresh}) \/ UNCHANGED <<fleet, fleetWas>>
    BY <1>7 DEF Launch
  <2>4. QED
    BY <1>3, <1>4, <2>1, <2>2, <2>3
<1>8. Grown
  BY <1>1, <1>2, <1>4, <1>5, <1>6, <1>7 DEF FleetNext, Drop, fvars, actual
<1>9. QED
  BY <1>8 DEF Grown

\* The clock never runs past a run's time, and nothing else moves it.
LEMMA LookupsStayShort ==
    ASSUME StaleInv, [FleetNext]_fvars
    PROVE  CopyTypes' /\ LookupTypes' /\ LookupsAreShort'
<1>0. /\ clock \in Nat /\ CopyTypes /\ LookupTypes /\ LookupsAreShort
  BY DEF StaleInv, FleetTypes, TruthTypes
<1> DEFINE Kept == CopyTypes' /\ LookupTypes' /\ LookupsAreShort'
<1>1. ASSUME ClockTicks
      PROVE  Kept
  <2>1. UNCHANGED <<parameterCopy, listCopy, doing, told, listed, since>> /\ clock' = clock + 1
    BY <1>1 DEF ClockTicks, copies, runVars
  <2>2. \A r \in Lookups : doing[r] # "off" => clock - since[r] < LookupLimit
    BY <1>1 DEF ClockTicks
  <2>3. CopyTypes' /\ LookupTypes'
    BY <1>0, <2>1 DEF CopyTypes, LookupTypes
  <2>4. \A r \in Lookups : since[r] \in Nat
    BY <1>0 DEF LookupTypes
  <2>5. LookupsAreShort'
    BY <1>0, <2>1, <2>2, <2>4, FleetBounds DEF LookupsAreShort
  <2>6. QED
    BY <2>3, <2>5
<1>2. ASSUME NEW r \in Lookups, LookupStep(r)
      PROVE  Kept
  <2>1. clock' = clock
    BY <1>2 DEF LookupStep, BeginLookup, GetParameter, AskParameterStore, SetParameter,
                GetList, AskEC2, SetList, EndLookup
  <2>2. CopyTypes'
    <3>1. /\ parameterCopy' = parameterCopy \/ parameterCopy' = [value |-> told[r], until |-> clock + Expiry]
          /\ listCopy' = listCopy \/ listCopy' = [value |-> listed[r], until |-> clock + Expiry]
      BY <1>2 DEF LookupStep, BeginLookup, GetParameter, AskParameterStore, SetParameter,
                  GetList, AskEC2, SetList, EndLookup, copies
    <3>2. clock + Expiry \in Nat
      BY <1>0, FleetBounds
    <3>3. QED
      BY <1>0, <3>1, <3>2 DEF CopyTypes
  <2>3. \E to \in LookupSteps : Move(r, to)
    BY <1>2 DEF LookupStep, BeginLookup, GetParameter, AskParameterStore, SetParameter,
                GetList, AskEC2, SetList, EndLookup, LookupSteps
  <2>4. /\ DOMAIN told' = DOMAIN told
        /\ DOMAIN listed' = DOMAIN listed
    BY <1>2 DEF LookupStep, BeginLookup, GetParameter, AskParameterStore, SetParameter,
                GetList, AskEC2, SetList, EndLookup
  <2>5. \/ since' = since /\ doing[r] # "off"
        \/ \E s \in {0, clock} : since' = [since EXCEPT ![r] = s] /\ (s = clock \/ doing'[r] = "off")
    BY <1>0, <1>2 DEF LookupStep, BeginLookup, GetParameter, AskParameterStore, SetParameter,
                      GetList, AskEC2, SetList, EndLookup, LookupTypes, Move
  <2>6. since' \in [Lookups -> Nat]
    BY <1>0, <2>5 DEF LookupTypes
  <2>7. doing' \in [Lookups -> LookupSteps]
    BY <1>0, <2>3 DEF LookupTypes, Move
  <2>8. LookupTypes'
    BY <1>0, <2>4, <2>6, <2>7 DEF LookupTypes
  <2>9. \A q \in Lookups : q # r => doing'[q] = doing[q] /\ since'[q] = since[q]
    BY <1>0, <2>3, <2>5 DEF LookupTypes, Move
  <2>10. since'[r] =< clock /\ (doing'[r] # "off" => clock - since'[r] =< LookupLimit)
    BY <1>0, <2>5, FleetBounds DEF LookupTypes, LookupsAreShort
  <2>11. LookupsAreShort'
    BY <1>0, <2>1, <2>9, <2>10 DEF LookupsAreShort
  <2>12. QED
    BY <2>2, <2>8, <2>11
<1>3. ASSUME UNCHANGED <<clock, runVars>>, UNCHANGED parameterCopy,
             UNCHANGED listCopy \/ listCopy' = Gone
      PROVE  Kept
  <2>1. CopyTypes'
    BY <1>0, <1>3 DEF CopyTypes, Gone
  <2>2. QED
    BY <1>0, <1>3, <2>1 DEF LookupTypes, LookupsAreShort, runVars
<1> HIDE DEF Kept
<1>4. ASSUME NEW e \in Environments,
             ChangeEnvironment(e) \/ \E f \in SUBSET Instances : ChangeFleet(e, f)
      PROVE  Kept
  BY <1>3, <1>4 DEF ChangeEnvironment, ChangeFleet, copies
<1>5. ASSUME Launch \/ Drop \/ UNCHANGED fvars
      PROVE  Kept
  BY <1>3, <1>5 DEF Launch, Drop, fvars, copies
<1>6. Kept
  BY <1>1, <1>2, <1>4, <1>5 DEF FleetNext
<1>7. QED
  BY <1>6 DEF Kept

\* What a run knows, and what a copy holds, ages no worse while it is left alone.
LEMMA KnowledgeKeeps ==
    ASSUME StaleInv, [FleetNext]_fvars, NEW r \in Lookups,
           doing'[r] = doing[r], told'[r] = told[r],
           listed'[r] = listed[r], since'[r] = since[r]
    PROVE  ToldIsFresh(r)' /\ ListedIsFresh(r)'
<1>1. /\ environmentWas \in [Environments -> Int] /\ environmentWas' \in [Environments -> Int]
      /\ fleetWas \in [Environments -> [SUBSET Instances -> Int]]
      /\ fleetWas' \in [Environments -> [SUBSET Instances -> Int]]
      /\ since[r] \in Nat
      /\ ToldIsFresh(r) /\ ListedIsFresh(r)
  BY TruthsGrow DEF StaleInv, FleetTypes, TruthTypes, LookupTypes
<1>2. ToldIsFresh(r)'
  <2> DEFINE e == told[r]
  <2>1. CASE e \in Environments
    <3>1. /\ environmentWas'[e] >= environmentWas[e]
          /\ environmentWas[e] \in Int
          /\ environmentWas'[e] \in Int
      BY <1>1, <2>1, TruthsGrow
    <3>2. ASSUME doing[r] = "set parameter"
          PROVE  environmentWas'[e] >= since[r]
      <4>1. environmentWas[e] >= since[r]
        BY <1>1, <3>2 DEF ToldIsFresh
      <4>2. QED
        BY <1>1, <3>1, <4>1
    <3>3. ASSUME doing[r] \in {"get list", "ask EC2"}
          PROVE  environmentWas'[e] > since[r] - Expiry - LookupLimit
      <4>1. environmentWas[e] > since[r] - Expiry - LookupLimit
        BY <1>1, <3>3 DEF ToldIsFresh
      <4>2. QED
        BY <1>1, <3>1, <4>1, FleetBounds
    <3>4. QED
      BY <2>1, <3>2, <3>3 DEF ToldIsFresh
  <2>2. CASE e \notin Environments
    BY <1>1, <2>2 DEF ToldIsFresh
  <2>3. QED
    BY <2>1, <2>2
<1>3. ListedIsFresh(r)'
  <2> DEFINE l == listed[r]
  <2>1. CASE l \in Lists
    <3>1. /\ environmentWas'[l.of] >= environmentWas[l.of]
          /\ fleetWas'[l.of][l.fleet] >= fleetWas[l.of][l.fleet]
          /\ environmentWas[l.of] \in Int /\ environmentWas'[l.of] \in Int
          /\ fleetWas[l.of][l.fleet] \in Int /\ fleetWas'[l.of][l.fleet] \in Int
      BY <1>1, <2>1, TruthsGrow DEF Lists
    <3>2. ASSUME doing[r] = "set list"
          PROVE  /\ fleetWas'[l.of][l.fleet] >= since[r]
                 /\ environmentWas'[l.of] > since[r] - Expiry - LookupLimit
      <4>1. /\ fleetWas[l.of][l.fleet] >= since[r]
            /\ environmentWas[l.of] > since[r] - Expiry - LookupLimit
        BY <1>1, <3>2 DEF ListedIsFresh, WasListed
      <4>2. QED
        BY <1>1, <3>1, <4>1, FleetBounds
    <3>3. ASSUME doing[r] = "measure"
          PROVE  /\ fleetWas'[l.of][l.fleet] > since[r] - Expiry - LookupLimit
                 /\ environmentWas'[l.of] > since[r] - 2 * Expiry - 2 * LookupLimit
      <4>1. /\ fleetWas[l.of][l.fleet] > since[r] - Expiry - LookupLimit
            /\ environmentWas[l.of] > since[r] - 2 * Expiry - 2 * LookupLimit
        BY <1>1, <3>3 DEF ListedIsFresh, WasListed
      <4>2. QED
        BY <1>1, <3>1, <4>1, FleetBounds
    <3>4. QED
      BY <2>1, <3>2, <3>3 DEF ListedIsFresh, WasListed
  <2>2. CASE l \notin Lists
    BY <1>1, <2>2 DEF ListedIsFresh
  <2>3. QED
    BY <2>1, <2>2
<1>4. QED
  BY <1>2, <1>3

LEMMA ParameterKeeps ==
    ASSUME StaleInv, [FleetNext]_fvars, UNCHANGED parameterCopy
    PROVE  ParameterAges'
<1>1. /\ environmentWas \in [Environments -> Int] /\ environmentWas' \in [Environments -> Int]
      /\ parameterCopy.until \in Nat
      /\ ParameterAges
  BY TruthsGrow DEF StaleInv, FleetTypes, TruthTypes, CopyTypes
<1>2. \A e \in Environments : environmentWas'[e] >= environmentWas[e]
  BY TruthsGrow
<1>3. QED
  BY <1>1, <1>2, FleetBounds DEF ParameterAges

LEMMA ListKeeps ==
    ASSUME StaleInv, [FleetNext]_fvars, UNCHANGED listCopy
    PROVE  ListAges'
<1>1. /\ environmentWas \in [Environments -> Int] /\ environmentWas' \in [Environments -> Int]
      /\ fleetWas \in [Environments -> [SUBSET Instances -> Int]]
      /\ fleetWas' \in [Environments -> [SUBSET Instances -> Int]]
      /\ listCopy.until \in Nat
      /\ ListAges
  BY TruthsGrow DEF StaleInv, FleetTypes, TruthTypes, CopyTypes
<1>2. CASE listCopy.until = 0
  BY <1>2 DEF ListAges
<1>3. CASE listCopy.until # 0
  <2> DEFINE l == listCopy.value
  <2>1. l \in Lists
    BY <1>1, <1>3 DEF ListAges
  <2>2. /\ environmentWas'[l.of] >= environmentWas[l.of]
        /\ fleetWas'[l.of][l.fleet] >= fleetWas[l.of][l.fleet]
        /\ environmentWas[l.of] \in Int /\ environmentWas'[l.of] \in Int
        /\ fleetWas[l.of][l.fleet] \in Int /\ fleetWas'[l.of][l.fleet] \in Int
    BY <1>1, <2>1, TruthsGrow DEF Lists
  <2>3. QED
    BY <1>1, <1>3, <2>1, <2>2, FleetBounds DEF ListAges, WasListed
<1>4. QED
  BY <1>2, <1>3

LEMMA OthersKeepKnowledge ==
    ASSUME StaleInv, [FleetNext]_fvars, NEW r \in Lookups, LookupStep(r),
           NEW q \in Lookups, q # r
    PROVE  ToldIsFresh(q)' /\ ListedIsFresh(q)'
<1>1. doing \in [Lookups -> LookupSteps] /\ DOMAIN told = Lookups /\ DOMAIN listed = Lookups
      /\ since \in [Lookups -> Nat]
  BY DEF StaleInv, FleetTypes, LookupTypes
<1>2. doing'[q] = doing[q] /\ told'[q] = told[q] /\ listed'[q] = listed[q] /\ since'[q] = since[q]
  BY <1>1 DEF LookupStep, BeginLookup, GetParameter, AskParameterStore, SetParameter,
              GetList, AskEC2, SetList, EndLookup, Move
<1>3. QED
  BY <1>2, KnowledgeKeeps

\* What a run is told, and what it stores.
LEMMA ToldSteps ==
    ASSUME StaleInv, [FleetNext]_fvars, NEW r \in Lookups,
           BeginLookup(r) \/ GetParameter(r) \/ AskParameterStore(r) \/ SetParameter(r)
    PROVE  ToldIsFresh(r)' /\ ListedIsFresh(r)' /\ ParameterAges' /\ UNCHANGED listCopy
<1>1. /\ clock \in Nat /\ since[r] \in Nat /\ parameterCopy.until \in Nat
      /\ environment \in Environments
      /\ environmentWas \in [Environments -> Int]
      /\ doing \in [Lookups -> LookupSteps] /\ DOMAIN told = Lookups
  BY DEF StaleInv, FleetTypes, TruthTypes, CopyTypes, LookupTypes
<1>2. /\ ToldIsFresh(r)
      /\ environmentWas[environment] = clock
      /\ since[r] =< clock
      /\ doing[r] # "off" => clock - since[r] =< LookupLimit
  BY DEF StaleInv, FleetsAreTrue, LookupsAreShort
<1>3. CASE BeginLookup(r)
  <2>1. doing'[r] = "get parameter" /\ UNCHANGED <<parameterCopy, listCopy>>
    BY <1>1, <1>3 DEF BeginLookup, Move, copies
  <2>2. QED
    BY <2>1, ParameterKeeps DEF ToldIsFresh, ListedIsFresh
<1>4. CASE GetParameter(r)
  <2>1. UNCHANGED <<parameterCopy, listCopy, environmentWas, since>>
    BY <1>4 DEF GetParameter, copies, actual
  <2>2. CASE doing'[r] = "ask Parameter Store"
    BY <2>1, <2>2, ParameterKeeps DEF ToldIsFresh, ListedIsFresh
  <2>3. CASE doing'[r] # "ask Parameter Store"
    <3>1. clock < parameterCopy.until /\ told'[r] = parameterCopy.value /\ doing'[r] = "get list"
      <4>1. \/ /\ clock < parameterCopy.until
               /\ told' = [told EXCEPT ![r] = parameterCopy.value]
               /\ doing' = [doing EXCEPT ![r] = "get list"]
            \/ doing' = [doing EXCEPT ![r] = "ask Parameter Store"]
        BY <1>4 DEF GetParameter, Move
      <4>2. r \in DOMAIN told /\ r \in DOMAIN doing
        BY <1>1
      <4>3. QED
        BY <2>3, <4>1, <4>2
    <3> DEFINE e == parameterCopy.value
               until == parameterCopy.until
    <3>2. e \in Environments /\ until =< environmentWas[e] + Expiry + LookupLimit
      <4>1. clock < until
        BY <3>1
      <4>2. clock \in Nat /\ until \in Nat
        BY <1>1
      <4> HIDE DEF until
      <4>3. until # 0
        BY <4>1, <4>2
      <4>4. ParameterAges
        BY DEF StaleInv
      <4>5. QED
        BY <4>3, <4>4 DEF ParameterAges, until
    <3>3. environmentWas[e] \in Int
      BY <1>1, <3>2
    <3>4. environmentWas[e] > since[r] - Expiry - LookupLimit
      <4>1. clock < until
        BY <3>1
      <4>2. since[r] =< clock /\ since[r] \in Nat /\ clock \in Nat /\ until \in Nat
        BY <1>1, <1>2
      <4> HIDE DEF e, until
      <4>3. QED
        BY <3>2, <3>3, <4>1, <4>2, FleetBounds
    <3>5. ToldIsFresh(r)'
      BY <2>1, <3>1, <3>2, <3>4 DEF ToldIsFresh
    <3>6. ListedIsFresh(r)'
      BY <3>1 DEF ListedIsFresh
    <3>7. QED
      BY <2>1, <3>5, <3>6, ParameterKeeps
  <2>4. QED
    BY <2>2, <2>3
<1>5. CASE AskParameterStore(r)
  <2>1. UNCHANGED <<parameterCopy, listCopy, environmentWas, since>>
    BY <1>5 DEF AskParameterStore, copies, actual
  <2>2. told'[r] = environment /\ doing'[r] = "set parameter"
    BY <1>1, <1>5 DEF AskParameterStore, Move
  <2>3. QED
    BY <1>1, <1>2, <2>1, <2>2, ParameterKeeps DEF ToldIsFresh, ListedIsFresh
<1>6. CASE SetParameter(r)
  <2>1. UNCHANGED <<listCopy, environmentWas, told, since>> /\ doing[r] = "set parameter"
    BY <1>6 DEF SetParameter, actual
  <2>2. doing'[r] = "get list"
    BY <1>1, <1>6 DEF SetParameter, Move
  <2>3. told[r] \in Environments /\ environmentWas[told[r]] >= since[r] /\ environmentWas[told[r]] \in Int
    BY <1>1, <1>2, <2>1 DEF ToldIsFresh
  <2>4. environmentWas[told[r]] > since[r] - Expiry - LookupLimit
    BY <1>1, <2>3, FleetBounds
  <2>5. ToldIsFresh(r)' /\ ListedIsFresh(r)'
    BY <2>1, <2>2, <2>3, <2>4 DEF ToldIsFresh, ListedIsFresh
  <2>6. CASE UNCHANGED parameterCopy
    BY <2>1, <2>5, <2>6, ParameterKeeps
  <2>7. CASE parameterCopy' = [value |-> told[r], until |-> clock + Expiry]
    <3>1. clock - since[r] =< LookupLimit
      BY <1>2, <2>1
    <3>2. clock + Expiry =< environmentWas[told[r]] + Expiry + LookupLimit
      BY <1>1, <2>3, <3>1, FleetBounds
    <3>3. ParameterAges'
      BY <2>1, <2>3, <2>7, <3>2 DEF ParameterAges
    <3>4. QED
      BY <2>1, <2>5, <3>3
  <2>8. QED
    BY <1>6, <2>6, <2>7 DEF SetParameter
<1>7. QED
  BY <1>3, <1>4, <1>5, <1>6

\* The list a run is given, and the one it stores.
LEMMA GetListSteps ==
    ASSUME StaleInv, [FleetNext]_fvars, NEW r \in Lookups, GetList(r)
    PROVE  ToldIsFresh(r)' /\ ListedIsFresh(r)' /\ UNCHANGED copies
<1>1. /\ doing \in [Lookups -> LookupSteps] /\ DOMAIN listed = Lookups
      /\ doing[r] = "get list" /\ UNCHANGED <<copies, fleetWas, environmentWas, told, since>>
  BY DEF StaleInv, FleetTypes, LookupTypes, GetList, actual
<1>2. \/ /\ clock < listCopy.until
         /\ listed' = [listed EXCEPT ![r] = listCopy.value]
         /\ doing' = [doing EXCEPT ![r] = "measure"]
      \/ doing' = [doing EXCEPT ![r] = "ask EC2"]
  BY DEF GetList, Move
<1>3. ToldIsFresh(r)
  BY DEF StaleInv
<1>4. CASE doing'[r] = "ask EC2"
  BY <1>1, <1>3, <1>4 DEF ToldIsFresh, ListedIsFresh
<1>5. CASE doing'[r] # "ask EC2"
  <2> DEFINE l == listCopy.value
             until == listCopy.until
             was == WasListed(l)
             environmentOf == environmentWas[l.of]
  <2>1. clock < until /\ listed'[r] = l /\ doing'[r] = "measure"
    BY <1>1, <1>2, <1>5
  <2>2. /\ clock \in Nat /\ until \in Nat
        /\ since[r] \in Nat /\ since[r] =< clock
        /\ ListAges
    BY DEF StaleInv, FleetTypes, TruthTypes, CopyTypes, LookupTypes, LookupsAreShort
  <2>3. until # 0
    <3>1. clock < until /\ until \in Nat /\ clock \in Nat
      BY <2>1, <2>2
    <3> HIDE DEF until
    <3>2. QED
      BY <3>1
  <2>4. /\ l \in Lists
        /\ until =< was + Expiry + LookupLimit
        /\ until < environmentOf + 2 * Expiry + 2 * LookupLimit
    BY <2>2, <2>3 DEF ListAges
  <2>5. was \in Int /\ environmentOf \in Int
    BY <2>4 DEF StaleInv, FleetTypes, TruthTypes, Lists, WasListed
  <2>6. /\ was > since[r] - Expiry - LookupLimit
        /\ environmentOf > since[r] - 2 * Expiry - 2 * LookupLimit
    <3> HIDE DEF until, was, environmentOf, l
    <3>1. QED
      BY <2>1, <2>2, <2>4, <2>5, FleetBounds
  <2>7. QED
    BY <1>1, <2>1, <2>4, <2>6 DEF ToldIsFresh, ListedIsFresh, WasListed
<1>6. QED
  BY <1>1, <1>4, <1>5

LEMMA AskEC2Steps ==
    ASSUME StaleInv, [FleetNext]_fvars, NEW r \in Lookups, AskEC2(r)
    PROVE  ToldIsFresh(r)' /\ ListedIsFresh(r)' /\ UNCHANGED copies
<1> DEFINE e == told[r]
           l == [fleet |-> fleet[e], of |-> e]
<1>1. /\ doing[r] = "ask EC2"
      /\ doing' = [doing EXCEPT ![r] = "set list"]
      /\ listed' = [listed EXCEPT ![r] = l]
      /\ UNCHANGED <<copies, fleetWas, environmentWas, since>>
  BY DEF AskEC2, Move, actual
<1>2. doing'[r] = "set list" /\ listed'[r] = l
  BY <1>1 DEF StaleInv, FleetTypes, LookupTypes
<1>3. ToldIsFresh(r)
  BY DEF StaleInv
<1>4. e \in Environments /\ environmentWas[e] > since[r] - Expiry - LookupLimit
  BY <1>1, <1>3 DEF ToldIsFresh
<1>5. l \in Lists
  BY <1>4 DEF StaleInv, FleetTypes, TruthTypes, Lists
<1>6. fleetWas[e][fleet[e]] = clock /\ since[r] =< clock /\ clock \in Nat /\ since[r] \in Nat
  BY <1>4 DEF StaleInv, FleetTypes, TruthTypes, LookupTypes, FleetsAreTrue, LookupsAreShort
<1>7. WasListed(l) >= since[r]
  BY <1>6 DEF WasListed
<1>8. ToldIsFresh(r)'
  BY <1>2 DEF ToldIsFresh
<1>9. ListedIsFresh(r)'
  <2>1. UNCHANGED <<fleetWas, environmentWas>> /\ since'[r] = since[r]
    BY <1>1
  <2>2. l.of = e
    OBVIOUS
  <2> HIDE DEF l
  <2>3. QED
    BY <1>2, <1>4, <1>5, <1>7, <2>1, <2>2 DEF ListedIsFresh, WasListed
<1>10. QED
  BY <1>1, <1>8, <1>9

LEMMA SetListSteps ==
    ASSUME StaleInv, [FleetNext]_fvars, NEW r \in Lookups, SetList(r)
    PROVE  ToldIsFresh(r)' /\ ListedIsFresh(r)' /\ ListAges' /\ UNCHANGED parameterCopy
<1> DEFINE l == listed[r]
           was == WasListed(l)
           environmentOf == environmentWas[l.of]
<1>1. /\ doing[r] = "set list"
      /\ doing' = [doing EXCEPT ![r] = "measure"]
      /\ UNCHANGED <<parameterCopy, fleetWas, environmentWas, told, listed, since>>
  BY DEF SetList, Move, actual
<1>2. doing'[r] = "measure"
  BY <1>1 DEF StaleInv, FleetTypes, LookupTypes
<1>3. /\ l \in Lists
      /\ was >= since[r]
      /\ environmentOf > since[r] - Expiry - LookupLimit
  BY <1>1 DEF StaleInv, ListedIsFresh
<1>4. was \in Int /\ environmentOf \in Int
  BY <1>3 DEF StaleInv, FleetTypes, TruthTypes, Lists, WasListed
<1>5. clock \in Nat /\ since[r] \in Nat /\ clock - since[r] =< LookupLimit
  BY <1>1 DEF StaleInv, FleetTypes, TruthTypes, LookupTypes, LookupsAreShort
<1>6. /\ was > since[r] - Expiry - LookupLimit
      /\ environmentOf > since[r] - 2 * Expiry - 2 * LookupLimit
      /\ clock + Expiry =< was + Expiry + LookupLimit
      /\ clock + Expiry < environmentOf + 2 * Expiry + 2 * LookupLimit
  <2> HIDE DEF l, was, environmentOf
  <2>1. QED
    BY <1>3, <1>4, <1>5, FleetBounds
<1>7. ToldIsFresh(r)' /\ ListedIsFresh(r)'
  BY <1>1, <1>2, <1>3, <1>6 DEF ToldIsFresh, ListedIsFresh, WasListed
<1>8. CASE UNCHANGED listCopy
  BY <1>1, <1>7, <1>8, ListKeeps
<1>9. CASE listCopy' = [value |-> l, until |-> clock + Expiry]
  <2>1. listCopy'.value = l /\ listCopy'.until = clock + Expiry
    BY <1>9
  <2>2. ListAges'
    BY <1>1, <1>3, <1>6, <2>1 DEF ListAges, WasListed
  <2>3. QED
    BY <1>1, <1>7, <2>2
<1>10. QED
  BY <1>8, <1>9 DEF SetList

LEMMA StaleSteps == StaleInv /\ [FleetNext]_fvars => StaleInv'
<1> SUFFICES ASSUME StaleInv, [FleetNext]_fvars PROVE StaleInv'
  OBVIOUS
<1> DEFINE Kept == (\A r \in Lookups : ToldIsFresh(r)' /\ ListedIsFresh(r)') /\ ParameterAges' /\ ListAges'
<1>1. ASSUME UNCHANGED runVars, UNCHANGED parameterCopy, UNCHANGED listCopy \/ listCopy' = Gone
      PROVE  Kept
  <2>1. \A r \in Lookups : ToldIsFresh(r)' /\ ListedIsFresh(r)'
    BY <1>1, KnowledgeKeeps DEF runVars
  <2>2. ListAges'
    BY <1>1, ListKeeps DEF ListAges, Gone
  <2>3. QED
    BY <1>1, <2>1, <2>2, ParameterKeeps
<1>2. ASSUME NEW r \in Lookups, LookupStep(r)
      PROVE  Kept
  <2>1. ToldIsFresh(r)' /\ ListedIsFresh(r)' /\ ParameterAges' /\ ListAges'
    <3>1. CASE BeginLookup(r) \/ GetParameter(r) \/ AskParameterStore(r) \/ SetParameter(r)
      BY <3>1, ToldSteps, ListKeeps
    <3>2. CASE GetList(r)
      BY <3>2, GetListSteps, ParameterKeeps, ListKeeps DEF copies
    <3>3. CASE AskEC2(r)
      BY <3>3, AskEC2Steps, ParameterKeeps, ListKeeps DEF copies
    <3>4. CASE SetList(r)
      BY <3>4, SetListSteps, ParameterKeeps
    <3>5. CASE EndLookup(r)
      <4>1. doing'[r] = "off" /\ UNCHANGED copies
        BY <3>5 DEF EndLookup, Move, StaleInv, FleetTypes, LookupTypes
      <4>2. QED
        BY <4>1, ParameterKeeps, ListKeeps DEF ToldIsFresh, ListedIsFresh, copies
    <3>6. QED
      BY <1>2, <3>1, <3>2, <3>3, <3>4, <3>5 DEF LookupStep
  <2>2. QED
    BY <1>2, <2>1, OthersKeepKnowledge
<1> HIDE DEF Kept
<1>3. CASE \/ ClockTicks \/ Launch \/ Drop \/ UNCHANGED fvars
           \/ \E e \in Environments : ChangeEnvironment(e) \/ \E f \in SUBSET Instances : ChangeFleet(e, f)
  <2>1. Kept
    BY <1>1, <1>3 DEF ClockTicks, Launch, Drop, ChangeEnvironment, ChangeFleet, fvars, copies
  <2>2. QED
    BY <2>1, TruthsGrow, LookupsStayShort DEF Kept, StaleInv, FleetTypes
<1>4. CASE \E r \in Lookups : LookupStep(r)
  <2>1. Kept
    BY <1>2, <1>4
  <2>2. QED
    BY <2>1, TruthsGrow, LookupsStayShort DEF Kept, StaleInv, FleetTypes
<1>5. QED
  BY <1>3, <1>4 DEF FleetNext

LEMMA StaleInvSuffices == StaleInv => StalenessAddsUp
<1> SUFFICES ASSUME StaleInv, NEW r \in Lookups, doing[r] = "measure"
             PROVE  /\ clock - WasListed(listed[r]) < Expiry + 2 * LookupLimit
                    /\ clock - environmentWas[listed[r].of] < 2 * Expiry + 3 * LookupLimit
  BY DEF StalenessAddsUp, WasListed
<1> DEFINE l == listed[r]
           was == WasListed(l)
           environmentOf == environmentWas[l.of]
<1>1. /\ l \in Lists
      /\ was > since[r] - Expiry - LookupLimit
      /\ environmentOf > since[r] - 2 * Expiry - 2 * LookupLimit
  BY DEF StaleInv, ListedIsFresh
<1>2. was \in Int /\ environmentOf \in Int
  BY <1>1 DEF StaleInv, FleetTypes, TruthTypes, Lists, WasListed
<1>3. clock \in Nat /\ since[r] \in Nat /\ clock - since[r] =< LookupLimit
  BY DEF StaleInv, FleetTypes, TruthTypes, LookupTypes, LookupsAreShort
<1>4. clock - was < Expiry + 2 * LookupLimit /\ clock - environmentOf < 2 * Expiry + 3 * LookupLimit
  <2> HIDE DEF l, was, environmentOf
  <2>1. QED
    BY <1>1, <1>2, <1>3, FleetBounds
<1>5. QED
  BY <1>4

\* The instances a run asks about ran less than an expiry and two run lifetimes
\* ago, in an environment configured less than two expiries and three run
\* lifetimes ago (checks/aws.py:130-140 over parameter_store.py:25-56), for
\* every number of runs, expiry and time limit.
THEOREM StalenessIsBounded == FleetSpec => []StalenessAddsUp
BY FleetStarts, StaleSteps, StaleInvSuffices, PTL DEF FleetSpec
-----------------------------------------------------------------------------
(* The reseed.                                                             *)

HoldsTheSeed(l) == l.of = Local => Fresh \in l.fleet

\* Between the drop and the end of time every list found where the seeded
\* instance runs, kept or on its way to be kept, has it.
SeedInv ==
    (seed = "done" /\ ~raced /\ Fresh \in fleet[Local]) =>
        /\ listCopy.until # 0 => HoldsTheSeed(listCopy.value)
        /\ \A r \in Lookups : doing[r] = "set list" => HoldsTheSeed(listed[r])

LEMMA SeedSteps == StaleInv /\ SeedInv /\ [FleetNext]_fvars => SeedInv'
<1> SUFFICES ASSUME StaleInv, SeedInv, [FleetNext]_fvars PROVE SeedInv'
  OBVIOUS
<1>1. /\ fleet \in [Environments -> SUBSET Instances] /\ Local \in Environments
      /\ doing \in [Lookups -> LookupSteps] /\ DOMAIN listed = Lookups
  BY FleetAssumption DEF StaleInv, FleetTypes, TruthTypes, LookupTypes
<1>2. CASE UNCHANGED <<seed, raced, listCopy, doing, listed>> /\ (Fresh \in fleet'[Local] => Fresh \in fleet[Local])
  BY <1>2 DEF SeedInv, HoldsTheSeed
<1>3. ASSUME NEW e \in Environments, NEW f \in SUBSET Instances, ChangeFleet(e, f)
      PROVE  SeedInv'
  <2>1. Fresh \in fleet'[Local] <=> Fresh \in fleet[Local]
    BY <1>1, <1>3 DEF ChangeFleet, Scale
  <2>2. QED
    BY <1>2, <1>3, <2>1 DEF ChangeFleet, copies, runVars
<1>4. ASSUME NEW r \in Lookups, LookupStep(r)
      PROVE  SeedInv'
  <2>1. UNCHANGED <<seed, raced, fleet>>
    BY <1>4 DEF LookupStep, BeginLookup, GetParameter, AskParameterStore, SetParameter,
                GetList, AskEC2, SetList, EndLookup, actual
  <2>2. \A q \in Lookups : q # r => doing'[q] = doing[q] /\ listed'[q] = listed[q]
    BY <1>1, <1>4 DEF LookupStep, BeginLookup, GetParameter, AskParameterStore, SetParameter,
                      GetList, AskEC2, SetList, EndLookup, Move
  <2>3. CASE AskEC2(r)
    <3>1. listed'[r] = [fleet |-> fleet[told[r]], of |-> told[r]] /\ UNCHANGED listCopy
      BY <1>1, <2>3 DEF AskEC2, copies
    <3>2. Fresh \in fleet[Local] => HoldsTheSeed(listed[r])'
      BY <2>1, <3>1 DEF HoldsTheSeed
    <3>3. QED
      BY <2>1, <2>2, <3>1, <3>2 DEF SeedInv, HoldsTheSeed
  <2>4. CASE SetList(r)
    <3>1. doing[r] = "set list" /\ doing' = [doing EXCEPT ![r] = "measure"]
      BY <2>4 DEF SetList, Move
    <3>2. doing'[r] = "measure"
      BY <1>1, <3>1
    <3>3. CASE listCopy' = listCopy
      BY <2>1, <2>2, <3>1, <3>2, <3>3 DEF SeedInv, HoldsTheSeed
    <3>4. CASE listCopy' = [value |-> listed[r], until |-> clock + Expiry]
      <4>1. listCopy'.value = listed[r]
        BY <3>4
      <4>2. QED
        BY <2>1, <2>2, <3>1, <3>2, <4>1 DEF SeedInv, HoldsTheSeed
    <3>5. QED
      BY <2>4, <3>3, <3>4 DEF SetList
  <2>5. CASE \/ BeginLookup(r) \/ GetParameter(r) \/ AskParameterStore(r) \/ SetParameter(r)
             \/ GetList(r) \/ EndLookup(r)
    <3>1. doing'[r] # "set list" /\ UNCHANGED listCopy
      BY <1>1, <2>5 DEF BeginLookup, GetParameter, AskParameterStore, SetParameter,
                        GetList, EndLookup, Move, copies
    <3>2. QED
      BY <2>1, <2>2, <3>1 DEF SeedInv, HoldsTheSeed
  <2>6. QED
    BY <1>4, <2>3, <2>4, <2>5 DEF LookupStep
<1>5. CASE Launch
  BY <1>5 DEF Launch, SeedInv
<1>6. CASE Drop
  <2>1. /\ doing' = doing
        /\ \/ seed' = "refused"
           \/ listCopy' = Gone /\ raced' = (\E r \in Lookups : doing[r] = "set list")
    BY <1>6 DEF Drop, runVars
  <2>2. CASE seed' = "refused"
    BY <2>2 DEF SeedInv, HoldsTheSeed
  <2>3. CASE /\ listCopy' = Gone
             /\ raced' = (\E r \in Lookups : doing[r] = "set list")
    <3>1. ~raced' => \A r \in Lookups : doing'[r] # "set list"
      BY <2>1, <2>3
    <3>2. QED
      BY <2>3, <3>1 DEF SeedInv, HoldsTheSeed, Gone
  <2>4. QED
    BY <2>1, <2>2, <2>3
<1>7. CASE ClockTicks \/ (\E e \in Environments : ChangeEnvironment(e)) \/ UNCHANGED fvars
  BY <1>2, <1>7 DEF ClockTicks, ChangeEnvironment, fvars, actual, copies, runVars
<1>8. QED
  BY <1>3, <1>4, <1>5, <1>6, <1>7 DEF FleetNext

\* "a reseed that launched a fresh instance must not serve last hour's ids"
\* (local_env.py:243-244): with no run between EC2's answer and Redis at the
\* drop, no later run is given a list of the seeded environment without the
\* instance, whatever the runs and the copies were before.
THEOREM ReseedsAreSeen == FleetSpec => []ReseedIsSeen
<1>1. FleetInit => SeedInv
  BY DEF FleetInit, SeedInv
<1>2. StaleInv /\ SeedInv => ReseedIsSeen
  <2> SUFFICES ASSUME StaleInv, SeedInv, seed = "done", ~raced, clock < listCopy.until,
                      listCopy.value.of = Local, Fresh \in fleet[Local]
               PROVE  fleet[Local] \cap listCopy.value.fleet # {}
    BY DEF ReseedIsSeen
  <2> DEFINE until == listCopy.until
  <2>1. clock \in Nat /\ until \in Nat /\ clock < until
    BY DEF StaleInv, FleetTypes, TruthTypes, CopyTypes
  <2>2. until # 0
    <3> HIDE DEF until
    <3>1. QED
      BY <2>1
  <2>3. Fresh \in listCopy.value.fleet
    BY <2>2 DEF SeedInv, HoldsTheSeed
  <2>4. QED
    BY <2>3
<1>3. QED
  BY <1>1, <1>2, FleetStarts, StaleSteps, SeedSteps, PTL DEF FleetSpec
=============================================================================
