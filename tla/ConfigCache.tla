----------------------------- MODULE ConfigCache -----------------------------
(***************************************************************************)
(* Configuration read through Redis (src/healthbot/config_files.py over    *)
(* src/healthbot/cache.py).  A run asks for site.yml several times: each   *)
(* time it resolves the file, looks in Redis under a key made of the path, *)
(* and on a miss reads the file and stores a copy with an expiry.  Redis   *)
(* may refuse any call, the operator may edit a file between any two       *)
(* steps, and another run may be half way through the same read.           *)
(***************************************************************************)
EXTENDS Integers

CONSTANTS
    Packaged,       \* the packaged site.yml
    Overrides,      \* the site.yml of each HB_CONFIG_DIR in use
    Contents,       \* what a site.yml may hold
    Usable,         \* the contents check_site_config accepts
    Absent,         \* an override directory without a site.yml
    Runs,
    Home,           \* the override each run is given, or Packaged for none
    Key,            \* prepare_key: the Redis key of each path
    NoCopy,
    TTL,            \* how long Redis keeps a copy
    RunLimit,       \* TimeoutStartSec: no run lives longer
    MaxTime,        \* bound on the clock
    MaxEdits        \* bound on the operator's edits

Paths == {Packaged} \cup Overrides

ASSUME ConfigAssumption ==
    /\ Packaged \notin Overrides
    /\ Usable \subseteq Contents
    /\ Absent \notin Contents
    /\ Home \in [Runs -> Paths]
    /\ NoCopy \notin Contents
    /\ {TTL, RunLimit, MaxTime, MaxEdits} \subseteq Nat
    /\ RunLimit > 0

VARIABLES
    now,            \* the clock
    edits,          \* how often the operator has edited a file
    file,           \* what each path holds
    copy,           \* what Redis holds under each key: the content and its source
    expires,        \* when Redis drops it
    step,           \* what each run is doing in get_config
    use,            \* what each run is reading the configuration for
    asked,          \* the path each run resolved
    got,            \* what each run was given for each use
    began,          \* when each run started
    lastTrue        \* history variable: when each path last held each content

cvars == <<now, edits, file, copy, expires, step, use, asked, got, began, lastTrue>>

\* check_site_config, alert_thresholds and get_base_url, in the order of main.  They
\* stand for all reads of the file: that of the canaries is one more like them, and
\* the limits are kept for the rest of the run once read.
Uses == {"check", "limits", "url"}
NextUse == [check |-> "limits", limits |-> "url", url |-> "url"]

Keys == {Key[p] : p \in Paths}

-----------------------------------------------------------------------------
NotYet == -(TTL + RunLimit + 1)

ConfigInit ==
    /\ now = 0
    /\ edits = 0
    /\ file \in [Paths -> Usable \cup {Absent}]
    /\ file[Packaged] # Absent
    /\ copy = [k \in Keys |-> NoCopy]
    /\ expires = [k \in Keys |-> 0]
    /\ step = [r \in Runs |-> "off"]
    /\ use = [r \in Runs |-> "check"]
    /\ asked = [r \in Runs |-> Packaged]
    /\ got = [r \in Runs |-> [u \in Uses |-> NoCopy]]
    /\ began = [r \in Runs |-> 0]
    /\ lastTrue = [p \in Paths |-> [c \in Contents |-> IF c = file[p] THEN 0 ELSE NotYet]]

\* systemd kills a run that has used up its time.
Tick ==
    /\ now < MaxTime
    /\ \A r \in Runs : step[r] # "off" => now - began[r] < RunLimit
    /\ now' = now + 1
    /\ lastTrue' = [p \in Paths |->
                       [c \in Contents |-> IF c = file[p] THEN now + 1 ELSE lastTrue[p][c]]]
    /\ UNCHANGED <<edits, file, copy, expires, step, use, asked, got, began>>

\* The operator writes a file, or takes an override away.
Edit(p, c) ==
    /\ edits < MaxEdits
    /\ edits' = edits + 1
    /\ c # file[p]
    /\ p = Packaged => c # Absent
    /\ file' = [file EXCEPT ![p] = c]
    /\ lastTrue' = IF c = Absent THEN lastTrue ELSE [lastTrue EXCEPT ![p][c] = now]
    /\ UNCHANGED <<now, copy, expires, step, use, asked, got, began>>

Start(r) ==
    /\ step[r] = "off"
    /\ step' = [step EXCEPT ![r] = "resolve"]
    /\ use' = [use EXCEPT ![r] = "check"]
    /\ got' = [got EXCEPT ![r] = [u \in Uses |-> NoCopy]]
    /\ began' = [began EXCEPT ![r] = now]
    /\ UNCHANGED <<now, edits, file, copy, expires, asked, lastTrue>>

\* resolve_config_file: the override wins when it holds the file.
Resolve(r) ==
    /\ step[r] = "resolve"
    /\ step' = [step EXCEPT ![r] = "get"]
    /\ asked' = [asked EXCEPT ![r] = IF file[Home[r]] = Absent THEN Packaged ELSE Home[r]]
    /\ UNCHANGED <<now, edits, file, copy, expires, use, got, began, lastTrue>>

\* get_config returns to main: a site.yml that can't drive a run ends it, and
\* with the address the checks begin.
Give(r, c) ==
    /\ got' = [got EXCEPT ![r][use[r]] = c]
    /\ step' = [step EXCEPT ![r] =
            IF use[r] = "check" /\ c.content \notin Usable THEN "off"
            ELSE IF use[r] = "url" THEN "checks" ELSE "resolve"]
    /\ use' = [use EXCEPT ![r] = NextUse[@]]

\* Mutant of KeyOf: the bare filename.
KeyOfName(r) == Key[Packaged]

KeyOf(r) == Key[asked[r]]

\* Mutant of Get: a copy that is used is kept longer.
GetRenewing(r) ==
    /\ step[r] = "get"
    /\ \/ /\ now < expires[KeyOf(r)]
          /\ Give(r, copy[KeyOf(r)])
          /\ expires' = [expires EXCEPT ![KeyOf(r)] = now + TTL]
       \/ step' = [step EXCEPT ![r] = "open"] /\ UNCHANGED <<use, got, expires>>
    /\ UNCHANGED <<now, edits, file, copy, asked, began, lastTrue>>

\* Cache.get: a copy that is still there, or a miss.
Get(r) ==
    /\ step[r] = "get"
    /\ \/ now < expires[KeyOf(r)] /\ Give(r, copy[KeyOf(r)])
       \/ step' = [step EXCEPT ![r] = "open"] /\ UNCHANGED <<use, got>>
    /\ UNCHANGED <<now, edits, file, copy, expires, asked, began, lastTrue>>

\* The file is read; one that went away since it was resolved ends the run.
Open(r) ==
    /\ step[r] = "open"
    /\ IF file[asked[r]] = Absent
       THEN step' = [step EXCEPT ![r] = "off"] /\ UNCHANGED got
       ELSE /\ step' = [step EXCEPT ![r] = "set"]
            /\ got' = [got EXCEPT ![r][use[r]] = [content |-> file[asked[r]], from |-> asked[r]]]
    /\ UNCHANGED <<now, edits, file, copy, expires, use, asked, began, lastTrue>>

\* Cache.set, unless Redis refuses.
Set(r) ==
    /\ step[r] = "set"
    /\ \/ /\ copy' = [copy EXCEPT ![KeyOf(r)] = got[r][use[r]]]
          /\ expires' = [expires EXCEPT ![KeyOf(r)] = now + TTL]
       \/ UNCHANGED <<copy, expires>>
    /\ Give(r, got[r][use[r]])
    /\ UNCHANGED <<now, edits, file, asked, began, lastTrue>>

\* The run ends, by itself, by an error elsewhere or by a kill.
End(r) ==
    /\ step[r] # "off"
    /\ step' = [step EXCEPT ![r] = "off"]
    /\ use' = [use EXCEPT ![r] = "check"]
    /\ asked' = [asked EXCEPT ![r] = Packaged]
    /\ got' = [got EXCEPT ![r] = [u \in Uses |-> NoCopy]]
    /\ began' = [began EXCEPT ![r] = 0]
    /\ UNCHANGED <<now, edits, file, copy, expires, lastTrue>>

GetConfig(r) == Resolve(r) \/ Get(r) \/ Open(r) \/ Set(r)

ConfigNext ==
    \/ Tick
    \/ \E p \in Paths, c \in Contents \cup {Absent} : Edit(p, c)
    \/ \E r \in Runs : Start(r) \/ GetConfig(r) \/ End(r)

ConfigSpec == ConfigInit /\ [][ConfigNext]_cvars

-----------------------------------------------------------------------------
(* Properties.                                                             *)

\* What a run is given was in its file less than one expiry and two run
\* lifetimes ago, however reads overlap and whatever Redis refuses: a copy is
\* only ever made from the file, so no copy outlives its expiry by being
\* handed on (cache.py:2-5, config_files.py:38-45).
FreshEnough ==
    \A r \in Runs : \A u \in Uses :
        step[r] # "off" /\ got[r][u] # NoCopy
            => now - lastTrue[got[r][u].from][got[r][u].content] < TTL + 2 * RunLimit

\* "Otherwise a run with HB_CONFIG_DIR set could be served the previous run's
\* cached copy of the other directory's file and the override would half-apply"
\* (config_files.py:34-36): a run only sees files of its own.
OverrideIsWhole ==
    \A r \in Runs : \A u \in Uses :
        got[r][u] # NoCopy => got[r][u].from \in {Home[r], Packaged}
=============================================================================
