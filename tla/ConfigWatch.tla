----------------------------- MODULE ConfigWatch -----------------------------
(***************************************************************************)
(* The two files the backend reads again while it runs: the settings        *)
(* (settings.py) and the API keys (api_keys.py).                            *)
(*                                                                         *)
(* Each file has a loop that sleeps, reads the file and compares it with the *)
(* content it read last.  The loops run on one event loop, but whoever       *)
(* writes the files is another process: it may write between any two reads.  *)
(***************************************************************************)
EXTENDS Naturals

CONSTANTS
  SettingsFiles,  \* contents the settings file may have
  KeyFiles,       \* contents the API keys file may have
  MaxTtl,         \* MAX_SESSION_TTL, also the default of session_ttl
  MaxWrites       \* bound: how often the files are written

\* A content is its kind and what it says.  "broken" cannot be parsed, "binary" is
\* not even text.  A setting the file does not mention is "none" or 0.
SettingsContent == [kind : {"toml", "broken", "absent"},
                    uri : {"none", "blank", "set"}, ttl : Nat]
KeyKinds == {"toml", "broken", "binary", "absent"}

\* An empty file, and the initial last_content of the keys' loop.
Empty == [kind |-> "toml", keys |-> {}]

ASSUME ConfigAssumption ==
  /\ SettingsFiles \subseteq SettingsContent
  /\ \A c \in KeyFiles : c.kind \in KeyKinds /\ (c.kind # "toml" => c.keys = {})
  /\ Empty \in KeyFiles
  /\ MaxTtl \in Nat \ {0} /\ MaxWrites \in Nat

VARIABLES
  sfile, kfile,   \* the files
  up,             \* whether the process runs
  settings,       \* the settings in effect
  last,           \* Settings.__last_content
  sloop,          \* Settings.listen: "sleeping", "dead" when an exception ended it
  keys,           \* ApiKeys.keys
  klast,          \* last_content of ApiKeys.listen
  kread,          \* the content it has read and is about to load
  kloop,          \* where ApiKeys.listen is
  raced,          \* whether the keys file was written between two reads that should agree
  writes          \* number of writes so far

vars == <<sfile, kfile, up, settings, last, sloop, keys, klast, kread, kloop,
          raced, writes>>

\* A running process always has a value: settings the file leaves out keep theirs.
Values == [uri : {"blank", "set"}, ttl : Nat \ {0}]

ConfigTypeOK ==
  /\ sfile \in SettingsFiles /\ kfile \in KeyFiles
  /\ up \in BOOLEAN
  /\ settings \in Values
  /\ last \in SettingsFiles
  /\ sloop \in {"sleeping", "dead"}
  /\ keys \subseteq UNION {c.keys : c \in KeyFiles}
  /\ klast \in KeyFiles /\ kread \in KeyFiles
  /\ kloop \in {"starting", "sleeping", "loading", "dead"}
  /\ raced \in BOOLEAN
  /\ writes \in 0 .. MaxWrites

-----------------------------------------------------------------------------
(* Helpers *)

Default == [uri |-> "none", ttl |-> MaxTtl]

AppliedOnceBug(v, c) ==   \* what the file says only fills gaps
  [uri |-> IF v.uri = "none" THEN c.uri ELSE v.uri,
   ttl |-> IF v.uri = "none" /\ c.ttl # 0 THEN c.ttl ELSE v.ttl]

AppliedBug(v, c) == [uri |-> c.uri, ttl |-> c.ttl]   \* what it leaves out is reset

\* The settings v after those of content c have been assigned.
Applied(v, c) == [uri |-> IF c.uri = "none" THEN v.uri ELSE c.uri,
                  ttl |-> IF c.ttl = 0 THEN v.ttl ELSE c.ttl]

\* validate raises unless this holds (authentication is not disabled, MCP is off).
Valid(v) == v.uri = "set"

CappedBug(v) == v   \* the limit is not looked at

\* validate cuts session_ttl, if it gets that far.
Capped(v) == IF v.ttl > MaxTtl THEN [v EXCEPT !.ttl = MaxTtl] ELSE v

\* _load_keys: no keys when the file does not exist or cannot be parsed.
KeysIn(c) == c.keys

\* The process can start on these files.
Bootable(s, k) == s.kind = "toml" /\ Valid(Applied(Default, s)) /\ k.kind # "binary"

Booted(s, k) ==
  /\ settings' = Capped(Applied(Default, s)) /\ last' = s /\ sloop' = "sleeping"
  /\ keys' = KeysIn(k) /\ klast' = Empty /\ kread' = Empty
  /\ kloop' = "starting" /\ raced' = FALSE

Init ==
  /\ sfile \in SettingsFiles /\ kfile \in KeyFiles
  /\ Bootable(sfile, kfile)
  /\ up = TRUE
  /\ settings = Capped(Applied(Default, sfile)) /\ last = sfile
  /\ sloop = "sleeping"
  /\ keys = KeysIn(kfile) /\ klast = Empty /\ kread = Empty
  /\ kloop = "starting" /\ raced = FALSE
  /\ writes = 0

-----------------------------------------------------------------------------
(* Settings.listen *)

\* One round of the loop.  An exception ends the task, which nobody looks at: the
\* file is missing or cannot be parsed, or validate raises when the new values
\* have been assigned already.
SettingsPoll ==
  /\ up /\ sloop = "sleeping" /\ sfile # last
  /\ IF sfile.kind # "toml"
     THEN sloop' = "dead" /\ UNCHANGED <<settings, last>>
     ELSE LET v == Applied(settings, sfile) IN
          /\ last' = sfile
          /\ IF Valid(v)
             THEN settings' = Capped(v) /\ UNCHANGED sloop
             ELSE settings' = v /\ sloop' = "dead"
  /\ UNCHANGED <<sfile, kfile, up, keys, klast, kread, kloop,
                 raced, writes>>

-----------------------------------------------------------------------------
(* ApiKeys.listen *)

\* The task starts: what the file holds now counts as loaded.
KeysListen ==
  /\ up /\ kloop = "starting"
  /\ klast' = IF kfile.kind = "absent" THEN Empty ELSE kfile
  /\ kloop' = IF kfile.kind = "binary" THEN "dead" ELSE "sleeping"
  /\ UNCHANGED <<sfile, kfile, up, settings, last, sloop, keys, kread,
                 raced, writes>>

KeysGoneBug ==   \* last_content is kept
  /\ up /\ kloop = "sleeping" /\ kfile.kind = "absent" /\ klast # Empty
  /\ keys' = {}
  /\ UNCHANGED <<sfile, kfile, up, settings, last, sloop, klast, kread, kloop,
                 raced, writes>>

\* One round finds no file; it notices only if it had content before.
KeysGone ==
  /\ up /\ kloop = "sleeping" /\ kfile.kind = "absent" /\ klast # Empty
  /\ keys' = {} /\ klast' = Empty
  /\ UNCHANGED <<sfile, kfile, up, settings, last, sloop, kread, kloop,
                 raced, writes>>

\* One round reads another content than the last.
KeysPoll ==
  /\ up /\ kloop = "sleeping" /\ kfile.kind # "absent" /\ kfile # klast
  /\ IF kfile.kind = "binary"
     THEN kloop' = "dead" /\ UNCHANGED kread
     ELSE kloop' = "loading" /\ kread' = kfile
  /\ UNCHANGED <<sfile, kfile, up, settings, last, sloop, keys, klast,
                 raced, writes>>

\* _load_keys reads the file a second time; last_content is what was read first.
KeysLoad ==
  /\ up /\ kloop = "loading"
  /\ IF kfile.kind = "binary"
     THEN kloop' = "dead" /\ UNCHANGED <<keys, klast>>
     ELSE kloop' = "sleeping" /\ keys' = KeysIn(kfile) /\ klast' = kread
  /\ UNCHANGED <<sfile, kfile, up, settings, last, sloop, kread, raced, writes>>

-----------------------------------------------------------------------------
(* The environment *)

Write ==
  /\ writes < MaxWrites /\ writes' = writes + 1
  /\ \/ sfile' \in SettingsFiles /\ UNCHANGED <<kfile, raced>>
     \/ /\ kfile' \in KeyFiles /\ UNCHANGED sfile
        /\ raced' = (raced \/ (up /\ kloop \in {"starting", "loading"}))
  /\ UNCHANGED <<up, settings, last, sloop, keys, klast, kread, kloop>>

Stop ==
  /\ up /\ up' = FALSE
  /\ UNCHANGED <<sfile, kfile, settings, last, sloop, keys, klast, kread, kloop,
                 raced, writes>>

\* The modules are imported: both files are read.
Boot ==
  /\ ~up /\ Bootable(sfile, kfile)
  /\ up' = TRUE /\ Booted(sfile, kfile)
  /\ UNCHANGED <<sfile, kfile, writes>>

-----------------------------------------------------------------------------
KeysRound == KeysListen \/ KeysGone \/ KeysPoll \/ KeysLoad

Next == SettingsPoll \/ KeysRound \/ Write \/ Stop \/ Boot

Spec == Init /\ [][Next]_vars

\* The loops go round as long as they live.  Nobody has to write or to restart.
Fairness == WF_vars(SettingsPoll) /\ WF_vars(KeysRound)

FairSpec == Spec /\ Fairness

-----------------------------------------------------------------------------
(* Properties *)

\* As long as the loop lives, no content makes sessions last longer than NVCF allows
\* (settings.py:34).  It can be exceeded once the loop is dead: validate raises before
\* it looks at session_ttl.
TtlWithinMaximum == up /\ sloop # "dead" => settings.ttl <= MaxTtl

\* When the files are written no more, what the settings file says is in effect,
\* unless the loop died: the comparison with __last_content misses no change, whatever
\* is written between two rounds or between two processes.
SettingsFollowFile ==
  <>[](up /\ sloop # "dead" =>
         /\ sfile.kind = "toml"
         /\ sfile.uri # "none" => settings.uri = sfile.uri
         /\ sfile.ttl \in 1 .. MaxTtl => settings.ttl = sfile.ttl)

\* Between two rounds the keys are those of the content the loop compares the file
\* with: otherwise a change could go unnoticed for ever.  It needs a writer that
\* does not write between the two reads of a round, or between the import and the
\* start of the loop.
KeysMatchLast == up /\ kloop = "sleeping" /\ ~raced => keys = KeysIn(klast)

\* When the keys file is written no more, its keys are in effect, under the same
\* condition and unless the loop died: a key that was removed is refused.
KeysFollowFile ==
  <>[](up /\ kloop # "dead" /\ ~raced => keys = KeysIn(kfile))

=============================================================================
