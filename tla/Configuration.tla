----------------------------- MODULE Configuration -----------------------------
(***************************************************************************)
(* The configuration file (model/config.go): Read of an agent that starts  *)
(* or of `nezha-agent edit` (cmd/agent/commands/edit.go), and Save, which  *)
(* both and handleApplyConfigTask (cmd/agent/main.go) call.  What matters  *)
(* of a configuration is the UUID, by which the dashboard knows the agent, *)
(* and whether the settings an agent needs (server, secret) are there.     *)
(*                                                                         *)
(* Save truncates the file and then writes it; a process may be killed in  *)
(* between, and another one may read.                                      *)
(***************************************************************************)
EXTENDS Naturals

CONSTANT MaxFresh  \* how many random UUIDs are generated

ASSUME FreshAssumption == MaxFresh \in Nat

VARIABLES
  env,     \* whether the settings come from the environment
  idx,     \* whether they ask for a UUID that is derived from the name
  named,   \* whether there is a name then
  file,    \* the text of the file but for the UUID, and the UUID
  mem,     \* the agent and the editor: place, settings, UUID
  made,    \* how many random UUIDs were generated
  used,    \* the UUID in auth, with which the agent was started last
  cut,     \* whether the file is without the UUID its last writer has: a Save is at
           \* work, failed or was cut off, or there was no UUID to save
  excused  \* those UUIDs in memory and in the file that may come next: chosen by the user
           \* or the dashboard, read of a file that is cut, or held by the editor when
           \* the agent got another one

envVars == <<env, idx, named>>
configVars == <<envVars, file, mem, made, used, cut, excused>>

Users == {"agent", "edit"}
NoId == 0
Name == MaxFresh + 1
Identities == 0..Name

ConfigTypeOK ==
  /\ {env, idx, named, cut} \subseteq BOOLEAN
  /\ file \in [text : {"absent", "bare", "settings", "garbled"}, uuid : Identities]
  /\ mem \in [Users -> [at : {"none", "save", "write", "run", "ask", "amend", "rewrite"},
                        set : BOOLEAN, uuid : Identities]]
  /\ made \in 0..MaxFresh
  /\ used \in Identities
  /\ excused \subseteq Identities

NoMemory == [at |-> "none", set |-> FALSE, uuid |-> NoId]

ConfigInit ==
  /\ env \in BOOLEAN
  /\ idx \in BOOLEAN
  /\ named \in IF idx THEN BOOLEAN ELSE {FALSE}
  /\ file \in [text : {"absent", "settings"}, uuid : {NoId}]
  /\ mem = [u \in Users |-> NoMemory]
  /\ made = 0
  /\ used = NoId
  /\ cut = FALSE
  /\ excused = {}

-----------------------------------------------------------------------------
(* Read and ValidateConfig. *)

Saving(u) == mem[u].at \in {"save", "write", "amend", "rewrite"}

\* The file is not there, or what was read differs, or GCPWorkstation was found.
MustSave(uuid, derived) == file.text = "absent" \/ uuid # file.uuid \/ derived

\* An agent does not run without its settings; the editor does not care.
Validated(u, set) == IF u = "edit" THEN "ask" ELSE IF set THEN "run" ELSE "none"

\* run puts the UUID into auth, once.
Starts(u, place, uuid) == used' = IF u = "agent" /\ place = "run" THEN uuid ELSE used

Held == {file.uuid} \cup {mem[u].uuid : u \in Users}

\* When the agent gets another UUID all that is forgotten but what the editor holds.
Excuse(uuids) ==
  excused' = (Held' \ {NoId, used'}) \cap
             IF used' = used THEN excused \cup uuids ELSE {mem'["edit"].uuid}

\* Mutant: a random UUID is not saved.
ReadAsUnsaved(u, uuid, derived) ==
  LET set == env \/ file.text = "settings" IN
  /\ \E place \in {Validated(u, set)} \cup
                  IF file.text = "absent" \/ derived THEN {"save"} ELSE {} :
       /\ mem' = [mem EXCEPT ![u] = [at |-> place, set |-> set, uuid |-> uuid]]
       /\ Starts(u, place, uuid)
  /\ Excuse(IF cut THEN {uuid} ELSE {})
  /\ UNCHANGED cut

\* Read with this UUID in the end; the deferred Save comes after validation.
ReadAs(u, uuid, derived) ==
  LET set == env \/ file.text = "settings" IN
  /\ \E place \in IF MustSave(uuid, FALSE) THEN {"save"}
                  ELSE {Validated(u, set)} \cup IF derived THEN {"save"} ELSE {} :
       /\ mem' = [mem EXCEPT ![u] = [at |-> place, set |-> set, uuid |-> uuid]]
       /\ Starts(u, place, uuid)
  /\ Excuse(IF cut THEN {uuid} ELSE {})
  /\ UNCHANGED cut

Derived == idx /\ (env \/ file.text = "settings")

Readable(u) == mem[u].at = "none" /\ file.text # "garbled"

ReadKeeps(u) ==
  /\ Readable(u)
  /\ file.uuid # NoId
  /\ ~(Derived /\ named)
  /\ UNCHANGED <<envVars, file, made>>
  /\ ReadAs(u, file.uuid, Derived)

ReadDerives(u) ==
  /\ Readable(u)
  /\ Derived /\ named
  /\ UNCHANGED <<envVars, file, made>>
  /\ ReadAs(u, Name, TRUE)

ReadGenerates(u) ==
  /\ Readable(u)
  /\ file.uuid = NoId
  /\ ~(Derived /\ named)
  /\ made < MaxFresh
  /\ made' = made + 1
  /\ UNCHANGED <<envVars, file>>
  /\ ReadAs(u, made', Derived)

\* The editor ignores the error and goes on with nothing.
ReadFails ==
  /\ mem["edit"].at = "none"
  /\ file.text = "garbled"
  /\ mem' = [mem EXCEPT !["edit"] = [NoMemory EXCEPT !.at = "ask"]]
  /\ UNCHANGED <<envVars, file, made, used, cut>>
  /\ Excuse({})

-----------------------------------------------------------------------------
(* Save. *)

\* Truncated.
SaveOpens(u) ==
  /\ \/ mem[u].at = "save" /\ mem' = [mem EXCEPT ![u].at = "write"]
     \/ mem[u].at = "amend" /\ mem' = [mem EXCEPT ![u].at = "rewrite"]
  /\ file' = [text |-> "bare", uuid |-> NoId]
  /\ cut' = TRUE
  /\ UNCHANGED <<envVars, made, used>>
  /\ Excuse({})

\* Back to where Save was called: Read, or who changed the configuration.
Return(u) ==
  LET reading == mem[u].at \in {"save", "write"}
      place == IF reading THEN Validated(u, mem[u].set)
               ELSE IF u = "agent" THEN "run" ELSE "none" IN
  /\ mem' = [mem EXCEPT ![u] = IF place = "none" THEN NoMemory ELSE [@ EXCEPT !.at = place]]
  /\ IF reading THEN Starts(u, place, mem[u].uuid) ELSE UNCHANGED used

SaveWrites(u) ==
  /\ mem[u].at \in {"write", "rewrite"}
  /\ file' = [text |-> IF mem[u].set THEN "settings" ELSE "bare", uuid |-> mem[u].uuid]
  /\ cut' = (mem[u].uuid = NoId)
  /\ Return(u)
  /\ Excuse({})
  /\ UNCHANGED <<envVars, made>>

\* The file of a writer that does not get to the end: once it was opened, some of the
\* text may be there, but the UUID comes last.
Left(u) ==
  IF mem[u].at \in {"write", "rewrite"}
  THEN [text : {"bare", "settings", "garbled"}, uuid : {NoId}]
  ELSE {file}

\* Nobody looks at the error of Read's Save.
SaveFails(u) ==
  /\ Saving(u)
  /\ file' \in Left(u)
  /\ cut' = (cut \/ file'.uuid = NoId \/ file'.uuid # mem[u].uuid)
  /\ Return(u)
  /\ Excuse({})
  /\ UNCHANGED <<envVars, made>>

Killed(u) ==
  /\ mem[u].at # "none"
  /\ mem' = [mem EXCEPT ![u] = NoMemory]
  /\ file' \in Left(u)
  /\ cut' = (cut \/ mem[u].at \in {"write", "rewrite"})
  /\ UNCHANGED <<envVars, made, used>>
  /\ Excuse({})

-----------------------------------------------------------------------------
(* Who calls it. *)

\* The dashboard may leave out what an agent needs: that is not looked at.
ApplyRemote ==
  /\ mem["agent"].at = "run"
  /\ \E set \in BOOLEAN :
       mem' = [mem EXCEPT !["agent"].at = "amend", !["agent"].set = set]
  /\ UNCHANGED <<envVars, file, made, used, cut>>
  /\ Excuse({})

\* Nor is the UUID it sends, which may be another one or none.
ApplyIdentity ==
  /\ mem["agent"].at = "run"
  /\ \/ made < MaxFresh /\ made' = made + 1
        /\ mem' = [mem EXCEPT !["agent"].at = "amend", !["agent"].uuid = made']
     \/ made' = made
        /\ mem' = [mem EXCEPT !["agent"].at = "amend", !["agent"].uuid = NoId]
  /\ UNCHANGED <<envVars, file, used, cut>>
  /\ Excuse({mem'["agent"].uuid})

\* EditAgentConfig, with the UUID it offers or another one.
EditKeeps ==
  /\ mem["edit"].at = "ask"
  /\ mem["edit"].uuid # NoId
  /\ mem' = [mem EXCEPT !["edit"].at = "amend"]
  /\ UNCHANGED <<envVars, file, made, used, cut>>
  /\ Excuse({})

EditChooses ==
  /\ mem["edit"].at = "ask"
  /\ made < MaxFresh
  /\ made' = made + 1
  /\ mem' = [mem EXCEPT !["edit"].at = "amend", !["edit"].uuid = made']
  /\ UNCHANGED <<envVars, file, used, cut>>
  /\ Excuse({made'})

\* The user brings the settings back.
Repair ==
  /\ file.text # "settings"
  /\ \A u \in Users : ~Saving(u)
  /\ file' = [file EXCEPT !.text = "settings"]
  /\ UNCHANGED <<envVars, mem, made, used, cut, excused>>

ConfigNext ==
  \/ \E u \in Users :
       \/ ReadKeeps(u) \/ ReadDerives(u) \/ ReadGenerates(u)
       \/ SaveOpens(u) \/ SaveWrites(u) \/ SaveFails(u)
       \/ Killed(u)
  \/ ReadFails
  \/ ApplyRemote \/ ApplyIdentity \/ EditKeeps \/ EditChooses
  \/ Repair

ConfigSpec == ConfigInit /\ [][ConfigNext]_configVars

-----------------------------------------------------------------------------
(* Properties. *)

\* The agent keeps its identity while it runs, and over restarts, edits and
\* configurations from the dashboard.  It gets another one only if the user or the
\* dashboard chose it, if it was read or generated where a Save was at work, had failed
\* or was cut off, or if the editor had read it before the last change; no cause counts
\* twice, and with a name to derive it from there is none (config.go:63-146, 159,
\* edit.go:19, 149, main.go:287-293).
IdentityIsStable ==
  [][used' # used =>
       /\ mem["agent"].at \in {"none", "save", "write"}
       /\ used # NoId =>
            /\ ~(idx /\ named)
            /\ used' \in excused \/ (cut /\ used' = file.uuid)]_configVars
=============================================================================
