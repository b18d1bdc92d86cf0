------------------------------- MODULE Service -------------------------------
(***************************************************************************)
(* C-DEH as its users meet it: requests to the HTTP server (cdeh/server.py) *)
(* and commands of the `cdeh` tool (cdeh/cli.py), which work through a      *)
(* CDEHClient (cdeh/core/gateway.py) on one configuration directory.        *)
(*                                                                         *)
(* The server is one process.  It loads adapters.json, users.json and       *)
(* catalog.json when it starts, and then works on its memory.  A request    *)
(* has a thread of its own, which holds the one lock of the server while it *)
(* works and answers when it has released it.  A client gives up after 30   *)
(* seconds, which the server does not notice: what it asks for again is one *)
(* more request.  A command is a process of its own: it loads the same      *)
(* files, works, and is gone.                                               *)
(*                                                                         *)
(* Requests and commands are numbered in the order in which they are sent.  *)
(* Process 0 is the server, process i the command number i.  An entry of a  *)
(* file is known by the number of the operation that set it, and by whether *)
(* it is live: the adapter or the asset is there, the user may run shares.  *)
(***************************************************************************)
EXTENDS Naturals, FiniteSets

CONSTANTS
  Adapters,    \* names of adapters; the share reads from and writes to all of them
  Users,
  Assets,      \* the share, as the name of a catalog asset
  Remote,      \* <<kind, name>> of the operations that are sent to the server
  Local,       \* and of those that are commands
  MaxRequests, \* bound on requests
  MaxCommands, \* bound on commands
  MaxFaults    \* bound on requests refused, writes that fail and kills

Kinds == {"register", "remove", "user", "asset", "define", "delete", "run", "list"}

Targets(kind) ==
  CASE kind \in {"register", "remove"} -> Adapters
    [] kind \in {"user", "run"} -> Users
    [] OTHER -> Assets

ASSUME ServiceAssumption ==
  /\ \A o \in Remote : o[1] \in Kinds \ {"user", "asset"} /\ o[2] \in Targets(o[1])
  /\ \A o \in Local : o[1] \in Kinds /\ o[2] \in Targets(o[1])
  /\ {MaxRequests, MaxCommands, MaxFaults} \subseteq Nat
  /\ Adapters \cap Users = {} /\ Adapters \cap Assets = {} /\ Users \cap Assets = {}

VARIABLES
  file,     \* entries of the three files
  whole,    \* files that parse
  tmp,      \* their `.tmp` files: is there one, does it parse, its entries
  share,    \* the file that defines the share
  mem,      \* entries in the memory of each process
  up,       \* is the server running?
  lock,     \* the request that holds the lock of the server (0: none)
  op,       \* what each operation asks for
  pc,       \* where it is
  outcome,  \* how it has ended
  last,     \* history: the last operation that has saved each entry, if it was alone
  clash,    \* history: have two processes saved a file at a time?
  granted,  \* history: users whom users.json has ever let run shares
  ops, faults

disk == <<file, whole, tmp, share>>
process == <<mem, up, lock>>
request == <<op, pc, outcome>>
trace == <<last, clash, granted>>
bounds == <<ops, faults>>
vars == <<disk, process, request, trace, bounds>>

Stores == {Adapters, Users, Assets}
Names == Adapters \cup Users \cup Assets
MaxOps == MaxRequests + MaxCommands
Ops == 1 .. MaxOps
Procs == 0 .. MaxOps
Entries == [n : 0 .. MaxOps, live : BOOLEAN]
Dicts == [Names -> Entries]
Nothing == [k \in Names |-> [n |-> 0, live |-> FALSE]]
NoTmp == [there |-> FALSE, whole |-> FALSE, data |-> Nothing]
Requests == [via : {"http", "cli"}, kind : Kinds, name : Names, live : BOOLEAN]
NoRequest == [via |-> "none"]

(* How an operation ends: its status, and the names a list or a remove reports. *)
Reply(status, names) == [status |-> status, names |-> names]
NoReply == Reply("none", {})
Failed == Reply("error", {})
Replies == [status : {"none", "ok", "error"}, names : SUBSET Adapters]

TypeOK ==
  /\ file \in Dicts /\ whole \in [Stores -> BOOLEAN] /\ share \in Entries
  /\ tmp \in [Stores -> [there : BOOLEAN, whole : BOOLEAN, data : Dicts]]
  /\ mem \in [Procs -> Dicts] /\ up \in BOOLEAN /\ lock \in Procs
  /\ op \in [Ops -> Requests \cup {NoRequest}]
  /\ pc \in [Ops -> {"new", "queued", "load", "act", "replace", "save", "rename", "audit",
                     "transfer", "print", "keep", "note", "over"}]
  /\ outcome \in [Ops -> Replies]
  /\ last \in [Names -> Procs]
  /\ clash \in BOOLEAN /\ granted \subseteq Users
  /\ ops \in 0 .. MaxOps /\ faults \in 0 .. MaxFaults
  /\ \A i \in 1 .. ops : lock # i /\ op[i].via = "http" => pc[i] \in {"queued", "over"}

Live(dict, names) == {k \in names : dict[k].live}

Init ==
  /\ \E known \in SUBSET Assets :
       file = [k \in Names |-> [n |-> 0, live |-> k \in Adapters \cup known]]
  /\ whole = [s \in Stores |-> TRUE] /\ tmp = [s \in Stores |-> NoTmp]
  /\ share = [n |-> 0, live |-> TRUE]
  /\ mem = [p \in Procs |-> Nothing] /\ up = FALSE /\ lock = 0
  /\ op = [i \in Ops |-> NoRequest] /\ pc = [i \in Ops |-> "new"]
  /\ outcome = [i \in Ops |-> NoReply]
  /\ last = [k \in Names |-> 0] /\ clash = FALSE
  /\ granted = {}
  /\ ops = 0 /\ faults = 0

-----------------------------------------------------------------------------
At(i, label) == pc[i] = label
Goto(i, label) == pc' = [pc EXCEPT ![i] = label]
Proc(i) == IF op[i].via = "http" THEN 0 ELSE i
StoreOf == [k \in Names |-> CHOOSE s \in Stores : k \in s]

(* The dictionaries a client loads: a file that does not parse counts as empty. *)
Loaded == [k \in Names |-> IF whole[StoreOf[k]] THEN file[k] ELSE Nothing[k]]

(* Processes with a memory of their own. *)
Working(i) == i \in 1 .. ops /\ op[i].via = "cli" /\ pc[i] \notin {"load", "over"}
Holders == (IF up THEN {0} ELSE {}) \cup {i \in Ops : Working(i)}

(* run_server, after CDEHClient has loaded the files. *)
Boot ==
  /\ ~up /\ up' = TRUE
  /\ mem' = [mem EXCEPT ![0] = Loaded]
  /\ UNCHANGED <<disk, lock, request, trace, bounds>>

(* A request reaches the server, or a command starts. *)
Send(via, kind, k, live) ==
  /\ IF via = "http" THEN up /\ <<kind, k>> \in Remote ELSE <<kind, k>> \in Local
  /\ Cardinality({i \in 1 .. ops : op[i].via = via}) <
       IF via = "http" THEN MaxRequests ELSE MaxCommands
  /\ ops' = ops + 1
  /\ kind # "user" => live = (kind # "remove")
  /\ op' = [op EXCEPT ![ops + 1] = [via |-> via, kind |-> kind, name |-> k, live |-> live]]
  /\ pc' = [pc EXCEPT ![ops + 1] = IF via = "http" THEN "queued" ELSE "load"]
  /\ UNCHANGED <<disk, process, outcome, trace, faults>>

(* A handler that works without the lock (a defect for TypeOK). *)
Acquire_NoWait(i) ==
  /\ At(i, "queued")
  /\ lock' = i
  /\ Goto(i, "act")
  /\ UNCHANGED <<disk, mem, up, op, outcome, trace, bounds>>

(* with self.lock *)
Acquire(i) ==
  /\ At(i, "queued") /\ lock = 0
  /\ lock' = i
  /\ Goto(i, "act")
  /\ UNCHANGED <<disk, mem, up, op, outcome, trace, bounds>>

(* main builds a client of its own. *)
Load(i) ==
  /\ At(i, "load")
  /\ mem' = [mem EXCEPT ![i] = Loaded]
  /\ Goto(i, "act")
  /\ UNCHANGED <<disk, up, lock, op, outcome, trace, bounds>>

(* A handler that raises keeps the lock (a defect for EveryRequestEnds). *)
End_KeepsLock(i, reply) ==
  /\ outcome' = [outcome EXCEPT ![i] = reply]
  /\ lock' = IF op[i].via = "http" /\ reply # Failed THEN 0 ELSE lock
  /\ mem' = IF op[i].via = "http" THEN mem ELSE [mem EXCEPT ![i] = Nothing]
  /\ Goto(i, "over")

(* The work is done: a command exits, a handler releases the lock and, as    *)
(* the last thing, writes its response; nobody may be listening any more.    *)
End(i, reply) ==
  /\ outcome' = [outcome EXCEPT ![i] = reply]
  /\ lock' = IF op[i].via = "http" THEN 0 ELSE lock
  /\ mem' = IF op[i].via = "http" THEN mem ELSE [mem EXCEPT ![i] = Nothing]
  /\ Goto(i, "over")

GoesOn(i, label) == Goto(i, label) /\ UNCHANGED <<mem, lock, outcome>>

-----------------------------------------------------------------------------
(* The head of register_adapter, remove_adapter, add_user and register: the *)
(* dictionary in memory is changed.                                         *)
Change(i) ==
  LET k == op[i].name  p == Proc(i) IN
  /\ At(i, "act") /\ op[i].kind \in {"register", "remove", "user", "asset"}
  /\ IF op[i].kind = "remove" /\ ~mem[p][k].live
     THEN End(i, Reply("ok", {}))
     ELSE /\ mem' = [mem EXCEPT ![p][k] = [n |-> i, live |-> op[i].live]]
          /\ Goto(i, "save") /\ UNCHANGED <<lock, outcome>>
  /\ UNCHANGED <<disk, up, op, trace, bounds>>

(* A body that is not JSON is answered before the lock is asked for. *)
BadBody(i) ==
  /\ At(i, "queued") /\ op[i].kind \in {"register", "define", "run"} /\ faults < MaxFaults
  /\ faults' = faults + 1
  /\ outcome' = [outcome EXCEPT ![i] = Failed]
  /\ Goto(i, "over")
  /\ UNCHANGED <<disk, process, op, trace, ops>>

(* A body that lacks a field, a kind or a configuration that is not         *)
(* accepted, a definition that cannot be written or renamed into place.      *)
Refuse(i) ==
  /\ pc[i] \in {"act", "replace"} /\ op[i].kind \in {"register", "define"}
  /\ faults < MaxFaults /\ faults' = faults + 1
  /\ End(i, Failed)
  /\ UNCHANGED <<disk, up, op, trace, ops>>

(* save_share writes a `.tmp` file of the share, which nobody reads, and     *)
(* renames it.  (Two processes that define the share at a time and mix its   *)
(* bytes are left out.)  delete_share unlinks the file.                       *)
ChangeShare(i) ==
  /\ At(i, "act") /\ op[i].kind \in {"define", "delete"}
  /\ IF op[i].kind = "define" THEN GoesOn(i, "replace") /\ UNCHANGED share
     ELSE /\ share' = IF share.live THEN [n |-> i, live |-> FALSE] ELSE share
          /\ End(i, Reply(IF share.live \/ op[i].via = "http" THEN "ok" ELSE "error", {}))
  /\ UNCHANGED <<file, whole, tmp, up, op, trace, bounds>>

ReplaceShare(i) ==
  /\ At(i, "replace")
  /\ share' = [n |-> i, live |-> TRUE]
  /\ GoesOn(i, "audit")
  /\ UNCHANGED <<file, whole, tmp, up, op, trace, bounds>>

(* A list read from the file (a defect for ServesAtomically). *)
Look_FromFile(i) ==
  /\ At(i, "act") /\ op[i].kind = "list"
  /\ End(i, Reply("ok", Live(file, Adapters)))
  /\ UNCHANGED <<disk, up, op, trace, bounds>>

(* list_adapters answers from memory. *)
Look(i) ==
  /\ At(i, "act") /\ op[i].kind = "list"
  /\ End(i, Reply("ok", Live(mem[Proc(i)], Adapters)))
  /\ UNCHANGED <<disk, up, op, trace, bounds>>

(* A check that accepts anyone (a defect for RunsAreGranted). *)
MayRun_Anyone(p, u) == TRUE

(* rbac.check(user, "run_share") against the users in memory. *)
MayRun(p, u) == mem[p][u].live

(* run_share: KeyError without the share or its adapters, then the check.   *)
StartRun(i) ==
  LET p == Proc(i) IN
  /\ At(i, "act") /\ op[i].kind = "run"
  /\ IF ~share.live \/ Live(mem[p], Adapters) # Adapters THEN End(i, Failed)
     ELSE GoesOn(i, IF MayRun(p, op[i].name) THEN "transfer" ELSE "audit")
  /\ UNCHANGED <<disk, up, op, trace, bounds>>

(* Is the asset of the share in the catalog, as a process knows it? *)
Known(p) == Live(mem[p], Assets) = Assets

ChangeAsset(i) ==
  mem' = [mem EXCEPT ![Proc(i)] =
            [k \in Names |-> IF k \in Assets THEN [n |-> i, live |-> TRUE] ELSE @[k]]]

(* The transfer (ShareRun), which may have nothing to do, or nothing but      *)
(* errors to log.  The fingerprint of an object is saved before its audit     *)
(* entry is written, with an asset that is made for it if there is none;      *)
(* here, of one object.                                                       *)
Transfer(i) ==
  /\ At(i, "transfer")
  /\ \/ \E label \in {"note", "audit"} : GoesOn(i, label)
     \/ ChangeAsset(i) /\ Goto(i, "print") /\ UNCHANGED <<lock, outcome>>
  /\ UNCHANGED <<disk, up, op, trace, bounds>>

(* The end of run_share sets last_sync of the asset, whatever run returned;   *)
(* without one, it ignores the TypeError of DataAsset(description=...).        *)
Note(i) ==
  /\ At(i, "note")
  /\ IF Known(Proc(i)) THEN ChangeAsset(i) /\ Goto(i, "save") /\ UNCHANGED <<lock, outcome>>
     ELSE End(i, Reply("ok", {}))
  /\ UNCHANGED <<disk, up, op, trace, bounds>>

-----------------------------------------------------------------------------
(* The save of a file: the `.tmp` file is written, and renamed.  All         *)
(* processes use one name for it: bytes written over or behind those of      *)
(* another process may leave a mixture.                                      *)
Store(i) == IF op[i].kind = "run" THEN Assets ELSE StoreOf[op[i].name]
Writing(i) == pc[i] \in {"save", "print"}
Renaming(i) == pc[i] \in {"rename", "keep"}
Saving(s) == {i \in 1 .. ops : Renaming(i) /\ Store(i) = s}
AfterWrite(i) == IF At(i, "print") THEN "keep" ELSE "rename"

(* A save that truncates the file itself (a defect for LostOnlyToOverlap). *)
Write_InPlace(i) ==
  LET s == Store(i) IN
  /\ Writing(i)
  /\ tmp' = [tmp EXCEPT ![s] = [there |-> TRUE, whole |-> TRUE, data |-> mem[Proc(i)]]]
  /\ whole' = [whole EXCEPT ![s] = FALSE]
  /\ GoesOn(i, AfterWrite(i))
  /\ UNCHANGED <<file, share, up, op, last, clash, granted, bounds>>

Write(i) ==
  LET s == Store(i) IN
  /\ Writing(i)
  /\ \E ok \in {TRUE, Saving(s) = {}} :
       tmp' = [tmp EXCEPT ![s] = [there |-> TRUE, whole |-> ok, data |-> mem[Proc(i)]]]
  /\ clash' = (clash \/ Saving(s) # {})
  /\ GoesOn(i, AfterWrite(i))
  /\ UNCHANGED <<file, whole, share, up, op, last, granted, bounds>>

(* The claim of an operation that has saved: its own number if no other *)
(* process has a memory that lacks it.                                   *)
Alone(i) == IF Holders \subseteq {Proc(i)} THEN i ELSE 0

Audited(i) == op[i].kind \in {"register", "remove"}
Named(i) == IF op[i].kind = "remove" THEN {op[i].name} ELSE {}

Rename(i) ==
  LET s == Store(i)
      new == [k \in Names |-> IF k \in s THEN tmp[s].data[k] ELSE file[k]] IN
  /\ Renaming(i) /\ tmp[s].there
  /\ file' = new /\ whole' = [whole EXCEPT ![s] = tmp[s].whole]
  /\ tmp' = [tmp EXCEPT ![s] = NoTmp]
  /\ last' = [k \in Names |-> IF mem[Proc(i)][k].n = i THEN Alone(i) ELSE last[k]]
  /\ granted' = granted \cup Live(new, Users)
  /\ IF At(i, "keep") \/ Audited(i) THEN GoesOn(i, "audit") ELSE End(i, Reply("ok", {}))
  /\ UNCHANGED <<share, up, op, clash, bounds>>

(* What is left in the `.tmp` file when the writing of it stops half-way.    *)
Torn(stores) ==
  \E torn \in SUBSET stores :
    /\ tmp' = [s \in Stores |-> IF s \in torn THEN [NoTmp EXCEPT !.there = TRUE] ELSE tmp[s]]
    /\ clash' = (clash \/ \E s \in torn : Saving(s) # {})

(* OSError in a save, or the `.tmp` file was renamed by another process.    *)
(* run has an audit entry for it, run_share ignores the exception.           *)
SaveFails(i) ==
  /\ IF Renaming(i) /\ ~tmp[Store(i)].there THEN UNCHANGED <<tmp, clash, faults>>
     ELSE /\ Writing(i) \/ Renaming(i)
          /\ faults < MaxFaults /\ faults' = faults + 1
          /\ Torn(IF Writing(i) THEN {Store(i)} ELSE {})
  /\ IF pc[i] \in {"print", "keep"} THEN GoesOn(i, "audit")
     ELSE End(i, IF op[i].kind = "run" THEN Reply("ok", {}) ELSE Failed)
  /\ UNCHANGED <<file, whole, share, up, op, last, granted, ops>>

Record(i) ==
  /\ At(i, "audit")
  /\ IF op[i].kind = "run" THEN GoesOn(i, "note") ELSE End(i, Reply("ok", Named(i)))
  /\ UNCHANGED <<disk, up, op, trace, bounds>>

(* The log cannot be written: an error, although the change has been made.  *)
(* Or an exception escapes from the transfer.                               *)
RecordFails(i) ==
  /\ pc[i] \in {"audit", "transfer"} /\ faults < MaxFaults
  /\ faults' = faults + 1
  /\ End(i, Failed)
  /\ UNCHANGED <<disk, up, op, trace, ops>>

-----------------------------------------------------------------------------
Die(set) ==
  /\ faults < MaxFaults /\ faults' = faults + 1
  /\ pc' = [i \in Ops |-> IF i \in set THEN "over" ELSE pc[i]]
  /\ Torn({Store(i) : i \in {j \in set : Writing(j)}})

KillServer ==
  /\ up /\ up' = FALSE /\ lock' = 0 /\ mem' = [mem EXCEPT ![0] = Nothing]
  /\ Die({i \in 1 .. ops : op[i].via = "http"})
  /\ UNCHANGED <<file, whole, share, op, outcome, last, granted, ops>>

KillCommand(i) ==
  /\ Working(i) /\ mem' = [mem EXCEPT ![i] = Nothing]
  /\ Die({i})
  /\ UNCHANGED <<file, whole, share, up, lock, op, outcome, last, granted, ops>>

Advance(i) ==
  \/ Acquire(i) \/ Load(i) \/ Change(i) \/ ChangeShare(i) \/ ReplaceShare(i) \/ Look(i) \/ StartRun(i)
  \/ Transfer(i) \/ Note(i) \/ Write(i) \/ Rename(i) \/ SaveFails(i) \/ Record(i)

Next ==
  \/ Boot \/ KillServer
  \/ \E o \in Remote \cup Local, via \in {"http", "cli"}, live \in BOOLEAN :
       Send(via, o[1], o[2], live)
  \/ \E i \in Ops : Advance(i) \/ BadBody(i) \/ Refuse(i) \/ RecordFails(i) \/ KillCommand(i)

Spec == Init /\ [][Next]_vars

(* A thread that can go on does so; the lock is asked for a finite number of times. *)
FairSpec == Spec /\ WF_vars(\E i \in Ops : Advance(i))

-----------------------------------------------------------------------------
(* A change that an operation has saved while no other process was at work   *)
(* stays in its file until an operation on the same name replaces it: stops,  *)
(* kills in the middle of a save, saves that fail and restarts lose nothing.  *)
(* It may only be replaced by a change in memory that was not reported as     *)
(* saved, and two processes may have written one `.tmp` file at a time.       *)
(* (_save and _save_adapters, which all replace the whole file.)              *)
LostOnlyToOverlap ==
  ~clash =>
    /\ \A s \in Stores : whole[s]
    /\ \A k \in Names :
         last[k] \notin {0, file[k].n} =>
           file[k].n # 0 /\ outcome[file[k].n].status = "error"

(* What runs has been granted: a server or a command that checks against the *)
(* users it has loaded, however old they are and whatever happened to the     *)
(* file, never runs a share for a user whom users.json never let run it.      *)
RunsAreGranted == \A i \in Ops : At(i, "transfer") => op[i].name \in granted

(* A request is served or its server is killed, and a command ends: the lock  *)
(* is given back by every handler, whichever of its steps fails.              *)
EveryRequestEnds == <>[](\A i \in Ops : pc[i] \in {"new", "over"})

(* The adapters of the server are an atomic dictionary (RequestService).      *)
Served(i) == i \in 1 .. ops /\ op[i].via = "http"
Wanted(i) ==
  IF ~Served(i) THEN [kind |-> "none"]
  ELSE IF op[i].kind \in {"register", "remove"} THEN [kind |-> op[i].kind, name |-> op[i].name]
  ELSE [kind |-> IF op[i].kind = "list" THEN "list" ELSE "other"]
Stage(i) ==
  IF ~Served(i) THEN "new"
  ELSE IF pc[i] \in {"queued", "act"} THEN "pending"
  ELSE IF pc[i] = "over" THEN "answered" ELSE "applied"

Abstract == INSTANCE RequestService WITH
  Names <- Adapters, Ids <- Ops, serving <- up, dict <- Live(mem[0], Adapters),
  want <- [i \in Ops |-> Wanted(i)], stage <- [i \in Ops |-> Stage(i)],
  reply <- [i \in Ops |-> IF Served(i) THEN outcome[i] ELSE NoReply]

(* Every step of the server is a step of the abstract service, or none.       *)
ServesAtomically == Abstract!Spec
=============================================================================
