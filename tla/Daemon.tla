------------------------------- MODULE Daemon -------------------------------
(***************************************************************************)
(* The challd daemon (src/challd/src): the request server, the per-launch  *)
(* tracked task that builds a session (dummy /32, container, DNAT rule,    *)
(* WireGuard peer), the supervisor that waits on TTL / cancellation /      *)
(* container exit and runs the teardown chain, and the SIGINT/SIGTERM      *)
(* drain path of main().                                                   *)
(*                                                                         *)
(* Every connection is one process c \in Conns.  Its pc follows the awaits *)
(* of the code: one action per await-delimited step.  The kernel and the   *)
(* container runtime are variables shared by all processes:                *)
(*   dummy  -- the 10.4.2.a/32 addresses on eth42                          *)
(*   nat    -- DNAT rules <<a, c>>: from 10.4.1.a to c's bridge address    *)
(*   peers  -- WireGuard peers <<a, c>>: c's key with allowed ip 10.4.1.a  *)
(*   ctr    -- the docker container created for connection c               *)
(* A container's bridge IP and a peer's public key are identified with    *)
(* the connection that created them.                                       *)
(***************************************************************************)
EXTENDS Naturals, FiniteSets

CONSTANTS
  Conns,     \* connections accepted on the unix socket (model values)
  N,         \* MAX_INSTANCES: number of address slots
  Faults     \* environment failures the run admits, a subset of FaultKinds

\* "createFails": docker refuses create/start (missing image, daemon down);
\* "earlyExit": the workload exits before the tracked task inspects it;
\* "stopFails": stop_container answers an error other than 404;
\* "wgFails": configure_peer or remove_peer on wg42 returns Err.
FaultKinds == {"createFails", "earlyExit", "stopFails", "wgFails"}

ASSUME N \in Nat \ {0}
ASSUME Faults \subseteq FaultKinds

\* Peer address suffixes handed out by AddressManager::take_next_addr.
Slots == 1..N

VARIABLES
  dstate,  \* main(): "running" | "draining" | "exiting" | "exited"
  used,    \* AddressManager.used_addresses, indexed by address a = i+1
  pc,      \* program counter of each connection's tasks
  mode,    \* "none" | "guest" | "demo"
  addr,    \* the slot a connection holds (0: none)
  ctr,     \* "none" | "running" | "gone"  (auto_remove reaps stopped ones)
  dummy,   \* SUBSET Slots
  nat,     \* SUBSET (Slots \X Conns)
  peers,   \* SUBSET (Slots \X Conns)
  answer   \* what the client has been told on its connection, see Answers

vars == <<dstate, used, pc, mode, addr, ctr, dummy, nat, peers, answer>>

\* Steps of the tracked task and of the supervisor it awaits.
TrackedPcs == {"addDummy", "create", "nat", "spawnSup", "waiting",
               "removePeer", "stop", "natDel", "addrDel", "release"}
Pcs == {"idle", "reading", "done", "crashed"} \cup TrackedPcs

\* Tasks keep running until the runtime is dropped at the end of main().
Alive == dstate # "exited"

Goto(c, from, to) ==
  /\ pc[c] = from
  /\ pc' = [pc EXCEPT ![c] = to]

\* What a client has been told on its connection: "none", nothing yet;
\* "err", a status byte other than RESULT_OK (malformed, invalid port,
\* busy); "pending", the response writer task is spawned and has not
\* written; "ok", RESULT_OK and, for a guest, the config; "eof", the
\* stream was dropped without a status byte.
Answers == {"none", "err", "pending", "ok", "eof"}

Tell(c, v) == answer' = [answer EXCEPT ![c] = v]

Init ==
  /\ dstate = "running"
  /\ used = [a \in Slots |-> FALSE]
  /\ pc = [c \in Conns |-> "idle"]
  /\ mode = [c \in Conns |-> "none"]
  /\ addr = [c \in Conns |-> 0]
  /\ ctr = [c \in Conns |-> "none"]
  /\ dummy = {}
  /\ nat = {}
  /\ peers = {}
  /\ answer = [c \in Conns |-> "none"]

-----------------------------------------------------------------------------
(* Plausible slips in the code, each checked to break a property below.    *)

\* relinquish_addr that forgets the store of false.
RelinquishAddrNoop(a) == used' = [used EXCEPT ![a] = used[a]]

\* A cleanup that relinquishes the slot as soon as the container is stopped,
\* before the DNAT rule and the /32 are removed.
StopContainerReleasing(c) ==
  /\ Alive
  /\ Goto(c, "stop", IF mode[c] = "guest" THEN "natDel" ELSE "done")
  /\ ctr' = [ctr EXCEPT ![c] = "gone"]
  /\ used' = IF mode[c] = "guest" THEN [used EXCEPT ![addr[c]] = FALSE]
                                  ELSE used
  /\ UNCHANGED <<dstate, mode, addr, dummy, nat, peers, answer>>

\* A cleanup that waits for the workload to exit instead of stopping it.
StopContainerAwaitExit(c) ==
  /\ Alive
  /\ ctr[c] = "gone"
  /\ Goto(c, "stop", IF mode[c] = "guest" THEN "natDel" ELSE "done")
  /\ UNCHANGED <<dstate, used, mode, addr, ctr, dummy, nat, peers, answer>>

\* ip addr del given the slot index (a - 1) instead of the address a.
DeleteDummyAddrByIndex(c) ==
  /\ Alive
  /\ Goto(c, "addrDel", "release")
  /\ dummy' = dummy \ {addr[c] - 1}
  /\ UNCHANGED <<dstate, used, mode, addr, ctr, nat, peers, answer>>

\* The DNAT rule written with the slot index (a - 1) as source address.
InstallNatByIndex(c) ==
  /\ Alive
  /\ ctr[c] = "running"
  /\ Goto(c, "nat", "spawnSup")
  /\ nat' = nat \cup {<<addr[c] - 1, c>>}
  /\ UNCHANGED <<dstate, used, mode, addr, ctr, dummy, peers, answer>>

\* A cleanup that stops only containers with vpn_info (guest launches).
StopContainerGuestOnly(c) ==
  /\ Alive
  /\ Goto(c, "stop", IF mode[c] = "guest" THEN "natDel" ELSE "done")
  /\ ctr' = IF mode[c] = "guest" THEN [ctr EXCEPT ![c] = "gone"] ELSE ctr
  /\ UNCHANGED <<dstate, used, mode, addr, dummy, nat, peers, answer>>

\* The response writer spawned only inside if let Some(cfg): a demo
\* launch never gets its status byte.
SpawnDemoNoWriter(c) ==
  /\ Alive
  /\ mode[c] = "demo"
  /\ Goto(c, "spawnSup", "waiting")
  /\ UNCHANGED <<dstate, used, mode, addr, ctr, dummy, nat, peers, answer>>

\* A supervisor select! without the sleep(duration) arm.
TtlNeverExpires(c) == FALSE

-----------------------------------------------------------------------------
(* Address manager                                                         *)

\* take_next_addr: the lowest free slot, or 0 (None) when all are taken.
TakeNextAddr ==
  IF \E a \in Slots : ~used[a]
  THEN CHOOSE a \in Slots : ~used[a] /\ \A b \in 1..(a - 1) : used[b]
  ELSE 0

RelinquishAddr(a) == used' = [used EXCEPT ![a] = FALSE]

-----------------------------------------------------------------------------
(* Request server: the accept loop and the connection task                 *)

Accept(c) ==
  /\ dstate = "running"
  /\ Goto(c, "idle", "reading")
  /\ UNCHANGED <<dstate, used, mode, addr, ctr, dummy, nat, peers, answer>>

\* A parse error or an invalid port table: one status byte, no resources.
Reject(c) ==
  /\ Alive
  /\ Goto(c, "reading", "done")
  /\ Tell(c, "err")
  /\ UNCHANGED <<dstate, used, mode, addr, ctr, dummy, nat, peers>>

\* Guest request: take a slot and spawn the tracked launch task.
TakeAddr(c) ==
  /\ Alive
  /\ TakeNextAddr # 0
  /\ Goto(c, "reading", "addDummy")
  /\ used' = [used EXCEPT ![TakeNextAddr] = TRUE]
  /\ addr' = [addr EXCEPT ![c] = TakeNextAddr]
  /\ mode' = [mode EXCEPT ![c] = "guest"]
  /\ UNCHANGED <<dstate, ctr, dummy, nat, peers, answer>>

\* Guest request while every slot is taken: RESULT_BUSY.
Busy(c) ==
  /\ Alive
  /\ TakeNextAddr = 0
  /\ Goto(c, "reading", "done")
  /\ Tell(c, "err")
  /\ UNCHANGED <<dstate, used, mode, addr, ctr, dummy, nat, peers>>

\* Demo request: spawn the tracked launch task without a slot.
StartDemo(c) ==
  /\ Alive
  /\ Goto(c, "reading", "create")
  /\ mode' = [mode EXCEPT ![c] = "demo"]
  /\ UNCHANGED <<dstate, used, addr, ctr, dummy, nat, peers, answer>>

-----------------------------------------------------------------------------
(* Container::create, run by the tracked task                              *)

\* ip addr add 10.4.2.a/32 dev eth42
AddDummyAddr(c) ==
  /\ Alive
  /\ Goto(c, "addDummy", "create")
  /\ dummy' = dummy \cup {addr[c]}
  /\ UNCHANGED <<dstate, used, mode, addr, ctr, nat, peers, answer>>

\* create_container + start_container succeed.
CreateContainer(c) ==
  /\ Alive
  /\ Goto(c, "create", IF mode[c] = "guest" THEN "nat" ELSE "spawnSup")
  /\ ctr' = [ctr EXCEPT ![c] = "running"]
  /\ UNCHANGED <<dstate, used, mode, addr, dummy, nat, peers, answer>>

\* create_container(..).await.unwrap() panics: the tracked task dies
\* holding its slot and its /32.
CreateFails(c) ==
  /\ Alive
  /\ "createFails" \in Faults
  /\ Goto(c, "create", "crashed")
  /\ Tell(c, "eof")
  /\ UNCHANGED <<dstate, used, mode, addr, ctr, dummy, nat, peers>>

\* inspect_container, then iptables -A PREROUTING ... DNAT to the bridge IP.
InstallNat(c) ==
  /\ Alive
  /\ ctr[c] = "running"
  /\ Goto(c, "nat", "spawnSup")
  /\ nat' = nat \cup {<<addr[c], c>>}
  /\ UNCHANGED <<dstate, used, mode, addr, ctr, dummy, peers, answer>>

\* The container is already gone: inspect_container(..).unwrap() panics.
InspectFails(c) ==
  /\ Alive
  /\ ctr[c] = "gone"
  /\ Goto(c, "nat", "crashed")
  /\ Tell(c, "eof")
  /\ UNCHANGED <<dstate, used, mode, addr, ctr, dummy, nat, peers>>

-----------------------------------------------------------------------------
(* Interface::add_temp_peer / spawn_demo: start the supervisor             *)

AddTempPeer(c) ==
  /\ Alive
  /\ mode[c] = "guest"
  /\ Goto(c, "spawnSup", "waiting")
  /\ peers' = peers \cup {<<addr[c], c>>}
  /\ Tell(c, "pending")
  /\ UNCHANGED <<dstate, used, mode, addr, ctr, dummy, nat>>

\* configure_peer fails: add_temp_peer returns Err through ?, dropping the
\* cleanup future, whose Container's Drop asserts it was shut down; the
\* tracked task panics (or unwraps the Err) with the container running.
ConfigurePeerFails(c) ==
  /\ Alive
  /\ "wgFails" \in Faults
  /\ mode[c] = "guest"
  /\ Goto(c, "spawnSup", "crashed")
  /\ Tell(c, "eof")
  /\ UNCHANGED <<dstate, used, mode, addr, ctr, dummy, nat, peers>>

SpawnDemo(c) ==
  /\ Alive
  /\ mode[c] = "demo"
  /\ Goto(c, "spawnSup", "waiting")
  /\ Tell(c, "pending")
  /\ UNCHANGED <<dstate, used, mode, addr, ctr, dummy, nat, peers>>

\* The three arms of the supervisor's select!; the first to fire wins.
FirstTeardownPc(c) == IF mode[c] = "guest" THEN "removePeer" ELSE "stop"

TtlExpires(c) ==
  /\ Alive
  /\ Goto(c, "waiting", FirstTeardownPc(c))
  /\ UNCHANGED <<dstate, used, mode, addr, ctr, dummy, nat, peers, answer>>

Cancelled(c) ==
  /\ Alive
  /\ dstate # "running"
  /\ Goto(c, "waiting", FirstTeardownPc(c))
  /\ UNCHANGED <<dstate, used, mode, addr, ctr, dummy, nat, peers, answer>>

ShutdownSignal(c) ==
  /\ Alive
  /\ ctr[c] = "gone"
  /\ Goto(c, "waiting", FirstTeardownPc(c))
  /\ UNCHANGED <<dstate, used, mode, addr, ctr, dummy, nat, peers, answer>>

-----------------------------------------------------------------------------
(* Teardown: remove_peer, then the cleanup future                          *)

RemovePeer(c) ==
  /\ Alive
  /\ Goto(c, "removePeer", "stop")
  /\ peers' = peers \ {<<addr[c], c>>}
  /\ UNCHANGED <<dstate, used, mode, addr, ctr, dummy, nat, answer>>

\* remove_peer fails: the supervisor returns Err before cleanup.await; the
\* dropped cleanup future panics in Container's Drop and the tracked task
\* panics in handle.await.unwrap().  Peer, container, rule and /32 stay.
RemovePeerFails(c) ==
  /\ Alive
  /\ "wgFails" \in Faults
  /\ Goto(c, "removePeer", "crashed")
  /\ UNCHANGED <<dstate, used, mode, addr, ctr, dummy, nat, peers, answer>>

\* stop_container: stops a running container (auto_remove reaps it); a 404
\* for one that is already gone is logged and ignored.  A demo container
\* has no vpn_info, so its cleanup ends here.
StopContainer(c) ==
  /\ Alive
  /\ Goto(c, "stop", IF mode[c] = "guest" THEN "natDel" ELSE "done")
  /\ ctr' = [ctr EXCEPT ![c] = "gone"]
  /\ UNCHANGED <<dstate, used, mode, addr, dummy, nat, peers, answer>>

\* stop_container answers another error: it is logged and shutdown goes on
\* with the DNAT rule and the /32; the container keeps running.
StopFails(c) ==
  /\ Alive
  /\ "stopFails" \in Faults
  /\ ctr[c] = "running"
  /\ Goto(c, "stop", IF mode[c] = "guest" THEN "natDel" ELSE "done")
  /\ UNCHANGED <<dstate, used, mode, addr, ctr, dummy, nat, peers, answer>>

\* iptables -t nat -D PREROUTING ... (the exact tuple that was appended)
DeleteNat(c) ==
  /\ Alive
  /\ Goto(c, "natDel", "addrDel")
  /\ nat' = nat \ {<<addr[c], c>>}
  /\ UNCHANGED <<dstate, used, mode, addr, ctr, dummy, peers, answer>>

\* ip addr del 10.4.2.a/32 dev eth42
DeleteDummyAddr(c) ==
  /\ Alive
  /\ Goto(c, "addrDel", "release")
  /\ dummy' = dummy \ {addr[c]}
  /\ UNCHANGED <<dstate, used, mode, addr, ctr, nat, peers, answer>>

Relinquish(c) ==
  /\ Alive
  /\ Goto(c, "release", "done")
  /\ RelinquishAddr(addr[c])
  /\ UNCHANGED <<dstate, mode, addr, ctr, dummy, nat, peers, answer>>

-----------------------------------------------------------------------------
(* The response writer: an untracked task spawned once the supervisor is  *)
(* spawned, racing it.  A guest gets RESULT_OK, then the u16 length and    *)
(* the config; a demo only RESULT_OK; then the stream is shut down.  The   *)
(* writes are one step: the task can only be cut off between them by the  *)
(* runtime being dropped, after every session has been torn down.         *)

WriteResponse(c) ==
  /\ Alive
  /\ answer[c] = "pending"
  /\ Tell(c, "ok")
  /\ UNCHANGED <<dstate, used, pc, mode, addr, ctr, dummy, nat, peers>>

-----------------------------------------------------------------------------
(* Environment: the workload exits on its own                              *)

\* Without "earlyExit" the workload lives at least until the supervisor is
\* waiting on it.
ContainerExits(c) ==
  /\ ctr[c] = "running"
  /\ pc[c] \notin {"nat", "spawnSup"} \/ "earlyExit" \in Faults
  /\ ctr' = [ctr EXCEPT ![c] = "gone"]
  /\ UNCHANGED <<dstate, used, pc, mode, addr, dummy, nat, peers, answer>>

-----------------------------------------------------------------------------
(* main(): SIGINT/SIGTERM, drain, exit                                     *)

\* The accept loop breaks; token.cancel(); tracker.close().
Signal ==
  /\ dstate = "running"
  /\ dstate' = "draining"
  /\ UNCHANGED <<used, pc, mode, addr, ctr, dummy, nat, peers, answer>>

\* tracker.wait() returns once no tracked task is left.  Connection tasks
\* are spawned with tokio::spawn and are not tracked.
DrainComplete ==
  /\ dstate = "draining"
  /\ \A c \in Conns : pc[c] \notin TrackedPcs
  /\ dstate' = "exiting"
  /\ UNCHANGED <<used, pc, mode, addr, ctr, dummy, nat, peers, answer>>

\* main() returns: dropping DummyInterface deletes eth42 with its addresses,
\* dropping the last Arc<Interface> removes wg42 with its peers, and the
\* runtime drops every remaining task.  DNAT rules and containers stay.
\* Every task still holding a stream (a connection task reading, a launch
\* task that has not spawned its writer, an unfinished writer) drops it:
\* the client reads end of file.
ProcessExit ==
  /\ dstate = "exiting"
  /\ dstate' = "exited"
  /\ dummy' = {}
  /\ peers' = {}
  /\ answer' = [c \in Conns |->
                  IF answer[c] \in {"none", "pending"} /\ pc[c] # "idle"
                  THEN "eof" ELSE answer[c]]
  /\ UNCHANGED <<used, pc, mode, addr, ctr, nat>>

\* challd is started again (spec section 7: the operator restarts the
\* daemon after a loud crash).  main() creates eth42 and wg42 afresh and
\* AddressManager::new marks every slot free; iptables rules and docker
\* containers outlive the process.  The tasks of the exited process are
\* gone, and connections not yet made are the new process's clients.
Restart ==
  /\ dstate = "exited"
  /\ dstate' = "running"
  /\ used' = [a \in Slots |-> FALSE]
  /\ pc' = [c \in Conns |-> IF pc[c] = "idle" THEN "idle" ELSE "done"]
  /\ UNCHANGED <<mode, addr, ctr, dummy, nat, peers, answer>>

-----------------------------------------------------------------------------

ConnStep(c) ==
  \/ Reject(c) \/ TakeAddr(c) \/ Busy(c) \/ StartDemo(c)
  \/ AddDummyAddr(c) \/ CreateContainer(c) \/ CreateFails(c)
  \/ InstallNat(c) \/ InspectFails(c) \/ AddTempPeer(c) \/ SpawnDemo(c)
  \/ ConfigurePeerFails(c)
  \/ TtlExpires(c) \/ Cancelled(c) \/ ShutdownSignal(c)
  \/ RemovePeer(c) \/ RemovePeerFails(c)
  \/ StopContainer(c) \/ StopFails(c) \/ DeleteNat(c)
  \/ DeleteDummyAddr(c) \/ Relinquish(c)
  \/ WriteResponse(c)

Next ==
  \/ \E c \in Conns : Accept(c) \/ ConnStep(c) \/ ContainerExits(c)
  \/ Signal \/ DrainComplete \/ ProcessExit

\* Every task step is scheduled by the runtime once it is ready; where an
\* await can fail, the step is fair and its outcome is the environment's.
\* The
\* clients (Accept), the operator (Signal) and the workload
\* (ContainerExits) are not obliged to do anything.  The client of an
\* accepted connection is the archive, which writes its whole request
\* before reading (challd.rs:73-75), so the parse comes to an outcome.
\* Parsing a request: the connection task's reads up to its dispatch.
Parse(c) == Reject(c) \/ TakeAddr(c) \/ Busy(c) \/ StartDemo(c)

Fairness ==
  /\ \A c \in Conns :
       /\ WF_vars(Parse(c)) /\ WF_vars(WriteResponse(c))
       /\ WF_vars(AddDummyAddr(c))
       /\ WF_vars(CreateContainer(c) \/ CreateFails(c))
       /\ WF_vars(InstallNat(c) \/ InspectFails(c))
       /\ WF_vars(AddTempPeer(c) \/ ConfigurePeerFails(c))
       /\ WF_vars(SpawnDemo(c)) /\ WF_vars(TtlExpires(c))
       /\ WF_vars(Cancelled(c)) /\ WF_vars(ShutdownSignal(c))
       /\ WF_vars(RemovePeer(c) \/ RemovePeerFails(c))
       /\ WF_vars(StopContainer(c) \/ StopFails(c))
       /\ WF_vars(DeleteNat(c)) /\ WF_vars(DeleteDummyAddr(c))
       /\ WF_vars(Relinquish(c))
  /\ WF_vars(DrainComplete) /\ WF_vars(ProcessExit)

Spec == Init /\ [][Next]_vars

FairSpec == Spec /\ Fairness

\* Successive lifetimes of challd on one host: the kernel's iptables rules
\* and docker's containers carry over from one to the next.
RestartNext == Next \/ Restart

RestartSpec == Init /\ [][RestartNext]_vars

-----------------------------------------------------------------------------
(* Properties                                                              *)

TypeOK ==
  /\ dstate \in {"running", "draining", "exiting", "exited"}
  /\ used \in [Slots -> BOOLEAN]
  /\ pc \in [Conns -> Pcs]
  /\ mode \in [Conns -> {"none", "guest", "demo"}]
  /\ addr \in [Conns -> 0..N]
  /\ ctr \in [Conns -> {"none", "running", "gone"}]
  /\ dummy \subseteq Slots
  /\ nat \subseteq Slots \X Conns
  /\ peers \subseteq Slots \X Conns
  /\ answer \in [Conns -> Answers]

\* A guest launch whose tracked task or supervisor is still running.
Holding(c) == mode[c] = "guest" /\ pc[c] \in TrackedPcs

\* A guest launch that took a slot and has not relinquished it: still
\* running, or dead after a panic.
Owns(c) == mode[c] = "guest" /\ pc[c] \in TrackedPcs \cup {"crashed"}

\* Every kernel object that carries a slot (the WireGuard peer with allowed
\* ip 10.4.1.a, the DNAT rule from 10.4.1.a, the 10.4.2.a/32 on eth42)
\* belongs to the one launch that owns slot a, and no two launches own the
\* same slot.  This is what keeps a new tenant of a reused slot away from
\* the previous tenant's container: the teardown chain in main.rs and
\* Container::shutdown must remove all of them before relinquish_addr.
KernelStateOwned ==
  /\ \A c, d \in Conns :
       c # d /\ Owns(c) /\ Owns(d) => addr[c] # addr[d]
  /\ \A r \in nat \cup peers : Owns(r[2]) /\ addr[r[2]] = r[1]
  /\ \A a \in dummy : \E c \in Conns : Owns(c) /\ addr[c] = a

\* A slot is marked used exactly when a live launch holds it: every slot
\* taken by take_next_addr is given back by relinquish_addr at the end of
\* the cleanup future, and none is given back early.
SlotOwnership ==
  \A a \in Slots : used[a] <=> \E c \in Conns : Holding(c) /\ addr[c] = a

\* Slot accounting the code keeps whatever fails: a slot is marked used
\* exactly when some launch owns it, live or dead after a panic.  No slot
\* is given back while its owner may still reach a kernel command.
SlotAccounted ==
  \A a \in Slots : used[a] <=> \E c \in Conns : Owns(c) /\ addr[c] = a

\* The kernel commands that Container::create and Container::shutdown wrap
\* in assert! never meet a state that makes them fail while the daemon
\* runs: ip addr add finds no address 10.4.2.a, iptables -D and ip addr
\* del find the rule and the address, and configure_peer does not take
\* the allowed ip 10.4.1.a away from another peer.
KernelCommandsSucceed ==
  Alive =>
    \A c \in Conns :
      /\ pc[c] = "addDummy" => addr[c] \notin dummy
      /\ pc[c] = "natDel" => <<addr[c], c>> \in nat
      /\ pc[c] = "addrDel" => addr[c] \in dummy
      /\ pc[c] = "spawnSup" /\ mode[c] = "guest" =>
           \A r \in peers : r[1] # addr[c]

\* A tenant's WireGuard traffic to 10.4.2.0 is DNATed only to its own
\* container: every DNAT rule whose source is the allowed ip 10.4.1.a of
\* a peer on wg42 was appended for that peer's launch.  iptables applies
\* the first matching rule, so a rule left from an earlier tenant of slot
\* a would win (spec section 4.E: a fresh tenant must not inherit a stale
\* rule).  Rules outlive the process; slots do not.
TenantIsolated ==
  \A p \in peers, r \in nat : p[1] = r[1] => p[2] = r[2]

\* A launch whose teardown has begun: the supervisor's select! has fired
\* and the peer (guest) or the container (demo) is being or has been
\* removed.
TearingDown(c) ==
  \/ pc[c] \in {"stop", "natDel", "addrDel", "release"}
  \/ pc[c] = "done" /\ mode[c] # "none"

\* The response is sent before the session is torn down (spec section 5:
\* peer-added, container-running, NAT-installed, response-sent are
\* strictly ordered and teardown reverses them).  The writer task of
\* main.rs:198-212 is spawned untracked after add_temp_peer / spawn_demo
\* and races the supervisor it has just started.
ResponseBeforeTeardown ==
  \A c \in Conns : TearingDown(c) => answer[c] # "pending"

\* Every session the supervisor is waiting on ends with its cleanup run to
\* completion, unless the process exits first: the TTL arm of the select!
\* guarantees this even when no signal arrives and the workload never exits.
SessionsEnd ==
  \A c \in Conns :
    pc[c] = "waiting" ~> (pc[c] = "done" \/ dstate = "exited")

\* Every container the daemon started is eventually stopped (or has
\* exited), unless the process exits first: Container::shutdown runs with
\* a 15-minute timeout because containers must not be left behind.
ContainersStopped ==
  \A c \in Conns :
    ctr[c] = "running" ~> (ctr[c] = "gone" \/ dstate = "exited")

\* Every request the archive sends is answered: start_container's
\* read_u8 (challd.rs:75), which has no timeout, gets a status byte or
\* end of file.  A task that panics drops the stream with it, and the
\* untracked response writer is either run or dropped at exit.
RequestsAnswered ==
  \A c \in Conns :
    pc[c] = "reading" ~> answer[c] \in {"ok", "err", "eof"}

\* Once SIGINT/SIGTERM has been received, the daemon exits: every tracked
\* task runs its teardown to the end and tracker.wait() returns.
ShutdownCompletes == dstate = "draining" ~> dstate = "exited"

=============================================================================
