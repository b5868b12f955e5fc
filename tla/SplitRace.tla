---------------------------- MODULE SplitRace ----------------------------
(* One half of the split keyboard, statement by statement: the WiFi task    *)
(* runs the ROLE_NEGOTIATE handler of split_dispatch.c while split_task     *)
(* ticks (split_task.c).  The two share the session, the key and the        *)
(* routing without a lock; split_task has priority 5 and may run on either  *)
(* core, so that it can be preempted anywhere in the middle of a disconnect.*)
(* SplitLink takes each handler as one step; this module is about what that *)
(* abstraction leaves out.                                                  *)
EXTENDS Naturals, Sequences

CONSTANT Salts   \* the salts of the peer's incarnations (0: none)

Task == {"wifi", "split"}

VARIABLES
    mem,    \* the shared variables, see Init
    todo    \* [Task -> sequence of statements]: the rest of a task's handler

vars == <<mem, todo>>

\* A statement writes one shared variable, or goes on with on_role_negotiate.
Set(variable, value) == [do |-> "set", to |-> variable, value |-> value]
OnRoleNegotiate(salt) == [do |-> "negotiate", salt |-> salt]

\* split_task_handle_disconnect: failing and silent are what tick_connected
\* tests, too many decryption failures and 5 s without a frame of the peer.
HandleDisconnect ==
    <<Set("state", "DISCONNECTED"), Set("role", "NONE"), Set("failing", FALSE),
      Set("key", 0), Set("routing", "STANDALONE")>>

\* The rest of on_role_negotiate once the role is decided
Connect(salt, role) ==
    <<Set("key", salt), Set("failing", FALSE), Set("peerSalt", salt), Set("role", role),
      Set("state", "CONNECTED"), Set("silent", FALSE), Set("routing", role)>>

Init ==
    /\ mem = [state |-> "CONNECTING", role |-> "NONE", key |-> 0, peerSalt |-> 0,
              routing |-> "STANDALONE", failing |-> FALSE, silent |-> FALSE]
    /\ todo = [t \in Task |-> <<>>]

Idle(t) == todo[t] = <<>>
Begin(t, statements) == Idle(t) /\ todo' = [todo EXCEPT ![t] = statements]

\* split_dispatch_on_message and handle_role_negotiate_msg
ReceiveNegotiate(salt) ==
    /\ Begin("wifi",
             IF mem.state = "CONNECTED" /\ salt # mem.peerSalt
             THEN HandleDisconnect \o <<Set("state", "CONNECTING"), OnRoleNegotiate(salt)>>
             ELSE <<OnRoleNegotiate(salt)>>)
    /\ mem' = [mem EXCEPT !.silent = FALSE]

\* One iteration of split_task_main
Tick ==
    /\ \/ mem.state = "CONNECTED" /\ (mem.failing \/ mem.silent) /\ Begin("split", HandleDisconnect)
       \/ mem.state = "DISCONNECTED" /\ Begin("split", <<Set("state", "CONNECTING")>>)
    /\ UNCHANGED mem

\* A task executes its next statement; on_role_negotiate tests the state again
\* and only answers a peer it already knows.
Execute(t) ==
    /\ ~Idle(t)
    /\ LET next == Head(todo[t])
           rest == Tail(todo[t])
       IN  \/ /\ next.do = "set"
              /\ mem' = [mem EXCEPT ![next.to] = next.value]
              /\ todo' = [todo EXCEPT ![t] = rest]
           \/ /\ next.do = "negotiate" /\ mem.state = "CONNECTED" /\ next.salt = mem.peerSalt
              /\ todo' = [todo EXCEPT ![t] = <<Set("failing", FALSE)>>]
              /\ UNCHANGED mem
           \/ /\ next.do = "negotiate" /\ ~(mem.state = "CONNECTED" /\ next.salt = mem.peerSalt)
              /\ \E role \in {"MASTER", "SLAVE"} : todo' = [todo EXCEPT ![t] = Connect(next.salt, role)]
              /\ UNCHANGED mem

\* Frames fail to decrypt, or none comes for 5 s; no handler takes that long.
PeerFades ==
    /\ Idle("wifi")
    /\ \/ mem' = [mem EXCEPT !.failing = TRUE]
       \/ Idle("split") /\ mem' = [mem EXCEPT !.silent = TRUE]
    /\ UNCHANGED todo

Next ==
    \/ \E salt \in Salts : ReceiveNegotiate(salt)
    \/ Tick
    \/ \E t \in Task : Execute(t)
    \/ PeerFades

Spec == Init /\ [][Next]_vars

---------------------------------------------------------------------------
\* With both tasks between two handlers, a session that is up and has its key
\* routes the keys for the role the half has.  A connected half whose routing
\* stayed standalone is not repaired by anything: its frames are decrypted,
\* its heartbeats go on, and no timer looks at the routing.
LinkedRoutesForItsRole ==
    (\A t \in Task : Idle(t)) /\ mem.state = "CONNECTED" /\ mem.key # 0
        => mem.role # "NONE" /\ mem.routing = mem.role
===========================================================================
