---------------------------- MODULE BusClientCall ----------------------------
(***************************************************************************)
(* The command-line client's side of a method call to abrtd               *)
(* (src/src/CLI/dbus.cpp): a call_* wrapper builds the call, and           *)
(* send_get_reply_and_unref sends it and pops incoming messages until the  *)
(* reply to its serial arrives, printing the daemon's Update and Warning   *)
(* signals met on the way.                                                 *)
(*                                                                         *)
(* The connection is split as libdbus splits it: "wire" holds the messages *)
(* the bus has written to the client's socket and the client has not read  *)
(* yet, each with the number of socket reads ("chunks") still needed to    *)
(* complete it; "inq" is the connection's queue of complete messages that  *)
(* dbus_connection_pop_message takes from. The daemon and the bus are the  *)
(* environment: they emit signals while a call is pending, answer it with  *)
(* a method return or an error, send unrelated bus messages, or close the  *)
(* connection. Message contents are abstracted to a kind, the reply serial,*)
(* whether the arguments have the expected shape, and an id that orders    *)
(* them.                                                                   *)
(***************************************************************************)
EXTENDS Integers, Sequences, FiniteSets
LOCAL INSTANCE SequencesExt

CONSTANTS
  NCalls,      \* calls the client makes in one run, one after the other
  Budget,      \* the initial value of cnt (99 in the code)
  ReadMax,     \* chunks one dbus_connection_read_write reads at most
  SigSizes,    \* chunk counts an Update or Warning signal may take
  ReplySizes,  \* chunk counts a method return or error may take
  MaxSignals,  \* signals the daemon emits while one call is pending
  MaxOther,    \* unrelated bus messages (NameAcquired, ...) in a run
  ArgsOk,      \* whether a signal's arguments match the expected (string)
  ReturnOk     \* whether a return's values load as the wrapper expects

ASSUME /\ NCalls \in Nat \ {0} /\ Budget \in Nat \ {0} /\ ReadMax \in Nat \ {0}
       /\ SigSizes \subseteq Nat \ {0} /\ ReplySizes \subseteq Nat \ {0}
       /\ MaxSignals \in Nat /\ MaxOther \in Nat
       /\ ArgsOk \subseteq BOOLEAN /\ ReturnOk \subseteq BOOLEAN

(* "signal" is an Update or a Warning of ABRTD_DBUS_IFACE: the loop treats *)
(* both alike (printf or log of the string argument). "other" is any       *)
(* message the loop drops: bus signals, the local Disconnected signal.     *)
Kinds == {"signal", "return", "error", "other"}
Msgs == [kind: Kinds, rs: Nat, ok: BOOLEAN, id: Nat, left: Nat]

VARIABLES
  pc,        \* "send", "wait" (in the pop loop), "check" (load_val), "done", "dead"
  why,       \* the error_msg_and_die that ended the client, or "none"
  call,      \* the call being made, 1..NCalls
  serial,    \* the serial dbus_connection_send gave the last call
  cnt,       \* the pop loop's budget of empty pops
  connected, \* the client's bus connection is open
  wire,      \* sequence of messages sent to the client and not read yet
  inq,       \* the connection's queue of complete incoming messages
  pending,   \* serials of calls the daemon has received and not answered
  updates,   \* signals emitted for the pending call
  others,    \* unrelated bus messages sent so far
  nsent,     \* messages sent to the client so far; the next id
  sigIds,    \* ids of the signals sent to the client
  shown,     \* ids of the signals the client has printed or logged
  reply      \* the reply the pop loop returned last

vars == <<pc, why, call, serial, cnt, connected, wire, inq, pending,
          updates, others, nsent, sigIds, shown, reply>>

NoReply == [kind |-> "other", rs |-> 0, ok |-> TRUE, id |-> 0, left |-> 0]

Msg(k, rs, ok, size) == [kind |-> k, rs |-> rs, ok |-> ok, id |-> nsent + 1, left |-> size]

-----------------------------------------------------------------------------
(* One socket read of at most n chunks: complete messages move to the      *)
(* queue in order, a message left incomplete stays at the head of the wire.*)
RECURSIVE ReadChunks(_, _)
ReadChunks(w, n) ==
  IF n = 0 \/ w = <<>> THEN [rest |-> w, done |-> <<>>]
  ELSE IF Head(w).left <= n
       THEN LET r == ReadChunks(Tail(w), n - Head(w).left)
            IN [rest |-> r.rest, done |-> <<Head(w)>> \o r.done]
       ELSE [rest |-> <<[Head(w) EXCEPT !.left = @ - n]>> \o Tail(w), done |-> <<>>]

(* int cnt = 99: each call starts with a fresh budget.                     *)
CallBudget == Budget

(* Mutant: the reply to the serial taken ahead of the messages queued      *)
(* before it, as dbus_connection_send_with_reply_and_block does.          *)
PopIndexReplyFirst ==
  LET i == SelectInSeq(inq, LAMBDA m : m.kind = "return" /\ m.rs = serial)
  IN IF i = 0 THEN 1 ELSE i

(* dbus_connection_pop_message takes the oldest complete message.          *)
PopIndex == 1

(* Mutant: the countdown dropped.                                          *)
BudgetStepNone(c) == c

(* --cnt after each dbus_connection_read_write.                            *)
BudgetStep(c) == c - 1

(* Mutant: cnt-- == 0, testing the value before the decrement.             *)
ExhaustedPost(c) == c = 0

(* if (--cnt == 0): the read that takes the budget to zero is the last.    *)
Exhausted(c) == c - 1 = 0

Die(r) == pc' = "dead" /\ why' = r

-----------------------------------------------------------------------------
Init ==
  /\ pc = "send" /\ why = "none" /\ call = 1
  /\ serial = 1          \* the Hello call of dbus_bus_get
  /\ cnt = Budget
  /\ connected = TRUE
  /\ wire = <<>> /\ inq = <<>>
  /\ pending = {} /\ updates = 0 /\ others = 0 /\ nsent = 0
  /\ sigIds = {} /\ shown = {} /\ reply = NoReply

(* A call_* wrapper: new_call_msg, dbus_connection_send (which numbers the *)
(* message and, on a closed connection, drops it) and cnt = 99.           *)
Send ==
  /\ pc = "send"
  /\ serial' = serial + 1
  /\ pending' = IF connected THEN pending \cup {serial'} ELSE pending
  /\ cnt' = CallBudget
  /\ pc' = "wait"
  /\ UNCHANGED <<why, call, connected, wire, inq, updates, others, nsent,
                 sigIds, shown, reply>>

(* One turn of the loop that pops a message. Update/Warning with a string  *)
(* is shown, with other arguments kills the client; a method return to the *)
(* serial is returned, an error to it kills the client; the rest is        *)
(* unreferenced.                                                           *)
Pop ==
  /\ pc = "wait"
  /\ inq # <<>>
  /\ LET m == inq[PopIndex] IN
     /\ inq' = RemoveAt(inq, PopIndex)
     /\ \/ /\ m.kind = "signal" /\ m.ok
           /\ shown' = shown \cup {m.id}
           /\ UNCHANGED <<pc, why, reply>>
        \/ /\ m.kind = "signal" /\ ~m.ok
           /\ Die("args")
           /\ UNCHANGED <<shown, reply>>
        \/ /\ m.kind = "return" /\ m.rs = serial
           /\ pc' = "check" /\ reply' = m
           /\ UNCHANGED <<why, shown>>
        \/ /\ m.kind = "error" /\ m.rs = serial
           /\ Die("error")
           /\ UNCHANGED <<shown, reply>>
        \/ /\ m.kind \notin {"signal"}
           /\ ~(m.kind \in {"return", "error"} /\ m.rs = serial)
           /\ UNCHANGED <<pc, why, shown, reply>>
  /\ UNCHANGED <<call, serial, cnt, connected, wire, pending, updates, others,
                 nsent, sigIds>>

(* The queue is empty: dbus_connection_read_write(-1) blocks until bytes   *)
(* arrive or the connection is closed, reads, and --cnt == 0 dies with     *)
(* "dbus connection closed" whatever the read returned.                    *)
ReadWrite ==
  LET r == ReadChunks(wire, ReadMax) IN
  /\ pc = "wait"
  /\ inq = <<>>
  /\ wire # <<>> \/ ~connected
  /\ wire' = r.rest
  /\ inq' = r.done
  /\ cnt' = BudgetStep(cnt)
  /\ IF Exhausted(cnt) THEN Die("closed") ELSE UNCHANGED <<pc, why>>
  /\ UNCHANGED <<call, serial, connected, pending, updates, others, nsent,
                 sigIds, shown, reply>>

(* The wrapper's load_val: ABRT_DBUS_LAST_FIELD returns the result to the  *)
(* caller, anything else dies with "return type mismatch".                 *)
Check ==
  /\ pc = "check"
  /\ \/ /\ reply.ok /\ call < NCalls
        /\ pc' = "send" /\ call' = call + 1 /\ UNCHANGED why
     \/ /\ reply.ok /\ call = NCalls
        /\ pc' = "done" /\ UNCHANGED <<why, call>>
     \/ /\ ~reply.ok
        /\ Die("mismatch") /\ UNCHANGED call
  /\ UNCHANGED <<serial, cnt, connected, wire, inq, pending, updates,
                 others, nsent, sigIds, shown, reply>>

-----------------------------------------------------------------------------
(* The daemon, handling the pending call, sends an Update or Warning.      *)
Emit ==
  /\ connected /\ pending # {} /\ updates < MaxSignals
  /\ \E size \in SigSizes, ok \in ArgsOk :
       wire' = Append(wire, Msg("signal", 0, ok, size))
  /\ updates' = updates + 1 /\ nsent' = nsent + 1
  /\ sigIds' = sigIds \cup {nsent + 1}
  /\ UNCHANGED <<pc, why, call, serial, cnt, connected, inq, pending, others,
                 shown, reply>>

(* The daemon answers a pending call with a method return, or the bus     *)
(* with an error (no such name, or its reply timeout).                     *)
Answer ==
  /\ connected
  /\ \E s \in pending, size \in ReplySizes :
       /\ \/ \E ok \in ReturnOk : wire' = Append(wire, Msg("return", s, ok, size))
          \/ wire' = Append(wire, Msg("error", s, TRUE, size))
       /\ pending' = pending \ {s}
  /\ updates' = 0 /\ nsent' = nsent + 1
  /\ UNCHANGED <<pc, why, call, serial, cnt, connected, inq, others, sigIds,
                 shown, reply>>

(* The bus sends a message the loop does not look at (NameAcquired, ...). *)
BusMessage ==
  /\ connected /\ others < MaxOther
  /\ wire' = Append(wire, Msg("other", 0, TRUE, 1))
  /\ others' = others + 1 /\ nsent' = nsent + 1
  /\ UNCHANGED <<pc, why, call, serial, cnt, connected, inq, pending, updates,
                 sigIds, shown, reply>>

(* The bus connection closes: unread bytes are lost, libdbus queues its   *)
(* local Disconnected signal, and every later read returns at once.        *)
Disconnect ==
  /\ connected
  /\ connected' = FALSE
  /\ wire' = <<>>
  /\ inq' = Append(inq, Msg("other", 0, TRUE, 0))
  /\ pending' = {} /\ nsent' = nsent + 1
  /\ UNCHANGED <<pc, why, call, serial, cnt, updates, others, sigIds, shown,
                 reply>>

Client == Send \/ Pop \/ ReadWrite \/ Check

Next == Client \/ Emit \/ Answer \/ BusMessage \/ Disconnect

(* The client process always runs. Nothing makes the environment act: the *)
(* call goes out with dbus_connection_send and is waited for with         *)
(* read_write(-1), no timeout, so a live abrtd that never answers keeps   *)
(* the client blocked, and the model assumes no answer, signal or close.   *)
Spec == Init /\ [][Next]_vars /\ WF_vars(Client)

-----------------------------------------------------------------------------
(* Properties.                                                             *)

TypeOK ==
  /\ pc \in {"send", "wait", "check", "done", "dead"}
  /\ why \in {"none", "closed", "args", "error", "mismatch"}
  /\ call \in 1..NCalls /\ serial \in Nat /\ cnt \in 0..Budget
  /\ connected \in BOOLEAN
  /\ wire \in Seq(Msgs) /\ inq \in Seq(Msgs)
  /\ pending \subseteq Nat /\ updates \in 0..MaxSignals /\ others \in 0..MaxOther
  /\ nsent \in Nat /\ sigIds \subseteq 1..nsent /\ shown \subseteq sigIds
  /\ reply \in Msgs

(* The client reports "dbus connection closed" only when its connection   *)
(* is closed: the cnt budget of the pop loop (dbus.cpp:43-58) is meant for *)
(* reads on a dead connection, not for the reads of a live one.            *)
ClosedOnlyWhenDisconnected == why = "closed" => ~connected

(* When the pop loop returns a reply, every Update and Warning the daemon *)
(* sent before that reply has been shown to the user: the loop takes      *)
(* messages in arrival order rather than picking the reply out.            *)
SignalsShownBeforeReturn ==
  pc = "check" => \A i \in sigIds : i < reply.id => i \in shown

(* Once the bus connection is closed the client ends: it returns its last *)
(* result or dies. After a disconnect every read_write returns at once and *)
(* only the cnt countdown of dbus.cpp:56-58 leaves the pop loop.           *)
DisconnectedCallEnds == ~connected ~> (pc \in {"done", "dead"})
=============================================================================
