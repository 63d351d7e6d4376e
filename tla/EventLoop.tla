------------------------------ MODULE EventLoop ------------------------------
(***************************************************************************)
(* The event loop, src/src/loop.c, and the part of src/src/lua/main.c and  *)
(* bind-timer.c that runs it.  The script and its callbacks, which call    *)
(* the loop_* functions in any order, are the environment on one side, and *)
(* libevent with the network behind it the environment on the other.       *)
(*                                                                         *)
(* Everything runs in one thread: a callback is entered from               *)
(* event_base_loop, makes any number of calls, and returns.                *)
(*                                                                         *)
(* A definition ...Mutant is a plausible mistake in the definition that    *)
(* follows it; no specification uses it (see README, "Mutants").           *)
(***************************************************************************)
EXTENDS Integers, FiniteSets

CONSTANTS
    Handles,           \* struct loop_sockhandle
    Timers,            \* struct loop_timer
    Listeners,         \* struct loop_listener
    MaxUsers           \* bound on base_dns_users

ASSUME FiniteAssumption == IsFiniteSet(Handles)
ASSUME BoundAssumption == MaxUsers \in Nat

VARIABLES
    pc,                \* where the one thread is
    sock,              \* the state of each socket
    has_dns,           \* h->has_dns
    base_dns,          \* base_dns != NULL
    base_dns_users,
    leaked,            \* uses of base_dns counted for sockets that are gone
    timer,             \* the state of each timer
    listening,         \* the open listeners
    watching,          \* is standard input watched?  (watcher != NULL)
    exiting            \* loop_exiting_early

dnsvars == <<base_dns, base_dns_users>>
sockvars == <<sock, has_dns, base_dns, base_dns_users, leaked>>
vars == <<pc, sock, has_dns, base_dns, base_dns_users, leaked, timer, listening,
          watching, exiting>>

InScript == pc \in {"script", "callback"}
Finished == pc \in {"done", "aborted"}

-----------------------------------------------------------------------------
(* evdns_refcount_increment and evdns_refcount_decrement *)
Increment ==
    /\ base_dns' = TRUE
    /\ base_dns_users' = base_dns_users + 1

FreedAtMutant(users) == base_dns
FreedAt(users) == users > 0
Decrement ==
    /\ base_dns_users' = base_dns_users - 1
    /\ base_dns' = FreedAt(base_dns_users - 1)

(* The first half of loop_sock_cb_event for a connection made or failed. *)
ReleaseMutant(h) == (IF has_dns[h] THEN Decrement ELSE UNCHANGED dnsvars) /\ UNCHANGED has_dns
Release(h) ==
    /\ IF has_dns[h] THEN Decrement ELSE UNCHANGED dnsvars
    /\ has_dns' = [has_dns EXCEPT ![h] = FALSE]

-----------------------------------------------------------------------------
(* What a script may call. *)

(***************************************************************************)
(* loop_tcp_connect: it succeeds, there is no bufferevent, or the          *)
(* connection cannot be started, when the handle is freed and the user of  *)
(* base_dns is still counted.                                              *)
(***************************************************************************)
Connect(h) ==
    /\ InScript
    /\ sock[h] = "none"
    /\ base_dns_users < MaxUsers
    /\ \/ /\ Increment
          /\ sock' = [sock EXCEPT ![h] = "connecting"]
          /\ has_dns' = [has_dns EXCEPT ![h] = TRUE]
          /\ UNCHANGED leaked
       \/ UNCHANGED sockvars
       \/ Increment /\ leaked' = leaked + 1 /\ UNCHANGED <<sock, has_dns>>
    /\ UNCHANGED <<pc, timer, listening, watching, exiting>>

(* loop_sock_close: the handle is freed, has_dns with it *)
Close(h) ==
    /\ InScript
    /\ sock[h] # "none"
    /\ sock' = [sock EXCEPT ![h] = "none"]
    /\ has_dns' = [has_dns EXCEPT ![h] = FALSE]
    /\ leaked' = IF has_dns[h] THEN leaked + 1 ELSE leaked
    /\ UNCHANGED <<pc, base_dns, base_dns_users, timer, listening, watching, exiting>>

(* loop_add_timer, by way of bind_a_timer *)
AddTimer(t) ==
    /\ InScript
    /\ timer[t] = "unused"
    /\ timer' = [timer EXCEPT ![t] = "pending"]
    /\ UNCHANGED <<pc, sockvars, listening, watching, exiting>>

(* loop_tcp_listen, when the port can be had, and loop_listener_close *)
Listen(l) ==
    /\ InScript
    /\ l \notin listening
    /\ listening' = listening \cup {l}
    /\ UNCHANGED <<pc, sockvars, timer, watching, exiting>>

StopListening(l) ==
    /\ InScript
    /\ l \in listening
    /\ listening' = listening \ {l}
    /\ UNCHANGED <<pc, sockvars, timer, watching, exiting>>

(* loop_exit_early *)
ExitEarly ==
    /\ InScript
    /\ exiting' = TRUE
    /\ UNCHANGED <<pc, sockvars, timer, listening, watching>>

-----------------------------------------------------------------------------
(* What event_base_loop may call. *)

Callback == pc = "poll" /\ pc' = "callback" /\ UNCHANGED <<exiting>>

(* loop_sock_cb_event with BEV_EVENT_CONNECTED *)
Connected(h) ==
    /\ Callback
    /\ sock[h] = "connecting"
    /\ sock' = [sock EXCEPT ![h] = "open"]
    /\ Release(h)
    /\ UNCHANGED <<leaked, timer, listening, watching>>

(* ... with BEV_EVENT_ERROR, when connecting or later *)
SocketError(h) ==
    /\ Callback
    /\ sock[h] \in {"connecting", "open"}
    /\ sock' = [sock EXCEPT ![h] = "ended"]
    /\ Release(h)
    /\ UNCHANGED <<leaked, timer, listening, watching>>

(* ... with BEV_EVENT_EOF *)
Eof(h) ==
    /\ Callback
    /\ sock[h] = "open"
    /\ sock' = [sock EXCEPT ![h] = "ended"]
    /\ UNCHANGED <<has_dns, base_dns, base_dns_users, leaked, timer, listening, watching>>

(* loop_sock_cb_read *)
Readable(h) ==
    /\ Callback
    /\ sock[h] = "open"
    /\ UNCHANGED <<sockvars, timer, listening, watching>>

(* loop_timeout_cb frees the timer before it calls back. *)
TimeoutMutant(t) ==
    /\ Callback
    /\ timer[t] = "pending"
    /\ UNCHANGED <<sockvars, timer, listening, watching>>
Timeout(t) ==
    /\ Callback
    /\ timer[t] = "pending"
    /\ timer' = [timer EXCEPT ![t] = "fired"]
    /\ UNCHANGED <<sockvars, listening, watching>>

(***************************************************************************)
(* loop_accept_conn: the handler of the script takes the connection, or    *)
(* refuses it and it is closed.  A connection for which no bufferevent can *)
(* be made leaves the loop as a refused one does: no socket, no event.     *)
(***************************************************************************)
Accept(l, h) ==
    /\ Callback
    /\ l \in listening
    /\ sock[h] = "none"
    /\ \/ sock' = [sock EXCEPT ![h] = "open"]
       \/ UNCHANGED sock
    /\ UNCHANGED <<has_dns, base_dns, base_dns_users, leaked, timer, listening, watching>>

(* loop_accept_err: assert(0) *)
AcceptError ==
    /\ pc = "poll"
    /\ listening # {}
    /\ pc' = "aborted"
    /\ UNCHANGED <<sockvars, timer, listening, watching, exiting>>

(* loop_watch_fd_cb: a line, or the end, of standard input; got_line then *)
(* calls loop_stop_watching.                                              *)
InputReady ==
    /\ Callback
    /\ watching
    /\ watching' \in BOOLEAN
    /\ UNCHANGED <<sockvars, timer, listening>>

-----------------------------------------------------------------------------
(* The thread. *)

(* What keeps event_base_loop from returning 1; base_dns is one of them. *)
HasEvents ==
    \/ \E h \in Handles : sock[h] \in {"connecting", "open"}
    \/ \E t \in Timers : timer[t] = "pending"
    \/ listening # {}
    \/ watching
    \/ base_dns

(* The head of the loop in loop_until_done. *)
LoopHeadMutant == pc' = "poll" /\ UNCHANGED exiting
LoopHead ==
    IF exiting THEN pc' = "done" /\ exiting' = FALSE
    ELSE pc' = "poll" /\ UNCHANGED exiting

(* main has run the scripts, and starts the interactive loop or not *)
StartLoop ==
    /\ pc = "script"
    /\ LoopHead
    /\ watching' \in BOOLEAN
    /\ UNCHANGED <<sockvars, timer, listening>>

(***************************************************************************)
(* A callback returns.  event_base_loop goes on to the next active event,  *)
(* unless loop_exit_early told it to break, or returns 0.                  *)
(***************************************************************************)
CallbackReturns ==
    /\ pc = "callback"
    /\ pc' \in IF exiting THEN {"whenever"} ELSE {"poll", "whenever"}
    /\ UNCHANGED <<sockvars, timer, listening, watching, exiting>>

(* A callback raises a Lua error, which main catches around runloop. *)
CallbackRaises ==
    /\ pc = "callback"
    /\ pc' = "done"
    /\ UNCHANGED <<sockvars, timer, listening, watching, exiting>>

(* The whenever_fns, of which gc_loop_fn is the only one. *)
Whenever ==
    /\ pc = "whenever"
    /\ LoopHead
    /\ UNCHANGED <<sockvars, timer, listening, watching>>

(* event_base_loop returns 1 *)
NoEvents ==
    /\ pc = "poll"
    /\ ~HasEvents
    /\ pc' = "done"
    /\ exiting' = FALSE
    /\ UNCHANGED <<sockvars, timer, listening, watching>>

(* event_base_loop returns -1 *)
LoopError ==
    /\ pc = "poll"
    /\ pc' = "done"
    /\ exiting' = FALSE
    /\ UNCHANGED <<sockvars, timer, listening, watching>>

-----------------------------------------------------------------------------
(* loop_setup *)
Init ==
    /\ pc = "script"
    /\ sock = [h \in Handles |-> "none"]
    /\ has_dns = [h \in Handles |-> FALSE]
    /\ base_dns = FALSE
    /\ base_dns_users = 0
    /\ leaked = 0
    /\ timer = [t \in Timers |-> "unused"]
    /\ listening = {}
    /\ watching = FALSE
    /\ exiting = FALSE

Calls ==
    \/ \E h \in Handles : Connect(h) \/ Close(h)
    \/ \E t \in Timers : AddTimer(t)
    \/ \E l \in Listeners : Listen(l) \/ StopListening(l)
    \/ ExitEarly

Events ==
    \/ \E h \in Handles : Connected(h) \/ SocketError(h) \/ Eof(h) \/ Readable(h)
    \/ \E t \in Timers : Timeout(t)
    \/ \E l \in Listeners, h \in Handles : Accept(l, h)
    \/ AcceptError
    \/ InputReady

Thread ==
    StartLoop \/ CallbackReturns \/ CallbackRaises \/ Whenever \/ NoEvents \/ LoopError

Next == Calls \/ Events \/ Thread

(***************************************************************************)
(* Scripts and callbacks return, and the code of the loop runs on.         *)
(* event_base_loop looks at its timers in every iteration, so that one     *)
(* that is due is not overtaken for ever; resolving and connecting end, if *)
(* only by the timeouts of evdns and of TCP.  Nothing is assumed of data,  *)
(* ends of streams and incoming connections.                               *)
(***************************************************************************)
Fairness ==
    /\ WF_vars(StartLoop)
    /\ WF_vars(CallbackReturns)
    /\ WF_vars(Whenever)
    /\ WF_vars(NoEvents)
    /\ \A t \in Timers : SF_vars(Timeout(t))
    /\ \A h \in Handles :
          SF_vars(sock[h] = "connecting" /\ (Connected(h) \/ SocketError(h)))

Spec == Init /\ [][Next]_vars /\ Fairness

-----------------------------------------------------------------------------
(* Properties. *)

TypeOK ==
    /\ pc \in {"script", "poll", "callback", "whenever", "done", "aborted"}
    /\ sock \in [Handles -> {"none", "connecting", "open", "ended"}]
    /\ has_dns \in [Handles -> BOOLEAN]
    /\ base_dns \in BOOLEAN
    /\ base_dns_users \in 0 .. MaxUsers
    /\ leaked \in Nat
    /\ timer \in [Timers -> {"unused", "pending", "fired"}]
    /\ listening \subseteq Listeners
    /\ watching \in BOOLEAN
    /\ exiting \in BOOLEAN

Resolving == {h \in Handles : has_dns[h]}

(***************************************************************************)
(* The evdns_base outlives every socket that may still be resolving, and   *)
(* the assertions of evdns_refcount_increment and _decrement hold, in      *)
(* whatever order sockets connect, fail, are closed and their handles used *)
(* again.                                                                  *)
(***************************************************************************)
DnsWhileResolving ==
    /\ base_dns = (base_dns_users > 0)
    /\ Cardinality(Resolving) <= base_dns_users
    /\ Resolving = {h \in Handles : sock[h] = "connecting"}

(***************************************************************************)
(* The users counted are the sockets that are connecting, each of them     *)
(* once, and those that were closed before or could not be started: these  *)
(* stay counted for ever, which this does not forbid, only that there are  *)
(* others (see README, "Where code and words disagree").                   *)
(***************************************************************************)
DnsIsCounted == base_dns_users = Cardinality(Resolving) + leaked

(***************************************************************************)
(* loop_until_done returns when the script has left nothing to wait for:   *)
(* the evdns_base, which would keep event_base_loop waiting, is gone.      *)
(* This is so unless a socket was closed while it was connecting, or could *)
(* not be started: its use of the evdns_base stays, and the loop does not  *)
(* return, against the comment above evdns_refcount_increment.             *)
(***************************************************************************)
NothingToDo ==
    /\ pc = "poll"
    /\ \A h \in Handles : sock[h] \in {"none", "ended"}
    /\ \A t \in Timers : timer[t] # "pending"
    /\ listening = {}
    /\ ~watching
IdleLoopReturns == NothingToDo /\ leaked = 0 ~> Finished

(* A timer fires, whatever else goes on, unless the loop is left. *)
TimersFire == \A t \in Timers : timer[t] = "pending" ~> timer[t] = "fired" \/ Finished

(* druid.stop_loop stops the loop, whatever is still open. *)
ExitIsObeyed == exiting ~> Finished
=============================================================================
