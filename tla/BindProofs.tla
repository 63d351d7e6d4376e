----------------------------- MODULE BindProofs -----------------------------
(***************************************************************************)
(* Proofs about what scripts have: EventLoop, BindSocket, which extends    *)
(* it, and BindBdevs.                                                      *)
(*                                                                         *)
(* For every set of sockets, timers and listeners, and whatever fails, the *)
(* reference count of the evdns_base in src/src/loop.c is exact: it counts *)
(* the sockets that are connecting, and what loop_sock_close leaves behind.*)
(* Whatever the bindings of sockets and listeners do, they do to the event *)
(* loop what a script may do: what is proved of EventLoop holds of it.     *)
(* Until a mishap, the references of the sockets and listeners lead to     *)
(* their own objects, but for sockets closed in their own handler.         *)
(*                                                                         *)
(* StackIsOpen holds of any number of devices.  While the program runs, a  *)
(* device is condemned only when no open device has a reference to it, and *)
(* a condemned device is in no variable, so none is stacked on it later.   *)
(* At the end the order of the finalizers takes the place of the           *)
(* references: a layer is younger than what it is stacked on.              *)
(***************************************************************************)
EXTENDS BindSocket, BindBdevs, FiniteSetTheorems, TLAPS

(* The sets of sockets that are connecting can be counted. *)
LEMMA CountResolving ==
    ASSUME NEW S \in SUBSET Handles
    PROVE  /\ IsFiniteSet(S) /\ Cardinality(S) \in Nat
           /\ \A h \in S : Cardinality(S \ {h}) = Cardinality(S) - 1
           /\ \A h \in S : Cardinality(S) > 0
           /\ \A h \in Handles \ S : Cardinality(S \cup {h}) = Cardinality(S) + 1
           /\ \A h : Cardinality(S \ {h}) <= Cardinality(S)
<1>1. IsFiniteSet(S) /\ Cardinality(S) \in Nat
  BY FiniteAssumption, FS_Subset, FS_CardinalityType
<1>2. \A h \in S : Cardinality(S \ {h}) = Cardinality(S) - 1
  BY <1>1, FS_RemoveElement
<1>3. \A h \in S : Cardinality(S) > 0
  <2>1. S # {} => Cardinality(S) # 0
    BY <1>1, FS_EmptySet
  <2> QED BY <1>1, <2>1
<1>4. \A h \in Handles \ S : Cardinality(S \cup {h}) = Cardinality(S) + 1
  BY <1>1, FS_AddElement
<1>5. \A h : Cardinality(S \ {h}) <= Cardinality(S)
  <2> TAKE h
  <2>1. CASE h \in S  BY <2>1, <1>1, <1>2
  <2>2. CASE h \notin S
    <3>1. S \ {h} = S  BY <2>2
    <3> QED BY <3>1, <1>1
  <2> QED BY <2>1, <2>2
<1> QED BY <1>1, <1>2, <1>3, <1>4, <1>5

LoopInv == TypeOK /\ DnsWhileResolving /\ DnsIsCounted

(* loop_setup establishes the invariant. *)
LEMMA InitLoopInv == Init => LoopInv
<1> SUFFICES ASSUME Init PROVE LoopInv
  OBVIOUS
<1>1. TypeOK
  <2>1. 0 \in 0 .. MaxUsers
    BY BoundAssumption
  <2>2. /\ sock \in [Handles -> {"none", "connecting", "open", "ended"}]
        /\ has_dns \in [Handles -> BOOLEAN]
        /\ timer \in [Timers -> {"unused", "pending", "fired"}]
    BY DEF Init
  <2> QED BY <2>1, <2>2 DEF Init, TypeOK
<1>2. Resolving = {}
  BY DEF Init, Resolving
<1>3. Cardinality(Resolving) = 0
  BY <1>2, FS_EmptySet
<1>4. {h \in Handles : sock[h] = "connecting"} = {}
  BY DEF Init
<1>5. base_dns_users = 0 /\ leaked = 0 /\ base_dns = FALSE /\ 0 <= 0 /\ ~(0 > 0)
  BY DEF Init
<1>6. DnsWhileResolving
  <2>1. (base_dns_users > 0) = FALSE
    BY <1>5
  <2>2. base_dns = (base_dns_users > 0)
    BY <1>5, <2>1
  <2>3. Cardinality(Resolving) <= base_dns_users
    BY <1>3, <1>5
  <2>4. Resolving = {h \in Handles : sock[h] = "connecting"}
    BY <1>2, <1>4
  <2> QED BY <2>2, <2>3, <2>4 DEF DnsWhileResolving
<1>7. DnsIsCounted
  BY <1>3, <1>5 DEF DnsIsCounted
<1> QED BY <1>1, <1>6, <1>7 DEF LoopInv

(* A call or an event that leaves the sockets and the count alone. *)
LEMMA QuietStep ==
    ASSUME LoopInv, UNCHANGED sockvars
    PROVE  DnsWhileResolving' /\ DnsIsCounted'
BY DEF LoopInv, DnsWhileResolving, DnsIsCounted, Resolving, sockvars

(* loop_sock_cb_event gives back the use of the evdns_base exactly once. *)
LEMMA ReleaseStep ==
    ASSUME LoopInv, NEW h \in Handles, Release(h),
           NEW to \in {"open", "ended"}, sock' = [sock EXCEPT ![h] = to],
           UNCHANGED leaked
    PROVE  /\ DnsWhileResolving' /\ DnsIsCounted'
           /\ base_dns_users' \in 0 .. MaxUsers /\ base_dns' \in BOOLEAN
           /\ has_dns' \in [Handles -> BOOLEAN]
<1>1. /\ Resolving' = Resolving \ {h}
      /\ Resolving' = {g \in Handles : sock'[g] = "connecting"}
      /\ has_dns' \in [Handles -> BOOLEAN]
  BY DEF LoopInv, TypeOK, DnsWhileResolving, Release, Resolving
<1>2. Resolving \in SUBSET Handles
  BY DEF Resolving
<1>3. /\ base_dns_users \in 0 .. MaxUsers /\ base_dns = (base_dns_users > 0)
      /\ Cardinality(Resolving) <= base_dns_users /\ base_dns \in BOOLEAN
      /\ base_dns_users = Cardinality(Resolving) + leaked /\ leaked \in Nat
  BY DEF LoopInv, TypeOK, DnsWhileResolving, DnsIsCounted
<1>4. CASE has_dns[h]
  <2>1. h \in Resolving
    BY <1>4 DEF Resolving
  <2>2. /\ Cardinality(Resolving') = Cardinality(Resolving) - 1
        /\ Cardinality(Resolving) > 0 /\ Cardinality(Resolving) \in Nat
    BY <1>1, <1>2, <2>1, CountResolving
  <2>3. base_dns_users' = base_dns_users - 1 /\ base_dns' = (base_dns_users - 1 > 0)
    BY <1>4 DEF Release, Decrement, FreedAt
  <2>4. base_dns_users' \in 0 .. MaxUsers /\ Cardinality(Resolving') <= base_dns_users'
    BY <1>3, <2>2, <2>3, BoundAssumption
  <2>5. base_dns' = (base_dns_users' > 0) /\ base_dns' \in BOOLEAN
    BY <2>3
  <2>6. DnsIsCounted'
    BY <1>3, <2>2, <2>3 DEF DnsIsCounted
  <2> QED BY <1>1, <2>4, <2>5, <2>6 DEF DnsWhileResolving
<1>5. CASE ~has_dns[h]
  <2>1. Resolving' = Resolving
    BY <1>1, <1>5 DEF Resolving
  <2>2. UNCHANGED <<base_dns, base_dns_users>>
    BY <1>5 DEF Release, dnsvars
  <2> QED BY <1>1, <1>3, <2>1, <2>2 DEF DnsWhileResolving, DnsIsCounted
<1> QED BY <1>4, <1>5

(* Every step of the loop preserves the invariant. *)
LEMMA NextLoopInv == LoopInv /\ [Next]_vars => LoopInv'
<1> SUFFICES ASSUME LoopInv, [Next]_vars PROVE LoopInv'
  OBVIOUS
<1>1. TypeOK /\ DnsWhileResolving /\ DnsIsCounted
  BY DEF LoopInv
<1>2. CASE UNCHANGED vars
  <2>1. TypeOK'
    BY <1>1, <1>2 DEF TypeOK, vars
  <2>2. DnsWhileResolving' /\ DnsIsCounted'
    BY <1>2, QuietStep DEF vars, sockvars
  <2> QED BY <2>1, <2>2 DEF LoopInv
<1>3. ASSUME NEW h \in Handles, Connect(h)
      PROVE  LoopInv'
  <2>1. Resolving \in SUBSET Handles /\ h \notin Resolving
    BY <1>1, <1>3 DEF Resolving, DnsWhileResolving, Connect
  <2>2. /\ base_dns_users \in 0 .. MaxUsers /\ base_dns_users < MaxUsers
        /\ Cardinality(Resolving) <= base_dns_users /\ Cardinality(Resolving) \in Nat
        /\ Cardinality(Resolving \cup {h}) = Cardinality(Resolving) + 1
        /\ base_dns_users = Cardinality(Resolving) + leaked /\ leaked \in Nat
    BY <1>1, <1>3, <2>1, CountResolving
       DEF TypeOK, DnsWhileResolving, DnsIsCounted, Connect
  <2>3. CASE Increment /\ sock' = [sock EXCEPT ![h] = "connecting"]
                       /\ has_dns' = [has_dns EXCEPT ![h] = TRUE]
                       /\ UNCHANGED leaked
    <3>1. /\ Resolving' = Resolving \cup {h}
          /\ Resolving' = {g \in Handles : sock'[g] = "connecting"}
      BY <1>1, <2>3 DEF TypeOK, DnsWhileResolving, Resolving
    <3>2. /\ base_dns_users' = base_dns_users + 1 /\ base_dns' = TRUE
          /\ base_dns_users' \in 0 .. MaxUsers /\ base_dns_users' > 0
          /\ Cardinality(Resolving') <= base_dns_users'
      BY <2>2, <2>3, <3>1, BoundAssumption DEF Increment
    <3>3. DnsWhileResolving'
      BY <3>1, <3>2 DEF DnsWhileResolving
    <3>4. TypeOK'
      BY <1>1, <1>3, <2>3, <3>2 DEF TypeOK, Connect
    <3>5. DnsIsCounted'
      BY <2>2, <2>3, <3>1, <3>2 DEF DnsIsCounted
    <3> QED BY <3>3, <3>4, <3>5 DEF LoopInv
  <2>4. CASE UNCHANGED sockvars
    <3>1. TypeOK'
      BY <1>1, <1>3, <2>4 DEF TypeOK, Connect, sockvars
    <3> QED BY <2>4, <3>1, QuietStep DEF LoopInv
  <2>5. CASE Increment /\ leaked' = leaked + 1 /\ UNCHANGED <<sock, has_dns>>
    <3>1. Resolving' = Resolving
      BY <2>5 DEF Resolving
    <3>2. /\ base_dns_users' = base_dns_users + 1 /\ base_dns' = TRUE
          /\ base_dns_users' \in 0 .. MaxUsers /\ base_dns_users' > 0
          /\ Cardinality(Resolving') <= base_dns_users'
      BY <2>2, <2>5, <3>1, BoundAssumption DEF Increment
    <3>3. DnsWhileResolving'
      BY <1>1, <2>5, <3>1, <3>2 DEF DnsWhileResolving
    <3>4. TypeOK'
      BY <1>1, <1>3, <2>5, <3>2 DEF TypeOK, Connect
    <3>5. DnsIsCounted'
      BY <2>2, <2>5, <3>1, <3>2 DEF DnsIsCounted
    <3> QED BY <3>3, <3>4, <3>5 DEF LoopInv
  <2> QED BY <1>3, <2>3, <2>4, <2>5 DEF Connect
<1>4. ASSUME NEW h \in Handles, Close(h)
      PROVE  LoopInv'
  <2>1. TypeOK'
    BY <1>1, <1>4 DEF TypeOK, Close
  <2>2. /\ Resolving' = Resolving \ {h}
        /\ Resolving' = {g \in Handles : sock'[g] = "connecting"}
    BY <1>1, <1>4 DEF TypeOK, DnsWhileResolving, Resolving, Close
  <2>3. Resolving \in SUBSET Handles
    BY DEF Resolving
  <2>4. /\ Cardinality(Resolving') <= Cardinality(Resolving)
        /\ Cardinality(Resolving) \in Nat /\ Cardinality(Resolving') \in Nat
    BY <2>2, <2>3, CountResolving
  <2>5. UNCHANGED <<base_dns, base_dns_users>>
    BY <1>4 DEF Close
  <2>6. base_dns_users \in Nat
    BY <1>1, BoundAssumption DEF TypeOK
  <2>7. Cardinality(Resolving') <= base_dns_users'
    BY <1>1, <2>4, <2>5, <2>6 DEF DnsWhileResolving
  <2>8. DnsWhileResolving'
    BY <1>1, <2>2, <2>5, <2>7 DEF DnsWhileResolving
  <2>9. DnsIsCounted'
    <3>1. base_dns_users = Cardinality(Resolving) + leaked /\ leaked \in Nat
      BY <1>1 DEF DnsIsCounted, TypeOK
    <3>2. CASE has_dns[h]
      <4>1. Cardinality(Resolving') = Cardinality(Resolving) - 1
        BY <2>2, <2>3, <3>2, CountResolving DEF Resolving
      <4>2. leaked' = leaked + 1
        BY <1>4, <3>2 DEF Close
      <4> QED BY <2>4, <2>5, <3>1, <4>1, <4>2 DEF DnsIsCounted
    <3>3. CASE ~has_dns[h]
      <4>1. Resolving' = Resolving
        BY <2>2, <3>3 DEF Resolving
      <4>2. leaked' = leaked
        BY <1>4, <3>3 DEF Close
      <4> QED BY <2>5, <3>1, <4>1, <4>2 DEF DnsIsCounted
    <3> QED BY <3>2, <3>3
  <2> QED BY <2>1, <2>8, <2>9 DEF LoopInv
<1>5. ASSUME NEW h \in Handles, Connected(h) \/ SocketError(h)
      PROVE  LoopInv'
  <2>1. PICK to \in {"open", "ended"} :
            Release(h) /\ sock' = [sock EXCEPT ![h] = to] /\ UNCHANGED leaked
    BY <1>5 DEF Connected, SocketError
  <2>2. /\ DnsWhileResolving' /\ DnsIsCounted'
        /\ base_dns_users' \in 0 .. MaxUsers /\ base_dns' \in BOOLEAN
        /\ has_dns' \in [Handles -> BOOLEAN]
    BY <2>1, ReleaseStep
  <2>3. TypeOK'
    BY <1>1, <1>5, <2>1, <2>2 DEF TypeOK, Connected, SocketError, Callback
  <2> QED BY <2>2, <2>3 DEF LoopInv
<1>6. ASSUME NEW h \in Handles, Eof(h)
      PROVE  LoopInv'
  <2>1. TypeOK'
    BY <1>1, <1>6 DEF TypeOK, Eof, Callback
  <2>2. {g \in Handles : sock'[g] = "connecting"} = {g \in Handles : sock[g] = "connecting"}
    BY <1>1, <1>6 DEF TypeOK, Eof
  <2>3. DnsWhileResolving' /\ DnsIsCounted'
    BY <1>1, <1>6, <2>2 DEF DnsWhileResolving, DnsIsCounted, Resolving, Eof
  <2> QED BY <2>1, <2>3 DEF LoopInv
<1>7. ASSUME NEW l \in Listeners, NEW h \in Handles, Accept(l, h)
      PROVE  LoopInv'
  <2>1. TypeOK'
    BY <1>1, <1>7 DEF TypeOK, Accept, Callback
  <2>2. {g \in Handles : sock'[g] = "connecting"} = {g \in Handles : sock[g] = "connecting"}
    BY <1>1, <1>7 DEF TypeOK, Accept
  <2>3. DnsWhileResolving' /\ DnsIsCounted'
    BY <1>1, <1>7, <2>2 DEF DnsWhileResolving, DnsIsCounted, Resolving, Accept
  <2> QED BY <2>1, <2>3 DEF LoopInv
<1>8. CASE \/ \E t \in Timers : AddTimer(t) \/ Timeout(t)
           \/ \E l \in Listeners : Listen(l) \/ StopListening(l)
           \/ \E h \in Handles : Readable(h)
           \/ ExitEarly \/ AcceptError \/ InputReady
  <2>1. TypeOK'
    BY <1>1, <1>8 DEF TypeOK, AddTimer, Timeout, Listen, StopListening, Readable,
       ExitEarly, AcceptError, InputReady, Callback, sockvars
  <2>2. UNCHANGED sockvars
    BY <1>8 DEF AddTimer, Timeout, Listen, StopListening, Readable,
       ExitEarly, AcceptError, InputReady
  <2> QED BY <2>1, <2>2, QuietStep DEF LoopInv
<1>9. CASE Thread
  <2>1. TypeOK'
    BY <1>1, <1>9 DEF TypeOK, Thread, StartLoop, CallbackReturns, CallbackRaises,
       Whenever, NoEvents, LoopError, LoopHead, sockvars
  <2>2. UNCHANGED sockvars
    BY <1>9 DEF Thread, StartLoop, CallbackReturns, CallbackRaises,
       Whenever, NoEvents, LoopError
  <2> QED BY <2>1, <2>2, QuietStep DEF LoopInv
<1> QED BY <1>2, <1>3, <1>4, <1>5, <1>6, <1>7, <1>8, <1>9 DEF Next, Calls, Events

(***************************************************************************)
(* No socket resolves a name with an evdns_base that was freed, and no     *)
(* assertion of the reference count fails: for any number of sockets, with *)
(* sockets closed while connecting and connections that cannot be started. *)
(***************************************************************************)
THEOREM LoopDnsWhileResolving == Spec => []DnsWhileResolving
<1>1. LoopInv => DnsWhileResolving
  BY DEF LoopInv
<1> QED BY <1>1, InitLoopInv, NextLoopInv, PTL DEF Spec

(***************************************************************************)
(* The reference count is exact: every use is that of one socket that is   *)
(* connecting, or was left behind by loop_sock_close or loop_tcp_connect.  *)
(***************************************************************************)
THEOREM LoopDnsIsCounted == Spec => []DnsIsCounted
<1>1. LoopInv => DnsIsCounted
  BY DEF LoopInv
<1> QED BY <1>1, InitLoopInv, NextLoopInv, PTL DEF Spec

(* Every variable of the loop keeps its type. *)
THEOREM LoopTypeOK == Spec => []TypeOK
<1>1. LoopInv => TypeOK
  BY DEF LoopInv
<1> QED BY <1>1, InitLoopInv, NextLoopInv, PTL DEF Spec

-----------------------------------------------------------------------------
(* The bindings. *)

LEMMA GcIsLoopStep ==
    ASSUME NEW s \in Handles, SockGc(s) PROVE [Next]_vars
BY DEF SockGc, CloseOpen, CloseUnopened, CloseDangling, Next, Calls

(* Every step of the bindings is a step of the loop or leaves it alone. *)
LEMMA BindStepIsLoopStep ==
    ASSUME server \subseteq Handles, setups \in Seq(Handles), BindNext PROVE [Next]_vars
<1>1. CASE BindCalls
  <2>1. ASSUME NEW s \in Handles, TcpConnect(s) PROVE [Next]_vars
    BY <2>1 DEF TcpConnect
  <2>2. ASSUME NEW s \in Handles, SockClose(s) PROVE [Next]_vars
    BY <2>2, GcIsLoopStep DEF SockClose
  <2>3. ASSUME NEW s \in Handles, SockWrite(s) PROVE [Next]_vars
    BY <2>3 DEF SockWrite
  <2>4. ASSUME NEW l \in Listeners, TcpListen(l) PROVE [Next]_vars
    BY <2>4 DEF TcpListen, Next, Calls
  <2>5. ASSUME NEW l \in Listeners, ListenerStop(l) PROVE [Next]_vars
    BY <2>5 DEF ListenerStop, Next, Calls
  <2>6. ASSUME NEW o \in Others, OtherRef(o) PROVE [Next]_vars
    BY <2>6 DEF OtherRef
  <2> QED
    BY <1>1, <2>1, <2>2, <2>3, <2>4, <2>5, <2>6 DEF BindCalls
<1>2. CASE BindEvents
  <2>1. ASSUME NEW s \in Handles, ConnectCb(s) \/ ErrorCb(s) \/ ReadCb(s) PROVE [Next]_vars
    BY <2>1 DEF ConnectCb, ErrorCb, ReadCb, Next, Events
  <2>2. ASSUME NEW l \in Listeners, NEW s \in Handles, AcceptCb(l, s) PROVE [Next]_vars
    BY <2>2 DEF AcceptCb, Next, Events
  <2> QED
    BY <1>2, <2>1, <2>2 DEF BindEvents
<1>3. CASE Returns
  <2>1. CASE HandlerReturns \/ ReadReturns \/ ConnectReturns
    BY <2>1 DEF HandlerReturns, ReadReturns, ConnectReturns
  <2>2. CASE ErrorReturns
    <3> DEFINE v == slots[refs[frame.sock]["sd"]]
    <3>1. CASE SockGc(v[2]) /\ v[2] \in server
      BY <3>1, GcIsLoopStep
    <3>2. CASE CallbackRaises
      BY <3>2 DEF Next, Thread
    <3> QED
      BY <2>2, <3>1, <3>2 DEF ErrorReturns
  <2>3. CASE TcpConnectReturns
    <3>1. setups[Len(setups)] \in Handles
      BY <2>3 DEF TcpConnectReturns
    <3> QED
      BY <2>3, <3>1 DEF TcpConnectReturns, Next, Calls
  <2> QED
    BY <1>3, <2>1, <2>2, <2>3 DEF Returns
<1>4. CASE ScriptRaises
  BY <1>4 DEF ScriptRaises, Next, Thread
<1>5. CASE LoopRuns
  BY <1>5 DEF LoopRuns, Next, Thread
<1> QED
  BY <1>1, <1>2, <1>3, <1>4, <1>5 DEF BindNext

(* The first m elements of a sequence *)
LEMMA SubSeqFacts ==
    ASSUME NEW S, NEW q \in Seq(S), NEW m \in 0 .. Len(q)
    PROVE  /\ SubSeq(q, 1, m) \in Seq(S) /\ Len(SubSeq(q, 1, m)) = m
           /\ \A i \in 1 .. m : SubSeq(q, 1, m)[i] = q[i]
OBVIOUS

(* Only accepted sockets have the metatable, and only sockets are set up. *)
LEMMA ServersAreHandles ==
    ASSUME server \subseteq Handles, setups \in Seq(Handles), BindNext
    PROVE  server' \subseteq Handles /\ setups' \in Seq(Handles)
<1>1. CASE BindCalls
  <2>1. CASE \E s \in Handles : TcpConnect(s)
    <3>1. PICK s \in Handles : setups' = Append(setups, s) /\ server' = server
      BY <2>1 DEF TcpConnect
    <3>2. Append(setups, s) \in Seq(Handles)
      OBVIOUS
    <3> QED BY <3>1, <3>2
  <2>2. CASE \E s \in Handles : SockClose(s) \/ SockWrite(s)
    BY <2>2 DEF SockClose, SockWrite
  <2>3. CASE \E l \in Listeners : TcpListen(l) \/ ListenerStop(l)
    BY <2>3 DEF TcpListen, ListenerStop
  <2>4. CASE \E o \in Others : OtherRef(o)
    BY <2>4 DEF OtherRef
  <2> QED BY <1>1, <2>1, <2>2, <2>3, <2>4 DEF BindCalls
<1>2. CASE BindEvents
  BY <1>2 DEF BindEvents, ConnectCb, ErrorCb, ReadCb, AcceptCb
<1>3. CASE Returns
  <2>1. CASE TcpConnectReturns
    <3>1. setups # <<>> /\ Len(setups) - 1 \in 0 .. Len(setups)
      BY <2>1 DEF TcpConnectReturns
    <3>2. SubSeq(setups, 1, Len(setups) - 1) \in Seq(Handles)
      BY <3>1, SubSeqFacts
    <3> QED BY <2>1, <3>2 DEF TcpConnectReturns
  <2>2. CASE HandlerReturns \/ ReadReturns \/ ConnectReturns \/ ErrorReturns
    BY <2>2 DEF HandlerReturns, ReadReturns, ConnectReturns, ErrorReturns
  <2> QED BY <1>3, <2>1, <2>2 DEF Returns
<1>4. CASE ScriptRaises \/ LoopRuns
  BY <1>4 DEF ScriptRaises, LoopRuns, bindvars
<1> QED
  BY <1>1, <1>2, <1>3, <1>4 DEF BindNext

(***************************************************************************)
(* The evdns_base is there while a socket resolves and is counted, in any  *)
(* use that the bindings make of the loop: closing sockets in their own    *)
(* callbacks, handlers that refuse, errors that leave the loop.            *)
(***************************************************************************)
THEOREM BindDnsWhileResolving == BindSpec => [](DnsWhileResolving /\ DnsIsCounted)
<1> DEFINE Inv == LoopInv /\ server \subseteq Handles /\ setups \in Seq(Handles)
<1>1. BindInit => Inv
  BY InitLoopInv DEF BindInit
<1>2. Inv /\ [BindNext]_allvars => Inv'
  <2> SUFFICES ASSUME Inv, [BindNext]_allvars PROVE Inv'
    OBVIOUS
  <2>1. [Next]_vars
    BY BindStepIsLoopStep DEF allvars
  <2>2. server' \subseteq Handles /\ setups' \in Seq(Handles)
    BY ServersAreHandles DEF allvars, bindvars
  <2> QED
    BY <2>1, <2>2, NextLoopInv
<1>3. Inv => DnsWhileResolving /\ DnsIsCounted
  BY DEF LoopInv
<1> QED
  BY <1>1, <1>2, <1>3, PTL DEF BindSpec
-----------------------------------------------------------------------------
SdStates == {"none", "setup", "new", "connecting", "open", "destroyed", "failed", "refused", "dangling"}

BindTypeOK ==
    /\ server \subseteq Handles
    /\ sd \in [Handles -> SdStates]
    /\ frame \in Frames \cup {NoFrame}
    /\ early \subseteq {s \in Handles : sd[s] \in {"destroyed", "open", "dangling"}}

(* A socket is new only while the handler that it was given to runs, and a *)
(* handler runs for a socket that is new, or that it has closed.           *)
NewInHandler ==
    /\ frame # NoFrame => pc = "callback"
    /\ \A s \in Handles : sd[s] = "new" => InHandler(s)
    /\ \A s \in Handles : InHandler(s) => sd[s] = "new" \/ (sd[s] = "destroyed" /\ s \in early)

(* Calls of tcp_connect are nested, and each has a socket of its own. *)
SetupsOK ==
    /\ setups \in Seq(Handles)
    /\ \A i \in 1 .. Len(setups) : sd[setups[i]] = "setup"
    /\ \A i, j \in 1 .. Len(setups) : setups[i] = setups[j] => i = j

BindInv == TypeOK /\ BindTypeOK /\ NewInHandler /\ SetupsOK /\ HandlesAreOwned

(* The part of BindInv on sockets and their frames *)
SdInv == BindTypeOK /\ NewInHandler /\ HandlesAreOwned

(* The calls of tcp_connect go on as before. *)
LEMMA SetupsKept ==
    ASSUME BindInv, setups' = setups, \A s \in Handles : sd[s] = "setup" => sd'[s] = "setup"
    PROVE  SetupsOK'
BY DEF BindInv, SetupsOK

(* loop_sock_close and bind_loop_sock_gc free a handle together. *)
LEMMA SockGcInv ==
    ASSUME BindInv, NEW s \in Handles, SockGc(s), server' = server,
           frame' = frame \/ (frame' = NoFrame /\ \A t \in Handles : ~InHandler(t))
    PROVE  /\ SdInv'
           /\ \A t \in Handles : sd[t] = "setup" => sd'[t] = "setup"
<1> USE DEF BindInv, TypeOK, BindTypeOK, SdStates, SdInv, NewInHandler, HandlesAreOwned
<1>1. CASE CloseOpen(s)
  <2>1. /\ sd' = [sd EXCEPT ![s] = "destroyed"] /\ sock' = [sock EXCEPT ![s] = "none"]
        /\ early' = early /\ pc' = pc /\ sd[s] \in {"connecting", "open"}
    BY <1>1 DEF CloseOpen, Close, Live
  <2> QED BY <2>1 DEF Live, InHandler
<1>2. CASE CloseUnopened(s)
  <2>1. /\ sd' = [sd EXCEPT ![s] = "destroyed"] /\ sock' = sock /\ pc' = pc
        /\ early' = (IF sd[s] = "new" THEN early \cup {s} ELSE early)
        /\ sd[s] \in {"new", "refused"}
    BY <1>2 DEF CloseUnopened, vars
  <2> QED BY <2>1 DEF Live, InHandler
<1>3. CASE CloseDangling(s)
  BY <1>3 DEF CloseDangling, vars, Live, InHandler
<1> QED BY <1>1, <1>2, <1>3 DEF SockGc

(* A step that leaves the sockets alone, and calls no handler *)
LEMMA SocketsAlone ==
    ASSUME BindInv, UNCHANGED <<sd, sock, early, server, setups>>,
           frame' \in Frames \cup {NoFrame},
           pc' = "callback" \/ frame' = NoFrame,
           \A s \in Handles : InHandler(s)' <=> InHandler(s)
    PROVE  SdInv' /\ SetupsOK'
BY DEF BindInv, BindTypeOK, SdInv, SetupsOK, NewInHandler, HandlesAreOwned, Live

LEMMA TcpConnectInv == ASSUME BindInv, NEW s \in Handles, TcpConnect(s) PROVE SdInv' /\ SetupsOK'
<1> USE DEF BindInv, BindTypeOK, SdStates, SdInv
<1>1. /\ sd[s] = "none" /\ sd' = [sd EXCEPT ![s] = "setup"] /\ setups' = Append(setups, s)
      /\ UNCHANGED <<pc, sock, server, frame, early>>
  BY DEF TcpConnect, vars
<1>2. SdInv'
  BY <1>1 DEF NewInHandler, HandlesAreOwned, InHandler, Live
<1>3. SetupsOK'
  <2> DEFINE n == Len(setups)
  <2>1. /\ setups \in Seq(Handles) /\ n \in Nat
        /\ Append(setups, s) \in Seq(Handles) /\ Len(Append(setups, s)) = n + 1
        /\ \A i \in 1 .. n : Append(setups, s)[i] = setups[i] /\ setups[i] \in Handles
        /\ Append(setups, s)[n + 1] = s
    BY DEF SetupsOK
  <2>2. \A i \in 1 .. n : sd[setups[i]] = "setup" /\ setups[i] # s
    BY <1>1 DEF SetupsOK
  <2> QED BY <1>1, <2>1, <2>2 DEF SetupsOK
<1> QED BY <1>2, <1>3

LEMMA TcpConnectReturnsInv == ASSUME BindInv, TcpConnectReturns PROVE SdInv' /\ SetupsOK'
<1> USE DEF BindInv, BindTypeOK, SdStates, SdInv
<1>0. setups # <<>> /\ Len(setups) \in Nat \ {0} /\ setups[Len(setups)] \in Handles
  BY DEF TcpConnectReturns, SetupsOK
<1> PICK n \in Nat \ {0}, s \in Handles : n = Len(setups) /\ s = setups[n]
  BY <1>0
<1>1. /\ sd[s] = "setup"
      /\ setups' = SubSeq(setups, 1, n - 1) /\ UNCHANGED <<server, frame, early>>
  BY DEF TcpConnectReturns, SetupsOK
<1>2. /\ pc' = pc
      /\ \/ sd' = [sd EXCEPT ![s] = "connecting"] /\ sock' = [sock EXCEPT ![s] = "connecting"]
         \/ sd' = [sd EXCEPT ![s] = "failed"] /\ sock' = sock
  <2>1. CASE Connect(s) /\ sock'[s] = "connecting" /\ sd' = [sd EXCEPT ![s] = "connecting"]
    BY <2>1 DEF Connect, sockvars, TypeOK
  <2>2. CASE Connect(s) /\ sock'[s] = "none" /\ sd' = [sd EXCEPT ![s] = "failed"]
    BY <1>1, <2>2 DEF Connect, sockvars, TypeOK
  <2>3. CASE UNCHANGED vars /\ sd' = [sd EXCEPT ![s] = "failed"]
    BY <2>3 DEF vars
  <2> QED BY <2>1, <2>2, <2>3 DEF TcpConnectReturns
<1>3. SdInv'
  BY <1>1, <1>2 DEF NewInHandler, HandlesAreOwned, InHandler, Live, TypeOK
<1>4. SetupsOK'
  <2>1. /\ setups' \in Seq(Handles) /\ Len(setups') = n - 1
        /\ \A i \in 1 .. n - 1 : setups'[i] = setups[i] /\ setups[i] \in Handles
    <3>1. setups \in Seq(Handles) /\ \A i \in 1 .. n : setups[i] \in Handles
      BY DEF SetupsOK
    <3>2. /\ SubSeq(setups, 1, n - 1) \in Seq(Handles) /\ Len(SubSeq(setups, 1, n - 1)) = n - 1
          /\ \A i \in 1 .. n - 1 : SubSeq(setups, 1, n - 1)[i] = setups[i]
      <4>1. n - 1 \in 0 .. Len(setups)
        OBVIOUS
      <4> QED BY <3>1, <4>1, SubSeqFacts
    <3> QED BY <1>1, <3>1, <3>2
  <2>2. \A i \in 1 .. n - 1 : sd[setups[i]] = "setup" /\ setups[i] # s
    <3>1. \A i \in 1 .. n : sd[setups[i]] = "setup" /\ (setups[i] = setups[n] => i = n)
      BY DEF SetupsOK
    <3> QED BY <3>1
  <2>3. \A i \in 1 .. n - 1 : sd'[setups'[i]] = "setup"
    <3>1. \A t \in Handles \ {s} : sd'[t] = sd[t]
      BY <1>2
    <3> QED BY <2>1, <2>2, <3>1
  <2>4. \A i, j \in 1 .. n - 1 : setups'[i] = setups'[j] => i = j
    <3>1. \A i, j \in 1 .. n : setups[i] = setups[j] => i = j
      BY DEF SetupsOK
    <3>2. \A i \in 1 .. n - 1 : i \in 1 .. n
      OBVIOUS
    <3> QED BY <2>1, <3>1, <3>2
  <2> QED BY <2>1, <2>3, <2>4 DEF SetupsOK
<1> QED BY <1>3, <1>4

LEMMA HandlerReturnsInv == ASSUME BindInv, HandlerReturns PROVE SdInv' /\ SetupsOK'
<1> USE DEF BindInv, BindTypeOK, SdStates, SdInv
<1>1. /\ frame \in Frames /\ pc = "callback" /\ frame # NoFrame /\ frame.kind = "handler"
      /\ UNCHANGED <<pc, sock, server, setups, early>>
  BY DEF HandlerReturns, InFrame, vars
<1> PICK s \in Handles : s = frame.sock
  BY <1>1 DEF Frames
<1>2. /\ s \in Handles /\ InHandler(s) /\ \A t \in Handles \ {s} : ~InHandler(t)
      /\ sd[s] = "new" \/ (sd[s] = "destroyed" /\ s \in early)
  BY <1>1 DEF Frames, NewInHandler, InHandler
<1>3. PICK to \in {"open", "refused", "destroyed", "dangling"} :
          /\ sd' = [sd EXCEPT ![s] = to]
          /\ to = "open" <=> sock[s] # "none"
          /\ s \in early => to # "refused"
          /\ \/ frame' = [frame EXCEPT !.kind = "connect"]
             \/ frame' = NoFrame
  BY <1>2 DEF HandlerReturns
<1>4. frame' \in Frames \cup {NoFrame} /\ \A t \in Handles : ~InHandler(t)'
  BY <1>1, <1>3 DEF Frames, InHandler
<1>5. SdInv'
  BY <1>1, <1>2, <1>3, <1>4 DEF NewInHandler, HandlesAreOwned, Live
<1>6. SetupsOK'
  BY <1>1, <1>2, <1>3, SetupsKept
<1> QED BY <1>5, <1>6

LEMMA BindInvNext == ASSUME BindInv, TypeOK', BindNext PROVE BindInv'
<1> USE DEF BindInv, BindTypeOK, SdStates, SdInv
<1> SUFFICES SdInv' /\ SetupsOK'
  OBVIOUS
<1>2. ASSUME NEW s \in Handles, SockClose(s) PROVE SdInv' /\ SetupsOK'
  <2>1. SockGc(s) /\ UNCHANGED <<server, frame, setups>>
    BY <1>2 DEF SockClose
  <2> QED BY <2>1, SockGcInv, SetupsKept
<1>3. ASSUME NEW s \in Handles, SockWrite(s) PROVE SdInv' /\ SetupsOK'
  BY <1>3, SocketsAlone DEF SockWrite, vars, InHandler, NewInHandler
<1>4. ASSUME NEW l \in Listeners, TcpListen(l) \/ ListenerStop(l) PROVE SdInv' /\ SetupsOK'
  <2>1. UNCHANGED <<sd, sock, early, server, setups, frame, pc>>
    BY <1>4 DEF TcpListen, ListenerStop, Listen, StopListening, sockvars, vars
  <2> QED BY <2>1, SocketsAlone DEF InHandler, NewInHandler
<1>5. ASSUME NEW o \in Others, OtherRef(o) PROVE SdInv' /\ SetupsOK'
  <2>1. UNCHANGED <<sd, sock, early, server, setups, frame, pc>>
    BY <1>5 DEF OtherRef, vars
  <2> QED BY <2>1, SocketsAlone DEF InHandler, NewInHandler
<1>6. ASSUME NEW s \in Handles, ConnectCb(s) \/ ErrorCb(s) \/ ReadCb(s) PROVE SdInv' /\ SetupsOK'
  <2>1. pc = "poll" /\ pc' = "callback" /\ UNCHANGED <<server, early, setups>>
    BY <1>6 DEF ConnectCb, ErrorCb, ReadCb, Connected, SocketError, Eof, Readable, Callback
  <2>2. \A t \in Handles : ~InHandler(t) /\ sd[t] # "new"
    BY <2>1 DEF NewInHandler, InHandler
  <2>3. frame' \in Frames /\ \A t \in Handles : ~InHandler(t)'
    BY <1>6, ChunksAssumption DEF ConnectCb, ErrorCb, ReadCb, Enter, Frames, InHandler
  <2>4. sock[s] # "none" /\ sock'[s] # "none" /\ \A t \in Handles \ {s} : sock'[t] = sock[t]
    BY <1>6 DEF ConnectCb, ErrorCb, ReadCb, Connected, SocketError, Eof, Readable, sockvars, TypeOK
  <2>5. \/ sd' = sd
        \/ sd' = [sd EXCEPT ![s] = "open"]
    BY <1>6 DEF ConnectCb, ErrorCb, ReadCb
  <2>6. sd[s] \in {"connecting", "open"}
    BY <2>2, <2>4 DEF HandlesAreOwned, Live
  <2>7. SdInv'
    BY <2>1, <2>2, <2>3, <2>4, <2>5, <2>6 DEF NewInHandler, HandlesAreOwned, Live
  <2> QED BY <2>1, <2>5, <2>6, <2>7, SetupsKept
<1>7. ASSUME NEW l \in Listeners, NEW s \in Handles, AcceptCb(l, s) PROVE SdInv' /\ SetupsOK'
  <2>1. pc = "poll" /\ pc' = "callback" /\ sd[s] = "none" /\ UNCHANGED <<early, setups>>
    BY <1>7 DEF AcceptCb, Accept, Callback
  <2>2. \A t \in Handles : ~InHandler(t) /\ sd[t] # "new"
    BY <2>1 DEF NewInHandler, InHandler
  <2>3. /\ frame' \in Frames /\ InHandler(s)' /\ \A t \in Handles \ {s} : ~InHandler(t)'
    BY <1>7, ChunksAssumption, FrameAssumption DEF AcceptCb, Enter, Frames, InHandler
  <2>4. /\ sd' = [sd EXCEPT ![s] = "new"] /\ server' = server \cup {s}
        /\ \A t \in Handles \ {s} : sock'[t] = sock[t]
    BY <1>7 DEF AcceptCb, Accept, TypeOK
  <2>5. SdInv'
    BY <2>1, <2>2, <2>3, <2>4 DEF NewInHandler, HandlesAreOwned, Live
  <2> QED BY <2>1, <2>4, <2>5, SetupsKept
<1>9. CASE ReadReturns \/ ConnectReturns
  <2>1. /\ frame \in Frames /\ frame.kind # "handler" /\ pc = "callback"
        /\ UNCHANGED <<pc, sd, sock, server, setups, early>>
    BY <1>9 DEF ReadReturns, ConnectReturns, InFrame, vars
  <2>2. frame' = NoFrame \/ (frame' \in Frames /\ frame'.kind = frame.kind)
    <3>1. CASE frame' = NoFrame
      BY <3>1
    <3>2. CASE frame.chunks > 1 /\ frame' = [frame EXCEPT !.chunks = frame.chunks - 1]
      <4>1. frame.chunks \in 1 .. MaxChunks
        BY <2>1 DEF Frames
      <4>2. frame.chunks - 1 \in 1 .. MaxChunks
        BY <3>2, <4>1, ChunksAssumption
      <4> QED BY <2>1, <3>2, <4>2 DEF Frames
    <3> QED BY <1>9, <3>1, <3>2 DEF ReadReturns, ConnectReturns
  <2>3. \A t \in Handles : InHandler(t)' <=> InHandler(t)
    BY <2>1, <2>2 DEF InHandler
  <2> QED BY <2>1, <2>2, <2>3, SocketsAlone
<1>10. CASE ErrorReturns
  <2>1. frame.kind = "error" /\ frame' = NoFrame /\ UNCHANGED <<server, setups>>
    BY <1>10 DEF ErrorReturns, InFrame
  <2>2. \A t \in Handles : ~InHandler(t) /\ ~InHandler(t)'
    BY <2>1 DEF InHandler
  <2> DEFINE v == slots[refs[frame.sock]["sd"]]
  <2>3. CASE SockGc(v[2]) /\ v[2] \in server
    BY <2>1, <2>2, <2>3, SockGcInv, SetupsKept
  <2>4. CASE CallbackRaises /\ UNCHANGED <<sd, early>>
    BY <2>1, <2>2, <2>4, SocketsAlone DEF CallbackRaises, sockvars
  <2> QED BY <1>10, <2>3, <2>4 DEF ErrorReturns
<1>11. CASE ScriptRaises
  <2>1. /\ \A t \in Handles : ~InHandler(t) /\ ~InHandler(t)'
        /\ frame' = NoFrame /\ UNCHANGED <<sd, sock, early, server, setups>>
    BY <1>11 DEF ScriptRaises, CallbackRaises, InFrame, InHandler, sockvars
  <2> QED BY <2>1, SocketsAlone
<1>12. CASE LoopRuns
  <2>1. frame = NoFrame /\ UNCHANGED <<sd, sock, early, server, setups, frame>>
    BY <1>12 DEF LoopRuns, StartLoop, CallbackReturns, Whenever, NoEvents, LoopError, sockvars, bindvars
  <2> QED BY <2>1, SocketsAlone DEF InHandler
<1> QED
  BY <1>2, <1>3, <1>4, <1>5, <1>6, <1>7, <1>9, <1>10, <1>11, <1>12,
     TcpConnectInv, TcpConnectReturnsInv, HandlerReturnsInv
  DEF BindNext, BindCalls, BindEvents, Returns

(***************************************************************************)
(* No event comes for a socket that is destroyed, and no handle is freed   *)
(* twice, up to the closing of a socket whose handle loop_accept_conn has  *)
(* freed: for any number of sockets and listeners, with sockets closed in  *)
(* any callback, bind_loop_sock_gc and the loop agree on what is open.     *)
(***************************************************************************)
THEOREM BindHandlesAreOwned == BindSpec => []HandlesAreOwned
<1> DEFINE Inv == LoopInv /\ BindInv
<1>1. BindInit => Inv
  BY InitLoopInv DEF BindInit, Init, LoopInv, BindInv, BindTypeOK, SdStates, NewInHandler,
     SetupsOK, HandlesAreOwned, Live, InHandler
<1>2. Inv /\ [BindNext]_allvars => Inv'
  <2> SUFFICES ASSUME Inv, [BindNext]_allvars PROVE Inv'
    OBVIOUS
  <2>1. LoopInv'
    <3>1. [Next]_vars
      BY BindStepIsLoopStep DEF allvars, BindInv, BindTypeOK, SetupsOK
    <3> QED BY <3>1, NextLoopInv
  <2>2. CASE BindNext
    <3>1. TypeOK'
      BY <2>1 DEF LoopInv
    <3> QED BY <2>1, <2>2, <3>1, BindInvNext
  <2>3. CASE UNCHANGED allvars
    BY <2>1, <2>3 DEF allvars, vars, bindvars, BindInv, BindTypeOK, NewInHandler,
       SetupsOK, HandlesAreOwned, Live, InHandler, LoopInv
  <2> QED BY <2>2, <2>3
<1>3. Inv => HandlesAreOwned
  BY DEF BindInv
<1> QED
  BY <1>1, <1>2, <1>3, PTL DEF BindSpec
-----------------------------------------------------------------------------
(* The registry. *)

(* A sequence is one of its own elements. *)
LEMMA SeqOfItsRange ==
    ASSUME NEW S, NEW q \in Seq(S)
    PROVE  q \in Seq({q[i] : i \in DOMAIN q})
<1> DEFINE T == {q[i] : i \in DOMAIN q}
<1>1. Len(q) \in Nat /\ DOMAIN q = 1 .. Len(q) /\ q = [i \in 1 .. Len(q) |-> q[i]]
  OBVIOUS
<1>2. q \in [1 .. Len(q) -> T]
  BY <1>1
<1> QED BY <1>1, <1>2

(* luaL_ref takes a slot that was in no use, and changes no other. *)
LEMMA RefStep ==
    ASSUME NEW R, GoodRegistry(R), NEW v, v[1] # "free"
    PROVE  /\ GoodRegistry(Ref(R, v))
           /\ Where(Ref(R, v), v) = Where(R, v) \cup {RefAt(R)}
           /\ \A w : w[1] # "free" /\ w # v => Where(Ref(R, v), w) = Where(R, w)
<1> DEFINE q == R.slots
           n == Len(q)
           Q == Ref(R, v)
<1>0. n \in Nat /\ DOMAIN q = 1 .. n
  BY DEF GoodRegistry
<1>1. CASE R.head = 0
  <2> DEFINE S == {q[i] : i \in DOMAIN q} \cup {v}
  <2>1. q \in Seq(S)
    <3>1. q \in [1 .. n -> S]
      BY <1>0 DEF GoodRegistry
    <3> QED BY <1>0, <3>1
  <2>2. Append(q, v) \in Seq(S) /\ v \in S
    BY <2>1
  <2>3. /\ DOMAIN Append(q, v) = 1 .. n + 1
        /\ \A i \in 1 .. n : Append(q, v)[i] = q[i]
        /\ Append(q, v)[n + 1] = v
    BY <2>1
  <2>4. Q.slots = Append(q, v) /\ Q.head = 0 /\ RefAt(R) = n + 1
    BY <1>1 DEF Ref, RefAt
  <2>5. Q.slots \in Seq({Q.slots[i] : i \in DOMAIN Q.slots})
    BY <2>2, <2>4, SeqOfItsRange
  <2> HIDE DEF Q, S, q, n
  <2>6. DOMAIN Q.slots = 1 .. n + 1 /\ (\A i \in 1 .. n : Q.slots[i] = q[i]) /\ Q.slots[n + 1] = v
    BY <2>3, <2>4
  <2>7. FreeSlots(Q) = FreeSlots(R) /\ \A i \in FreeSlots(Q) : i \in 1 .. n /\ Q.slots[i] = q[i]
    BY <1>0, <2>6 DEF FreeSlots, q
  <2>8. GoodRegistry(Q)
    BY <1>1, <2>4, <2>5, <2>7 DEF GoodRegistry, q
  <2>9. Where(Q, v) = Where(R, v) \cup {n + 1} /\ \A w : w # v => Where(Q, w) = Where(R, w)
    BY <1>0, <2>6 DEF Where, q
  <2> QED BY <2>4, <2>8, <2>9 DEF Q
<1>2. CASE R.head # 0
  <2> DEFINE h == R.head
  <2>1. h \in FreeSlots(R) /\ h \in 1 .. n /\ q[h][1] = "free"
    BY <1>0, <1>2 DEF GoodRegistry, FreeSlots
  <2>2. Q.slots = [q EXCEPT ![h] = v] /\ Q.head = q[h][2] /\ RefAt(R) = h
    BY <1>2, <2>1 DEF Ref, RefAt, Next1
  <2>3. Q.slots \in Seq({Q.slots[i] : i \in DOMAIN Q.slots})
    <3>1. q \in [1 .. n -> {q[i] : i \in DOMAIN q} \cup {v}]
      BY <1>0 DEF GoodRegistry
    <3>2. Q.slots \in [1 .. n -> {q[i] : i \in DOMAIN q} \cup {v}]
      BY <2>1, <2>2, <3>1
    <3>3. Q.slots \in Seq({q[i] : i \in DOMAIN q} \cup {v})
      BY <1>0, <3>2
    <3> QED BY <3>3, SeqOfItsRange
  <2> HIDE DEF Q, h
  <2>4. DOMAIN Q.slots = 1 .. n /\ (\A i \in 1 .. n : i # h => Q.slots[i] = q[i]) /\ Q.slots[h] = v
    BY <1>0, <2>1, <2>2
  <2>5. FreeSlots(Q) = FreeSlots(R) \ {h}
    BY <1>0, <2>1, <2>4 DEF FreeSlots
  <2>6. \A i \in FreeSlots(Q) : Q.slots[i] = q[i]
    BY <1>0, <2>4, <2>5 DEF FreeSlots
  <2>7. \A i \in FreeSlots(R) : q[i][2] # 0 => q[i][2] \in FreeSlots(R) \ {h}
    BY DEF GoodRegistry, h
  <2>8. GoodRegistry(Q)
    <3>1. Q.head \in FreeSlots(Q) \cup {0}
      BY <2>1, <2>2, <2>5, <2>7
    <3>2. ASSUME NEW i \in FreeSlots(Q)
          PROVE  /\ Q.slots[i][2] \in FreeSlots(Q) \cup {0}
                 /\ Q.slots[i][2] # 0 =>
                       /\ Q.slots[i][2] # Q.head
                       /\ \A j \in FreeSlots(Q) : Q.slots[j][2] = Q.slots[i][2] => j = i
      <4>1. i \in FreeSlots(R) /\ i # h /\ Q.slots[i] = q[i]
        BY <2>5, <2>6
      <4>2. Q.slots[i][2] \in FreeSlots(Q) \cup {0}
        <5>1. q[i][2] \in FreeSlots(R) \cup {0}
          BY <4>1 DEF GoodRegistry
        <5> QED BY <5>1, <4>1, <2>5, <2>7
      <4>3. ASSUME q[i][2] # 0, NEW j \in FreeSlots(R), q[j][2] = q[i][2] PROVE j = i
        BY <4>1, <4>3 DEF GoodRegistry
      <4>4. ASSUME NEW j \in FreeSlots(Q) PROVE j \in FreeSlots(R) /\ Q.slots[j] = q[j]
        BY <2>5, <2>6
      <4> QED BY <4>1, <4>2, <4>3, <4>4, <2>1, <2>2
    <3> QED BY <2>3, <3>1, <3>2 DEF GoodRegistry
  <2>9. /\ Where(Q, v) = Where(R, v) \cup {h}
        /\ \A w : w[1] # "free" /\ w # v => Where(Q, w) = Where(R, w)
    BY <1>0, <2>1, <2>4 DEF Where
  <2> QED BY <2>2, <2>8, <2>9 DEF Q
<1> QED BY <1>1, <1>2

(* luaL_ref gives a slot, and never LUA_REFNIL. *)
LEMMA RefAtIsSlot ==
    ASSUME NEW R, GoodRegistry(R)
    PROVE  RefAt(R) # RefNil
<1>1. Len(R.slots) \in Nat /\ DOMAIN R.slots = 1 .. Len(R.slots)
  BY DEF GoodRegistry
<1>2. R.head # 0 => R.head \in 1 .. Len(R.slots)
  BY <1>1 DEF GoodRegistry, FreeSlots
<1> QED BY <1>1, <1>2 DEF RefAt, RefNil

(* luaL_unref of a slot that is in use frees that slot, and no other. *)
LEMMA UnrefStep ==
    ASSUME NEW R, GoodRegistry(R), NEW v, v[1] # "free", NEW r \in Where(R, v)
    PROVE  /\ GoodRegistry(Unref(R, r))
           /\ Where(Unref(R, r), v) = Where(R, v) \ {r}
           /\ \A w : w[1] # "free" /\ w # v => Where(Unref(R, r), w) = Where(R, w)
<1> DEFINE q == R.slots
           n == Len(q)
           Q == Unref(R, r)
           e == <<"free", R.head>>
<1>0. n \in Nat /\ DOMAIN q = 1 .. n
  BY DEF GoodRegistry
<1>1. r \in 1 .. n /\ q[r] = v /\ ~(r < 0) /\ r # 0
  BY <1>0 DEF Where
<1>2. Q.slots = [q EXCEPT ![r] = e] /\ Q.head = r
  BY <1>1 DEF Unref
<1>3. Q.slots \in Seq({Q.slots[i] : i \in DOMAIN Q.slots})
  <2> HIDE DEF e, Q
  <2>1. q \in [1 .. n -> {q[i] : i \in DOMAIN q} \cup {e}]
    BY <1>0 DEF GoodRegistry
  <2>2. Q.slots \in [1 .. n -> {q[i] : i \in DOMAIN q} \cup {e}]
    BY <1>1, <1>2, <2>1
  <2>3. Q.slots \in Seq({q[i] : i \in DOMAIN q} \cup {e})
    BY <1>0, <2>2
  <2> QED BY <2>3, SeqOfItsRange
<1>4. e[1] = "free" /\ e[2] = R.head
  OBVIOUS
<1> HIDE DEF Q, e
<1>5. DOMAIN Q.slots = 1 .. n /\ (\A i \in 1 .. n : i # r => Q.slots[i] = q[i]) /\ Q.slots[r] = e
  BY <1>0, <1>1, <1>2
<1>6. FreeSlots(Q) = FreeSlots(R) \cup {r} /\ r \notin FreeSlots(R)
  BY <1>0, <1>1, <1>4, <1>5 DEF FreeSlots
<1>7. \A i \in FreeSlots(R) : Q.slots[i] = q[i]
  BY <1>0, <1>5, <1>6 DEF FreeSlots
<1>8. GoodRegistry(Q)
  <2>1. ASSUME NEW i \in FreeSlots(Q)
        PROVE  /\ Q.slots[i][2] \in FreeSlots(Q) \cup {0}
               /\ Q.slots[i][2] # 0 =>
                     /\ Q.slots[i][2] # Q.head
                     /\ \A j \in FreeSlots(Q) : Q.slots[j][2] = Q.slots[i][2] => j = i
    BY <1>1, <1>2, <1>4, <1>5, <1>6, <1>7 DEF GoodRegistry
  <2> QED BY <1>2, <1>3, <1>6, <2>1 DEF GoodRegistry
<1>9. /\ Where(Q, v) = Where(R, v) \ {r}
      /\ \A w : w[1] # "free" /\ w # v => Where(Q, w) = Where(R, w)
  BY <1>0, <1>1, <1>4, <1>5 DEF Where
<1> QED BY <1>8, <1>9 DEF Q

(* No entry of the registry is taken for a free slot, nor a handler for its *)
(* listener.                                                                *)
LEMMA Entries ==
    ASSUME NEW s, NEW f
    PROVE  /\ <<"sd", s>>[1] # "free" /\ <<"cb", s, f>>[1] # "free"
           /\ <<"handler", s>>[1] # "free" /\ <<"listener", s>>[1] # "free"
           /\ <<"other", s>>[1] # "free"
           /\ <<"handler", s>> # <<"listener", s>>
OBVIOUS

Fields == Callbacks \cup {"sd"}

(* An entry of the registry that no callback of s is *)
NoCallbackOf(w, s) == w[1] # "free" /\ \A f \in Callbacks : w # <<"cb", s, f>>

(* bind_loop_sock_setup_cbrefs references one callback f, if that is in fs. *)
AfterRef(b, R, rs, s, f, fs) ==
    /\ b = [R |-> b.R, refs |-> b.refs]
    /\ GoodRegistry(b.R)
    /\ DOMAIN b.refs = Fields
    /\ \A g \in Fields : g # f => b.refs[g] = rs[g]
    /\ IF f \in fs \cap Callbacks
         THEN /\ Where(b.R, <<"cb", s, f>>) = Where(R, <<"cb", s, f>>) \cup {b.refs[f]}
              /\ b.refs[f] # RefNil
         ELSE b = [R |-> R, refs |-> rs]
    /\ \A g : g # f => Where(b.R, <<"cb", s, g>>) = Where(R, <<"cb", s, g>>)
    /\ \A w : NoCallbackOf(w, s) => Where(b.R, w) = Where(R, w)

LEMMA RefCbStep ==
    ASSUME NEW R, GoodRegistry(R), NEW rs, DOMAIN rs = Fields, NEW s, NEW f, f # "sd", NEW fs
    PROVE  AfterRef(RefCb([R |-> R, refs |-> rs], s, f, fs), R, rs, s, f, fs)
<1> DEFINE v == <<"cb", s, f>>
           b == RefCb([R |-> R, refs |-> rs], s, f, fs)
<1>1. CASE f \in fs \cap Callbacks
  <2>1. v[1] # "free"
    BY Entries
  <2> HIDE DEF v
  <2>2. /\ GoodRegistry(Ref(R, v))
        /\ Where(Ref(R, v), v) = Where(R, v) \cup {RefAt(R)}
        /\ \A w : w[1] # "free" /\ w # v => Where(Ref(R, v), w) = Where(R, w)
    BY <2>1, RefStep
  <2>3. b = [R |-> Ref(R, v), refs |-> [rs EXCEPT ![f] = RefAt(R)]]
    BY <1>1 DEF RefCb, v
  <2> HIDE DEF b
  <2>4. b.R = Ref(R, v) /\ b.refs = [rs EXCEPT ![f] = RefAt(R)] /\ b = [R |-> b.R, refs |-> b.refs]
    BY <2>3
  <2>5. DOMAIN b.refs = Fields /\ b.refs[f] = RefAt(R) /\ \A g \in Fields : g # f => b.refs[g] = rs[g]
    BY <1>1, <2>4 DEF Fields
  <2>6. \A g : g # f => <<"cb", s, g>> # v /\ <<"cb", s, g>>[1] # "free"
    BY DEF v
  <2>7. \A w : NoCallbackOf(w, s) => w # v /\ w[1] # "free"
    BY <1>1 DEF v, NoCallbackOf
  <2>8. \A g : g # f => Where(b.R, <<"cb", s, g>>) = Where(R, <<"cb", s, g>>)
    BY <2>2, <2>4, <2>6
  <2>9. \A w : NoCallbackOf(w, s) => Where(b.R, w) = Where(R, w)
    BY <2>2, <2>4, <2>7
  <2>10. Where(b.R, v) = Where(R, v) \cup {b.refs[f]}
    BY <2>2, <2>4, <2>5
  <2>11. b.refs[f] # RefNil
    BY <2>5, RefAtIsSlot
  <2>12. AfterRef(b, R, rs, s, f, fs)
    BY <1>1, <2>2, <2>4, <2>5, <2>8, <2>9, <2>10, <2>11 DEF v, AfterRef
  <2> QED BY <2>12 DEF b
<1>2. CASE f \notin fs \cap Callbacks
  <2>1. b = [R |-> R, refs |-> rs]
    BY <1>2 DEF RefCb
  <2> HIDE DEF b
  <2>2. AfterRef(b, R, rs, s, f, fs)
    BY <1>2, <2>1 DEF AfterRef
  <2> QED BY <2>2 DEF b
<1> QED BY <1>1, <1>2

(* bind_loop_sock_setup_cbrefs references the callbacks in fs, and leaves   *)
(* every other entry where it is.                                           *)
AfterCbRefs(b, R, rs, s, fs) ==
    /\ GoodRegistry(b.R)
    /\ DOMAIN b.refs = Fields
    /\ b.refs["sd"] = rs["sd"]
    /\ \A f \in Callbacks :
          IF f \in fs
            THEN /\ Where(b.R, <<"cb", s, f>>) = Where(R, <<"cb", s, f>>) \cup {b.refs[f]}
                 /\ b.refs[f] # RefNil
            ELSE Where(b.R, <<"cb", s, f>>) = Where(R, <<"cb", s, f>>) /\ b.refs[f] = rs[f]
    /\ \A w : NoCallbackOf(w, s) => Where(b.R, w) = Where(R, w)

LEMMA CbRefsStep ==
    ASSUME NEW R, GoodRegistry(R), NEW rs, DOMAIN rs = Fields, NEW s, NEW fs
    PROVE  AfterCbRefs(CbRefs(R, rs, s, fs), R, rs, s, fs)
<1> DEFINE b1 == RefCb([R |-> R, refs |-> rs], s, "read", fs)
           b2 == RefCb(b1, s, "eof", fs)
           b3 == RefCb(b2, s, "connect", fs)
           b4 == RefCb(b3, s, "error", fs)
<1>1. AfterRef(b1, R, rs, s, "read", fs)
  BY RefCbStep
<1>2. AfterRef(b2, b1.R, b1.refs, s, "eof", fs)
  <2> HIDE DEF b1
  <2>1. AfterRef(RefCb([R |-> b1.R, refs |-> b1.refs], s, "eof", fs), b1.R, b1.refs, s, "eof", fs)
    <3>1. GoodRegistry(b1.R) /\ DOMAIN b1.refs = Fields
      BY <1>1 DEF AfterRef
    <3> QED BY <3>1, RefCbStep
  <2>2. b1 = [R |-> b1.R, refs |-> b1.refs]
    BY <1>1 DEF AfterRef
  <2> QED BY <2>1, <2>2
<1>3. AfterRef(b3, b2.R, b2.refs, s, "connect", fs)
  <2> HIDE DEF b2
  <2>1. AfterRef(RefCb([R |-> b2.R, refs |-> b2.refs], s, "connect", fs), b2.R, b2.refs, s, "connect", fs)
    <3>1. GoodRegistry(b2.R) /\ DOMAIN b2.refs = Fields
      BY <1>2 DEF AfterRef
    <3> QED BY <3>1, RefCbStep
  <2>2. b2 = [R |-> b2.R, refs |-> b2.refs]
    BY <1>2 DEF AfterRef
  <2> QED BY <2>1, <2>2
<1>4. AfterRef(b4, b3.R, b3.refs, s, "error", fs)
  <2> HIDE DEF b3
  <2>1. AfterRef(RefCb([R |-> b3.R, refs |-> b3.refs], s, "error", fs), b3.R, b3.refs, s, "error", fs)
    <3>1. GoodRegistry(b3.R) /\ DOMAIN b3.refs = Fields
      BY <1>3 DEF AfterRef
    <3> QED BY <3>1, RefCbStep
  <2>2. b3 = [R |-> b3.R, refs |-> b3.refs]
    BY <1>3 DEF AfterRef
  <2> QED BY <2>1, <2>2
<1>5. CbRefs(R, rs, s, fs) = b4
  BY DEF CbRefs
<1> HIDE DEF b1, b2, b3, b4
<1>6. "sd" \in Fields /\ Callbacks \subseteq Fields
  BY DEF Fields
<1>7. b4.refs["sd"] = rs["sd"]
  BY <1>1, <1>2, <1>3, <1>4, <1>6 DEF AfterRef
<1>8. ASSUME NEW f \in Callbacks
      PROVE  IF f \in fs
               THEN /\ Where(b4.R, <<"cb", s, f>>) = Where(R, <<"cb", s, f>>) \cup {b4.refs[f]}
                    /\ b4.refs[f] # RefNil
               ELSE Where(b4.R, <<"cb", s, f>>) = Where(R, <<"cb", s, f>>) /\ b4.refs[f] = rs[f]
  <2> DEFINE w == <<"cb", s, f>>
             Kept(P, ps, Q, qs) == Where(Q, w) = Where(P, w) /\ qs[f] = ps[f]
             Done(P, ps, Q, qs) ==
                IF f \in fs THEN Where(Q, w) = Where(P, w) \cup {qs[f]} /\ qs[f] # RefNil
                ELSE Kept(P, ps, Q, qs)
  <2>0. f \in Fields
    BY <1>6
  <2>1. IF f = "read" THEN Done(R, rs, b1.R, b1.refs) ELSE Kept(R, rs, b1.R, b1.refs)
    BY <1>1, <2>0 DEF AfterRef
  <2>2. IF f = "eof" THEN Done(b1.R, b1.refs, b2.R, b2.refs) ELSE Kept(b1.R, b1.refs, b2.R, b2.refs)
    BY <1>2, <2>0 DEF AfterRef
  <2>3. IF f = "connect" THEN Done(b2.R, b2.refs, b3.R, b3.refs) ELSE Kept(b2.R, b2.refs, b3.R, b3.refs)
    BY <1>3, <2>0 DEF AfterRef
  <2>4. IF f = "error" THEN Done(b3.R, b3.refs, b4.R, b4.refs) ELSE Kept(b3.R, b3.refs, b4.R, b4.refs)
    BY <1>4, <2>0 DEF AfterRef
  <2> HIDE DEF w
  <2>5. Done(R, rs, b4.R, b4.refs)
    BY <2>1, <2>2, <2>3, <2>4, CallbacksAssumption
  <2> QED BY <2>5 DEF w
<1>9. \A w : NoCallbackOf(w, s) => Where(b4.R, w) = Where(R, w)
  BY <1>1, <1>2, <1>3, <1>4 DEF AfterRef
<1>10. AfterCbRefs(b4, R, rs, s, fs)
  BY <1>4, <1>7, <1>8, <1>9 DEF AfterRef, AfterCbRefs
<1> QED BY <1>5, <1>10

(* One reference of a socket that is given back. *)
Own(s, f) == IF f = "sd" THEN <<"sd", s>> ELSE <<"cb", s, f>>

LEMMA UnrefFieldStep ==
    ASSUME NEW R, GoodRegistry(R), NEW s, DOMAIN refs[s] = Fields, NEW f,
           f \in Fields => Where(R, Own(s, f)) = OnlyAt(refs[s][f])
    PROVE  /\ GoodRegistry(UnrefField(R, s, f))
           /\ f \in Fields => Where(UnrefField(R, s, f), Own(s, f)) = {}
           /\ \A w : w[1] # "free" /\ w # Own(s, f) => Where(UnrefField(R, s, f), w) = Where(R, w)
<1>1. CASE f \in Fields /\ refs[s][f] # RefNil
  <2> DEFINE v == Own(s, f)
             r == refs[s][f]
  <2>1. v[1] # "free"
    BY DEF Own
  <2>2. UnrefField(R, s, f) = Unref(R, r) /\ Where(R, v) = {r}
    BY <1>1 DEF UnrefField, OnlyAt
  <2> HIDE DEF v, r
  <2>3. /\ GoodRegistry(Unref(R, r))
        /\ Where(Unref(R, r), v) = Where(R, v) \ {r}
        /\ \A w : w[1] # "free" /\ w # v => Where(Unref(R, r), w) = Where(R, w)
    BY <2>1, <2>2, UnrefStep
  <2> QED BY <2>2, <2>3 DEF v
<1>2. CASE f \notin Fields
  BY <1>2 DEF UnrefField
<1>3. CASE f \in Fields /\ refs[s][f] = RefNil
  BY <1>3 DEF UnrefField, Unref, OnlyAt, RefNil
<1> QED BY <1>1, <1>2, <1>3

(* bind_loop_sock_gc removes a socket and its callbacks, and nothing else. *)
LEMMA SockUnrefStep ==
    ASSUME NEW R, GoodRegistry(R), NEW s, DOMAIN refs[s] = Fields,
           \A f \in Fields : Where(R, Own(s, f)) = OnlyAt(refs[s][f])
    PROVE  /\ GoodRegistry(SockUnref(R, s))
           /\ \A f \in Fields : Where(SockUnref(R, s), Own(s, f)) = {}
           /\ \A w : w[1] # "free" /\ (\A f \in Fields : w # Own(s, f)) =>
                 Where(SockUnref(R, s), w) = Where(R, w)
<1> DEFINE R1 == UnrefField(R, s, "sd")
           R2 == UnrefField(R1, s, "error")
           R3 == UnrefField(R2, s, "eof")
           R4 == UnrefField(R3, s, "connect")
           R5 == UnrefField(R4, s, "read")
           Left(Q, fs) == \A f \in Fields : Where(Q, Own(s, f)) = IF f \in fs THEN OnlyAt(refs[s][f]) ELSE {}
           Rest(Q) == \A w : w[1] # "free" /\ (\A f \in Fields : w # Own(s, f)) => Where(Q, w) = Where(R, w)
           Good(Q, fs) == GoodRegistry(Q) /\ Left(Q, fs) /\ Rest(Q)
<1>1. \A f, g : f # g => Own(s, f) # Own(s, g) /\ Own(s, f)[1] # "free" /\ Own(s, g)[1] # "free"
  BY DEF Own
<1>2. ASSUME NEW Q, NEW fs, NEW f \in fs, Good(Q, fs)
      PROVE  Good(UnrefField(Q, s, f), fs \ {f})
  <2> DEFINE P == UnrefField(Q, s, f)
  <2>1. /\ GoodRegistry(P)
        /\ f \in Fields => Where(P, Own(s, f)) = {}
        /\ \A w : w[1] # "free" /\ w # Own(s, f) => Where(P, w) = Where(Q, w)
    BY <1>2, UnrefFieldStep
  <2> HIDE DEF P
  <2>2. Left(P, fs \ {f})
    BY <1>1, <1>2, <2>1
  <2>3. Rest(P)
    <3>1. CASE f \in Fields
      BY <1>2, <2>1, <3>1
    <3>2. CASE f \notin Fields
      BY <1>2, <3>2 DEF P, UnrefField
    <3> QED BY <3>1, <3>2
  <2> QED BY <2>1, <2>2, <2>3 DEF P
<1>3. Good(R, {"sd", "error", "eof", "connect", "read"})
  BY CallbacksAssumption DEF Fields
<1> HIDE DEF Good
<1>4. Good(R5, (((({"sd", "error", "eof", "connect", "read"} \ {"sd"}) \ {"error"}) \ {"eof"}) \ {"connect"}) \ {"read"})
  <2>1. Good(R1, {"sd", "error", "eof", "connect", "read"} \ {"sd"})
    BY <1>2, <1>3
  <2> HIDE DEF R1
  <2>2. Good(R2, ({"sd", "error", "eof", "connect", "read"} \ {"sd"}) \ {"error"})
    BY <1>2, <2>1
  <2> HIDE DEF R2
  <2>3. Good(R3, (({"sd", "error", "eof", "connect", "read"} \ {"sd"}) \ {"error"}) \ {"eof"})
    BY <1>2, <2>2
  <2> HIDE DEF R3
  <2>4. Good(R4, ((({"sd", "error", "eof", "connect", "read"} \ {"sd"}) \ {"error"}) \ {"eof"}) \ {"connect"})
    BY <1>2, <2>3
  <2> HIDE DEF R4
  <2> QED BY <1>2, <2>4
<1>5. Good(R5, {})
  <2>1. {} = (((({"sd", "error", "eof", "connect", "read"} \ {"sd"}) \ {"error"}) \ {"eof"}) \ {"connect"}) \ {"read"}
    OBVIOUS
  <2> HIDE DEF R5
  <2> QED BY <1>4, <2>1
<1>6. SockUnref(R, s) = R5
  BY DEF SockUnref, UnrefCbs
<1> HIDE DEF R5
<1> QED BY <1>5, <1>6 DEF Good

-----------------------------------------------------------------------------
(* The references. *)

RefTypes ==
    /\ DOMAIN refs = Handles /\ \A s \in Handles : DOMAIN refs[s] = Fields
    /\ DOMAIN lrefs = Listeners
    /\ DOMAIN orefs = Others

(* An entry that is not of socket s *)
Foreign(w, s) == w[1] # "free" /\ \A f \in Fields : w # Own(s, f)

(* What a registry is set to is what it then is. *)
LEMMA SetRegistryStep ==
    ASSUME NEW Q, SetRegistry(Q), GoodRegistry(Q)
    PROVE  GoodRegistry(Registry)' /\ \A w : Where(Registry, w)' = Where(Q, w)
<1>1. Registry'.slots = Q.slots /\ Registry'.head = Q.head
  BY DEF SetRegistry, Registry
<1> QED BY <1>1 DEF GoodRegistry, FreeSlots, Where

(* A socket that a step does not concern *)
Untouched(t) ==
    /\ sd'[t] = sd[t] /\ refs'[t] = refs[t]
    /\ t \in early' <=> t \in early
    /\ InHandler(t)' <=> InHandler(t)

(* Its references are where they were, if its entries are. *)
LEMMA SocketKept ==
    ASSUME NEW t \in Handles, SocketRefs(Registry, t), Untouched(t),
           Where(Registry, <<"sd", t>>)' = Where(Registry, <<"sd", t>>),
           \A f : Where(Registry, <<"cb", t, f>>)' = Where(Registry, <<"cb", t, f>>)
    PROVE  SocketRefs(Registry, t)'
BY DEF SocketRefs, Live, Forgotten, Untouched

(* What every step on the registry keeps for those it does not concern. *)
LEMMA ForeignKept ==
    ASSUME NEW s \in Handles, NEW Q, SetRegistry(Q), GoodRegistry(Q),
           \A w : Foreign(w, s) => Where(Q, w) = Where(Registry, w),
           \A t \in Handles : SocketRefs(Registry, t), OtherRefs(Registry),
           \A t \in Handles \ {s} : Untouched(t),
           UNCHANGED <<lrefs, orefs, listening>>
    PROVE  /\ \A t \in Handles \ {s} : SocketRefs(Registry, t)'
           /\ OtherRefs(Registry)'
<1>1. \A w : Foreign(w, s) => Where(Registry, w)' = Where(Registry, w)
  BY SetRegistryStep
<1>2. ASSUME NEW t \in Handles \ {s} PROVE SocketRefs(Registry, t)'
  <2>1. \A f : Foreign(<<"sd", t>>, s) /\ Foreign(<<"cb", t, f>>, s)
    BY DEF Foreign, Own
  <2>2. /\ Where(Registry, <<"sd", t>>)' = Where(Registry, <<"sd", t>>)
        /\ \A f : Where(Registry, <<"cb", t, f>>)' = Where(Registry, <<"cb", t, f>>)
    BY <1>1, <2>1
  <2> QED BY <2>2, SocketKept
<1>3. OtherRefs(Registry)'
  <2>1. \A l : Foreign(<<"handler", l>>, s) /\ Foreign(<<"listener", l>>, s) /\ Foreign(<<"other", l>>, s)
    BY DEF Foreign, Own
  <2>2. \A l : /\ Where(Registry, <<"handler", l>>)' = Where(Registry, <<"handler", l>>)
               /\ Where(Registry, <<"listener", l>>)' = Where(Registry, <<"listener", l>>)
               /\ Where(Registry, <<"other", l>>)' = Where(Registry, <<"other", l>>)
    BY <1>1, <2>1
  <2> QED BY <2>2 DEF OtherRefs
<1> QED BY <1>2, <1>3

(* A new socket is referenced, bind_loop_tcp_connect and bind_loop_accept_cb. *)
LEMMA NewSdStep ==
    ASSUME GoodRegistry(Registry), NEW s \in Handles, Where(Registry, <<"sd", s>>) = {}
    PROVE  /\ GoodRegistry(NewSd(s).R)
           /\ DOMAIN NewSd(s).refs = Fields
           /\ \A f \in Callbacks : NewSd(s).refs[f] = RefNil
           /\ Where(NewSd(s).R, <<"sd", s>>) = {NewSd(s).refs["sd"]}
           /\ \A w : w[1] # "free" /\ w # <<"sd", s>> => Where(NewSd(s).R, w) = Where(Registry, w)
<1> DEFINE v == <<"sd", s>>
           e == [NoRefs EXCEPT !["sd"] = RefAt(Registry)]
<1>1. v[1] # "free"
  BY Entries
<1>2. NewSd(s).R = Ref(Registry, v) /\ NewSd(s).refs = e
  BY DEF NewSd
<1>3. DOMAIN e = Fields /\ e["sd"] = RefAt(Registry) /\ \A f \in Callbacks : e[f] = RefNil
  BY CallbacksAssumption DEF NoRefs, Fields
<1> HIDE DEF v, e
<1>4. /\ GoodRegistry(Ref(Registry, v))
      /\ Where(Ref(Registry, v), v) = Where(Registry, v) \cup {RefAt(Registry)}
      /\ \A w : w[1] # "free" /\ w # v => Where(Ref(Registry, v), w) = Where(Registry, w)
  BY <1>1, RefStep
<1>5. Where(Registry, v) = {}
  BY DEF v
<1>6. Where(NewSd(s).R, v) = {NewSd(s).refs["sd"]}
  BY <1>2, <1>3, <1>4, <1>5
<1> QED BY <1>2, <1>3, <1>4, <1>6 DEF v

(* ... and then those of its callbacks that are in fs. *)
AfterSetup(c, s, fs) ==
    /\ GoodRegistry(c.R)
    /\ DOMAIN c.refs = Fields
    /\ c.refs["sd"] = refs[s]["sd"]
    /\ Where(c.R, <<"sd", s>>) = Where(Registry, <<"sd", s>>)
    /\ \A f \in Callbacks : Where(c.R, <<"cb", s, f>>) = OnlyAt(c.refs[f])
    /\ \A f \in fs \cap Callbacks : c.refs[f] # RefNil
    /\ \A w : Foreign(w, s) => Where(c.R, w) = Where(Registry, w)

LEMMA SetupRefs ==
    ASSUME GoodRegistry(Registry), NEW s \in Handles, DOMAIN refs[s] = Fields,
           \A f \in Callbacks : Where(Registry, <<"cb", s, f>>) = {} /\ refs[s][f] = RefNil,
           NEW fs, NEW c, c = CbRefs(Registry, refs[s], s, fs)
    PROVE  AfterSetup(c, s, fs)
<1>1. AfterCbRefs(c, Registry, refs[s], s, fs)
  BY CbRefsStep
<1>2. NoCallbackOf(<<"sd", s>>, s) /\ \A w : Foreign(w, s) => NoCallbackOf(w, s)
  BY CallbacksAssumption DEF NoCallbackOf, Foreign, Own, Fields
<1>3. \A f \in Callbacks : Where(c.R, <<"cb", s, f>>) = OnlyAt(c.refs[f])
  BY <1>1 DEF AfterCbRefs, OnlyAt
<1> QED BY <1>1, <1>2, <1>3 DEF AfterCbRefs, AfterSetup

Refs == RefTypes /\ RefInv

(* Calls that run no handler leave every socket's frame as it is. *)
LEMMA SameFrame ==
    ASSUME frame' = frame \/ (frame' = NoFrame /\ \A t \in Handles : ~InHandler(t)), NEW s \in Handles
    PROVE  InHandler(s)' <=> InHandler(s)
BY DEF InHandler

(* bind_loop_tcp_connect up to its handler, and bind_loop_accept_cb *)
LEMMA NewSdRefs ==
    ASSUME BindInv, Refs, mishaps = {}, NEW s \in Handles, sd[s] = "none",
           NEW to \in {"setup", "new"}, sd' = [sd EXCEPT ![s] = to],
           SetRegistry(NewSd(s).R), refs' = [refs EXCEPT ![s] = NewSd(s).refs],
           \A t \in Handles \ {s} : InHandler(t)' <=> InHandler(t),
           UNCHANGED <<lrefs, orefs, listening, early>>
    PROVE  Refs'
<1>2. /\ GoodRegistry(Registry) /\ \A t \in Handles : SocketRefs(Registry, t)
      /\ OtherRefs(Registry) /\ RefTypes
  BY DEF Refs, RefInv
<1>3. /\ Where(Registry, <<"sd", s>>) = {} /\ \A f \in Callbacks : Where(Registry, <<"cb", s, f>>) = {}
      /\ s \notin early
  BY <1>2 DEF SocketRefs, Forgotten, OnlyAt, BindInv, BindTypeOK
<1> DEFINE Q == NewSd(s).R
           rs == NewSd(s).refs
<1>4. /\ GoodRegistry(Q) /\ DOMAIN rs = Fields /\ Where(Q, <<"sd", s>>) = {rs["sd"]}
      /\ \A f \in Callbacks : rs[f] = RefNil
      /\ \A w : w[1] # "free" /\ w # <<"sd", s>> => Where(Q, w) = Where(Registry, w)
  BY <1>2, <1>3, NewSdStep
<1>5. SetRegistry(Q) /\ refs' = [refs EXCEPT ![s] = rs]
  OBVIOUS
<1> HIDE DEF Q, rs
<1>6. \A w : Foreign(w, s) => Where(Q, w) = Where(Registry, w)
  <2>1. \A w : Foreign(w, s) => w[1] # "free" /\ w # <<"sd", s>>
    BY DEF Foreign, Own, Fields
  <2> QED BY <1>4, <2>1
<1>7. /\ \A t \in Handles \ {s} : Untouched(t)
      /\ sd'[s] = to /\ refs'[s] = rs /\ DOMAIN refs' = Handles
  BY <1>2, <1>5 DEF BindInv, BindTypeOK, RefTypes, Untouched
<1>8. OtherRefs(Registry)' /\ \A t \in Handles \ {s} : SocketRefs(Registry, t)'
  BY <1>2, <1>4, <1>5, <1>6, <1>7, ForeignKept
<1>9. GoodRegistry(Registry)' /\ \A w : Where(Registry, w)' = Where(Q, w)
  BY <1>4, <1>5, SetRegistryStep
<1>10. SocketRefs(Registry, s)'
  <2>1. \A f \in Callbacks : Where(Q, <<"cb", s, f>>) = {}
    <3>1. \A f : <<"cb", s, f>>[1] # "free" /\ <<"cb", s, f>> # <<"sd", s>>
      OBVIOUS
    <3> QED BY <1>3, <1>4, <3>1
  <2> QED BY <1>3, <1>4, <1>7, <1>9, <2>1 DEF SocketRefs, Live, OnlyAt
<1>12. RefTypes'
  BY <1>2, <1>4, <1>7 DEF RefTypes
<1> QED BY <1>8, <1>9, <1>10, <1>12 DEF Refs, RefInv

(* A socket whose handler has returned is set up. *)
LEMMA SetUpKept ==
    ASSUME BindInv, Refs, mishaps = {}, NEW s \in Handles, NEW fs, NEW c, AfterSetup(c, s, fs),
           SetRegistry(c.R), NEW to, sd' = [sd EXCEPT ![s] = to], refs' = [refs EXCEPT ![s] = c.refs],
           \/ to \in {"open", "connecting", "dangling"} /\ Callbacks \subseteq fs
           \/ to = "refused"
           \/ to = "destroyed" /\ s \in early,
           s \notin early => Where(Registry, <<"sd", s>>) = {refs[s]["sd"]},
           s \in early => Where(Registry, <<"sd", s>>) = {},
           ~InHandler(s)', \A t \in Handles \ {s} : InHandler(t)' <=> InHandler(t),
           UNCHANGED <<lrefs, orefs, listening, early>>
    PROVE  Refs'
<1>1. /\ \A t \in Handles : SocketRefs(Registry, t)
      /\ OtherRefs(Registry) /\ RefTypes
  BY DEF Refs, RefInv
<1>2. /\ \A t \in Handles \ {s} : Untouched(t)
      /\ sd'[s] = to /\ refs'[s] = c.refs /\ DOMAIN refs' = Handles
  BY <1>1 DEF BindInv, BindTypeOK, RefTypes, Untouched
<1>3. OtherRefs(Registry)' /\ \A t \in Handles \ {s} : SocketRefs(Registry, t)'
  BY <1>1, <1>2, ForeignKept DEF AfterSetup
<1>4. GoodRegistry(Registry)' /\ \A w : Where(Registry, w)' = Where(c.R, w)
  BY SetRegistryStep DEF AfterSetup
<1>5. SocketRefs(Registry, s)'
  <2>1. Where(c.R, <<"sd", s>>) = IF s \in early THEN {} ELSE {c.refs["sd"]}
    BY DEF AfterSetup
  <2>2. /\ \A f \in Callbacks : Where(c.R, <<"cb", s, f>>) = OnlyAt(c.refs[f])
        /\ to \in {"open", "connecting"} => \A f \in Callbacks : c.refs[f] # RefNil
    BY DEF AfterSetup
  <2> QED BY <1>2, <1>4, <2>1, <2>2 DEF SocketRefs, Live, Forgotten
<1>6. RefTypes'
  BY <1>1, <1>2 DEF RefTypes, AfterSetup
<1> QED BY <1>3, <1>4, <1>5, <1>6 DEF Refs, RefInv

(* A tcp_connect that is refused gives its sd_ref back. *)
LEMMA FailedRefs ==
    ASSUME BindInv, Refs, mishaps = {}, NEW s \in Handles, s \notin early, NEW fs, NEW c, AfterSetup(c, s, fs),
           Where(Registry, <<"sd", s>>) = {refs[s]["sd"]},
           SetRegistry(Unref(c.R, c.refs["sd"])), sd' = [sd EXCEPT ![s] = "failed"],
           ~InHandler(s)', \A t \in Handles \ {s} : InHandler(t)' <=> InHandler(t),
           UNCHANGED <<refs, lrefs, orefs, listening, early>>
    PROVE  Refs'
<1>1. /\ \A t \in Handles : SocketRefs(Registry, t)
      /\ OtherRefs(Registry) /\ RefTypes
  BY DEF Refs, RefInv
<1> DEFINE Q == Unref(c.R, c.refs["sd"])
           v == <<"sd", s>>
<1>2. v[1] # "free" /\ \A w : Foreign(w, s) => w[1] # "free" /\ w # v
  BY DEF Foreign, Own, Fields
<1>3. GoodRegistry(c.R) /\ Where(c.R, v) = {c.refs["sd"]}
  BY DEF AfterSetup
<1> HIDE DEF v
<1>4. /\ GoodRegistry(Q) /\ Where(Q, v) = {}
      /\ \A w : w[1] # "free" /\ w # v => Where(Q, w) = Where(c.R, w)
  BY <1>2, <1>3, UnrefStep
<1>5. SetRegistry(Q)
  OBVIOUS
<1> HIDE DEF Q
<1>6. \A w : Foreign(w, s) => Where(Q, w) = Where(Registry, w)
  BY <1>2, <1>4 DEF AfterSetup
<1>7. sd'[s] = "failed" /\ \A t \in Handles \ {s} : Untouched(t)
  BY DEF BindInv, BindTypeOK, Untouched
<1>8. OtherRefs(Registry)' /\ \A t \in Handles \ {s} : SocketRefs(Registry, t)'
  BY <1>1, <1>4, <1>5, <1>6, <1>7, ForeignKept
<1>9. GoodRegistry(Registry)' /\ \A w : Where(Registry, w)' = Where(Q, w)
  BY <1>4, <1>5, SetRegistryStep
<1>10. SocketRefs(Registry, s)'
  BY <1>4, <1>7, <1>9 DEF SocketRefs, Live, Forgotten, v
<1>11. RefTypes'
  BY <1>1 DEF RefTypes
<1> QED BY <1>8, <1>9, <1>10, <1>11 DEF Refs, RefInv

(* bind_loop_tcp_connect *)
LEMMA TcpConnectRefs ==
    ASSUME BindInv, Refs, NEW s \in Handles, TcpConnect(s)
    PROVE  Refs'
<1>1. /\ mishaps = {} /\ sd[s] = "none" /\ sd' = [sd EXCEPT ![s] = "setup"]
      /\ SetRegistry(NewSd(s).R) /\ refs' = [refs EXCEPT ![s] = NewSd(s).refs]
      /\ UNCHANGED <<lrefs, orefs, listening, early, frame>>
  BY DEF TcpConnect, Running, vars
<1>2. \A t \in Handles : InHandler(t)' <=> InHandler(t)
  BY <1>1 DEF InHandler
<1> QED BY <1>1, <1>2, NewSdRefs

LEMMA TcpConnectReturnsRefs ==
    ASSUME BindInv, Refs, TcpConnectReturns
    PROVE  Refs'
<1> PICK s \in Handles : s = setups[Len(setups)]
  BY DEF TcpConnectReturns, BindInv, SetupsOK
<1>1. /\ s \in Handles /\ sd[s] = "setup" /\ mishaps = {}
      /\ UNCHANGED <<lrefs, orefs, listening, early, frame>>
  BY DEF TcpConnectReturns, Running, BindInv, SetupsOK, Connect, vars
<1>2. \/ \E fs : /\ SetRegistry(Unref(CbRefs(Registry, refs[s], s, fs).R, CbRefs(Registry, refs[s], s, fs).refs["sd"]))
                 /\ sd' = [sd EXCEPT ![s] = "failed"] /\ UNCHANGED refs
      \/ /\ SetRegistry(CbRefs(Registry, refs[s], s, Callbacks).R)
         /\ sd' = [sd EXCEPT ![s] = "connecting"]
         /\ refs' = [refs EXCEPT ![s] = CbRefs(Registry, refs[s], s, Callbacks).refs]
  BY DEF TcpConnectReturns
<1>3. GoodRegistry(Registry) /\ SocketRefs(Registry, s) /\ DOMAIN refs[s] = Fields
  BY <1>1 DEF Refs, RefInv, RefTypes
<1>4. s \notin early /\ ~InHandler(s)
  BY <1>1 DEF BindInv, BindTypeOK, NewInHandler
<1>5. ~InHandler(s)' /\ \A t \in Handles : InHandler(t)' <=> InHandler(t)
  BY <1>1, <1>4 DEF InHandler
<1>6. /\ Where(Registry, <<"sd", s>>) = {refs[s]["sd"]}
      /\ \A f \in Callbacks : Where(Registry, <<"cb", s, f>>) = {} /\ refs[s][f] = RefNil
  BY <1>1, <1>3, <1>4 DEF SocketRefs, Forgotten, OnlyAt
<1>7. ASSUME NEW fs, NEW c, c = CbRefs(Registry, refs[s], s, fs) PROVE AfterSetup(c, s, fs)
  BY <1>1, <1>3, <1>6, <1>7, SetupRefs
<1>8. ASSUME NEW fs, NEW c, c = CbRefs(Registry, refs[s], s, fs),
             SetRegistry(Unref(c.R, c.refs["sd"])), sd' = [sd EXCEPT ![s] = "failed"], UNCHANGED refs
      PROVE  Refs'
  BY <1>1, <1>4, <1>5, <1>6, <1>7, <1>8, FailedRefs
<1>9. ASSUME NEW c, c = CbRefs(Registry, refs[s], s, Callbacks), SetRegistry(c.R),
             sd' = [sd EXCEPT ![s] = "connecting"], refs' = [refs EXCEPT ![s] = c.refs]
      PROVE  Refs'
  BY <1>1, <1>4, <1>5, <1>6, <1>7, <1>9, SetUpKept
<1> QED BY <1>2, <1>8, <1>9

(* bind_loop_sock_gc, until one gives back what is another's *)
LEMMA SockGcRefs ==
    ASSUME BindInv, Refs, mishaps = {}, NEW s \in Handles, SockGc(s),
           frame' = frame \/ (frame' = NoFrame /\ \A t \in Handles : ~InHandler(t)),
           UNCHANGED <<lrefs, orefs>>
    PROVE  Refs'
<1>1. /\ GoodRegistry(Registry) /\ \A t \in Handles : SocketRefs(Registry, t)
      /\ OtherRefs(Registry) /\ RefTypes
  BY DEF Refs, RefInv
<1>2. RefTypes' /\ refs' = refs /\ listening' = listening
  BY <1>1 DEF RefTypes, SockGc, CloseOpen, CloseUnopened, CloseDangling, Close, vars
<1>3. CASE mishaps' # {}
  BY <1>2, <1>3 DEF Refs, RefInv
<1>4. CASE mishaps' = {}
  <2> DEFINE Q == SockUnref(Registry, s)
  <2>1. /\ sd[s] \in {"new", "refused", "connecting", "open"} /\ s \notin early
        /\ sd' = [sd EXCEPT ![s] = "destroyed"] /\ SetRegistry(Q)
        /\ early' = (IF sd[s] = "new" THEN early \cup {s} ELSE early)
    BY <1>4 DEF SockGc, CloseOpen, CloseUnopened, CloseDangling, Live, BindInv, BindTypeOK
  <2>2. \A f \in Fields : Where(Registry, Own(s, f)) = OnlyAt(refs[s][f])
    <3>1. /\ Where(Registry, <<"sd", s>>) = {refs[s]["sd"]}
          /\ \A f \in Callbacks : Where(Registry, <<"cb", s, f>>) = OnlyAt(refs[s][f])
      BY <1>1, <2>1 DEF SocketRefs, Forgotten
    <3>2. refs[s]["sd"] # RefNil
      <4>1. refs[s]["sd"] \in DOMAIN Registry.slots /\ Registry.slots \in Seq({Registry.slots[i] : i \in DOMAIN Registry.slots})
        BY <1>1, <3>1 DEF Where, GoodRegistry
      <4> QED BY <4>1 DEF RefNil
    <3> QED BY <3>1, <3>2 DEF Fields, Own, OnlyAt
  <2>3. /\ GoodRegistry(Q)
        /\ \A f \in Fields : Where(Q, Own(s, f)) = {}
        /\ \A w : Foreign(w, s) => Where(Q, w) = Where(Registry, w)
    <3>1. DOMAIN refs[s] = Fields
      BY <1>1 DEF RefTypes
    <3> QED BY <1>1, <2>2, <3>1, SockUnrefStep DEF Foreign
  <2>4. sd'[s] = "destroyed" /\ \A t \in Handles \ {s} : Untouched(t)
    BY <1>2, <2>1, SameFrame DEF BindInv, BindTypeOK, Untouched
  <2> HIDE DEF Q
  <2>5. OtherRefs(Registry)' /\ \A t \in Handles \ {s} : SocketRefs(Registry, t)'
    BY <1>1, <1>2, <2>1, <2>3, <2>4, ForeignKept
  <2>6. GoodRegistry(Registry)' /\ \A w : Where(Registry, w)' = Where(Q, w)
    BY <2>1, <2>3, SetRegistryStep
  <2>7. SocketRefs(Registry, s)'
    <3>1. Where(Q, <<"sd", s>>) = {} /\ \A f \in Callbacks : Where(Q, <<"cb", s, f>>) = {}
      BY <2>3, CallbacksAssumption DEF Fields, Own
    <3>2. InHandler(s)' => \A f \in Callbacks : refs'[s][f] = RefNil
      BY <1>1, <1>2, SameFrame DEF SocketRefs
    <3> QED BY <2>4, <2>6, <3>1, <3>2 DEF SocketRefs, Live
  <2> QED BY <1>2, <2>5, <2>6, <2>7 DEF Refs, RefInv
<1> QED BY <1>3, <1>4

(* What every step on the registry keeps for the sockets, if it does not *)
(* concern one.                                                          *)
LEMMA SocketsKept ==
    ASSUME NEW Q, SetRegistry(Q), GoodRegistry(Q),
           \A w : w[1] \in {"sd", "cb"} => Where(Q, w) = Where(Registry, w),
           \A t \in Handles : SocketRefs(Registry, t), UNCHANGED <<sd, refs, early, frame>>
    PROVE  \A t \in Handles : SocketRefs(Registry, t)'
<1>1. \A w : w[1] \in {"sd", "cb"} => Where(Registry, w)' = Where(Registry, w)
  BY SetRegistryStep
<1> SUFFICES ASSUME NEW t \in Handles PROVE SocketRefs(Registry, t)'
  OBVIOUS
<1>2. <<"sd", t>>[1] = "sd" /\ \A f : <<"cb", t, f>>[1] = "cb"
  OBVIOUS
<1>3. /\ Where(Registry, <<"sd", t>>)' = Where(Registry, <<"sd", t>>)
      /\ \A f : Where(Registry, <<"cb", t, f>>)' = Where(Registry, <<"cb", t, f>>)
  BY <1>1, <1>2
<1> QED BY <1>3, SocketKept DEF Untouched, InHandler

(* bind_loop_tcp_listen *)
LEMMA TcpListenRefs ==
    ASSUME BindInv, Refs, NEW l \in Listeners, TcpListen(l)
    PROVE  Refs'
<1>1. mishaps = {} /\ UNCHANGED <<sd, refs, orefs, frame, early, mishaps>>
  BY DEF TcpListen, Running
<1>2. /\ GoodRegistry(Registry) /\ \A t \in Handles : SocketRefs(Registry, t)
      /\ OtherRefs(Registry) /\ RefTypes
  BY <1>1 DEF Refs, RefInv
<1> DEFINE v == <<"handler", l>>
           w == <<"listener", l>>
           hr == RefAt(Registry)
           h == Ref(Registry, v)
           nr == RefAt(h)
           n == Ref(h, w)
           m == Unref(n, hr)
           k == Unref(m, nr)
           Same(A, B) == \A x : x[1] # "free" /\ x # v /\ x # w => Where(A, x) = Where(B, x)
<1>3. v[1] # "free" /\ w[1] # "free" /\ v # w
  BY Entries
<1>4. \/ Listen(l) /\ lrefs' = [lrefs EXCEPT ![l] = <<hr, nr>>] /\ SetRegistry(n)
      \/ lrefs' = [lrefs EXCEPT ![l] = Gone] /\ (SetRegistry(k) \/ SetRegistry(h)) /\ UNCHANGED vars
  BY DEF TcpListen
<1>5. \A x : /\ x[1] \in {"sd", "cb"} => x[1] # "free" /\ x # v /\ x # w
             /\ <<"other", x>>[1] # "free" /\ <<"other", x>> # v /\ <<"other", x>> # w
             /\ x # l => /\ <<"handler", x>>[1] # "free" /\ <<"handler", x>> # v /\ <<"handler", x>> # w
                         /\ <<"listener", x>>[1] # "free" /\ <<"listener", x>> # v /\ <<"listener", x>> # w
  OBVIOUS
<1> HIDE DEF v, w
<1>6. GoodRegistry(h) /\ hr \in Where(h, v) /\ Same(h, Registry)
  BY <1>2, <1>3, RefStep
<1>7. GoodRegistry(n) /\ nr \in Where(n, w) /\ hr \in Where(n, v) /\ Same(n, Registry)
  <2>1. hr \in Where(h, v) /\ Same(h, Registry) /\ GoodRegistry(h)
    BY <1>6
  <2> HIDE DEF h, hr
  <2>2. /\ GoodRegistry(n)
        /\ Where(n, w) = Where(h, w) \cup {nr}
        /\ \A x : x[1] # "free" /\ x # w => Where(n, x) = Where(h, x)
    BY <1>3, <2>1, RefStep
  <2> HIDE DEF n, nr
  <2> QED BY <1>3, <2>1, <2>2
<1>8. GoodRegistry(k) /\ Same(k, Registry)
  <2> HIDE DEF n, nr, hr
  <2>1. GoodRegistry(n) /\ nr \in Where(n, w) /\ hr \in Where(n, v) /\ Same(n, Registry)
    BY <1>7
  <2>2. /\ GoodRegistry(m)
        /\ \A x : x[1] # "free" /\ x # v => Where(m, x) = Where(n, x)
    BY <1>3, <2>1, UnrefStep
  <2> HIDE DEF m
  <2>3. nr \in Where(m, w)
    BY <1>3, <2>1, <2>2
  <2>4. /\ GoodRegistry(k)
        /\ \A x : x[1] # "free" /\ x # w => Where(k, x) = Where(m, x)
    BY <1>3, <2>2, <2>3, UnrefStep
  <2> HIDE DEF k
  <2> QED BY <2>1, <2>2, <2>4
<1> HIDE DEF h, n, k, hr, nr
<1>9. RefTypes'
  BY <1>1, <1>2, <1>4 DEF RefTypes
<1>10. CASE Listen(l) /\ lrefs' = [lrefs EXCEPT ![l] = <<hr, nr>>] /\ SetRegistry(n)
  <2>1. GoodRegistry(Registry)' /\ \A x : Where(Registry, x)' = Where(n, x)
    BY <1>7, <1>10, SetRegistryStep
  <2>2. \A t \in Handles : SocketRefs(Registry, t)'
    BY <1>1, <1>2, <1>5, <1>7, <1>10, SocketsKept
  <2>3. OtherRefs(Registry)'
    <3>1. listening' = listening \cup {l} /\ listening \subseteq Listeners
      BY <1>10 DEF Listen, BindInv, TypeOK
    <3>2. lrefs'[l][1] = hr /\ lrefs'[l][2] = nr /\ \A i \in Listeners \ {l} : lrefs'[i] = lrefs[i]
      BY <1>2, <1>10 DEF RefTypes
    <3>3. \A i \in listening \ {l} : /\ Where(n, <<"handler", i>>) = Where(Registry, <<"handler", i>>)
                                     /\ Where(n, <<"listener", i>>) = Where(Registry, <<"listener", i>>)
      BY <1>5, <1>7
    <3>4. \A o : Where(n, <<"other", o>>) = Where(Registry, <<"other", o>>)
      BY <1>5, <1>7
    <3>5. hr \in Where(n, <<"handler", l>>) /\ nr \in Where(n, <<"listener", l>>)
      BY <1>7 DEF v, w
    <3> QED BY <1>1, <1>2, <2>1, <3>1, <3>2, <3>3, <3>4, <3>5 DEF OtherRefs
  <2> QED BY <1>9, <2>1, <2>2, <2>3 DEF Refs, RefInv
<1>11. ASSUME NEW Q, SetRegistry(Q), GoodRegistry(Q), Same(Q, Registry),
              lrefs' = [lrefs EXCEPT ![l] = Gone], UNCHANGED vars
       PROVE  Refs'
  <2>0. l \notin listening
    <3>1. lrefs[l] = Unused
      BY DEF TcpListen
    <3>2. l \in listening => lrefs[l][1] \in Where(Registry, <<"handler", l>>)
      BY <1>2 DEF OtherRefs
    <3>3. ~(0 \in DOMAIN slots)
      BY <1>2 DEF GoodRegistry, Registry
    <3> QED BY <3>1, <3>2, <3>3 DEF Unused, Where, Registry
  <2>1. GoodRegistry(Registry)' /\ \A x : Where(Registry, x)' = Where(Q, x)
    BY <1>11, SetRegistryStep
  <2>2. \A t \in Handles : SocketRefs(Registry, t)'
    BY <1>1, <1>2, <1>5, <1>11, SocketsKept
  <2>3. OtherRefs(Registry)'
    <3>1. listening' = listening /\ listening \subseteq Listeners
      BY <1>11 DEF vars, BindInv, TypeOK
    <3>2. \A i \in Listeners \ {l} : lrefs'[i] = lrefs[i]
      BY <1>2, <1>11 DEF RefTypes
    <3>3. \A i \in listening : /\ Where(Q, <<"handler", i>>) = Where(Registry, <<"handler", i>>)
                               /\ Where(Q, <<"listener", i>>) = Where(Registry, <<"listener", i>>)
      BY <1>5, <1>11, <2>0
    <3>4. \A o : Where(Q, <<"other", o>>) = Where(Registry, <<"other", o>>)
      BY <1>5, <1>11
    <3> QED BY <1>1, <1>2, <2>0, <2>1, <3>1, <3>2, <3>3, <3>4 DEF OtherRefs
  <2> QED BY <1>9, <2>1, <2>2, <2>3 DEF Refs, RefInv
<1> QED BY <1>4, <1>6, <1>8, <1>10, <1>11

(* bind_loop_listener_gc *)
LEMMA ListenerStopRefs ==
    ASSUME BindInv, Refs, NEW l \in Listeners, ListenerStop(l)
    PROVE  Refs'
<1>1. mishaps = {} /\ l \in listening /\ UNCHANGED <<sd, refs, orefs, frame, early, mishaps>>
  BY DEF ListenerStop, StopListening, Running
<1>2. /\ GoodRegistry(Registry) /\ \A t \in Handles : SocketRefs(Registry, t)
      /\ OtherRefs(Registry) /\ RefTypes
  BY <1>1 DEF Refs, RefInv
<1> DEFINE v == <<"handler", l>>
           w == <<"listener", l>>
           m == Unref(Registry, lrefs[l][1])
           k == Unref(m, lrefs[l][2])
<1>3. v[1] # "free" /\ w[1] # "free" /\ v # w
  BY Entries
<1>4. lrefs[l][1] \in Where(Registry, v) /\ lrefs[l][2] \in Where(Registry, w)
  BY <1>1, <1>2 DEF OtherRefs
<1>5. SetRegistry(k) /\ lrefs' = [lrefs EXCEPT ![l] = Gone] /\ listening' = listening \ {l}
  BY DEF ListenerStop, StopListening
<1>6. \A x : /\ x[1] \in {"sd", "cb"} => x[1] # "free" /\ x # v /\ x # w
             /\ <<"other", x>>[1] # "free" /\ <<"other", x>> # v /\ <<"other", x>> # w
             /\ x # l => /\ <<"handler", x>>[1] # "free" /\ <<"handler", x>> # v /\ <<"handler", x>> # w
                         /\ <<"listener", x>>[1] # "free" /\ <<"listener", x>> # v /\ <<"listener", x>> # w
  OBVIOUS
<1> HIDE DEF v, w
<1>7. GoodRegistry(k) /\ \A x : x[1] # "free" /\ x # v /\ x # w => Where(k, x) = Where(Registry, x)
  <2>1. /\ GoodRegistry(m)
        /\ \A x : x[1] # "free" /\ x # v => Where(m, x) = Where(Registry, x)
    BY <1>2, <1>3, <1>4, UnrefStep
  <2> HIDE DEF m
  <2>2. lrefs[l][2] \in Where(m, w)
    BY <1>3, <1>4, <2>1
  <2>3. /\ GoodRegistry(k)
        /\ \A x : x[1] # "free" /\ x # w => Where(k, x) = Where(m, x)
    BY <1>3, <2>1, <2>2, UnrefStep
  <2> HIDE DEF k
  <2> QED BY <2>1, <2>3
<1> HIDE DEF k
<1>8. GoodRegistry(Registry)' /\ \A x : Where(Registry, x)' = Where(k, x)
  BY <1>5, <1>7, SetRegistryStep
<1>9. \A t \in Handles : SocketRefs(Registry, t)'
  BY <1>1, <1>2, <1>5, <1>6, <1>7, SocketsKept
<1>10. OtherRefs(Registry)'
  <2>1. \A i \in listening \ {l} : lrefs'[i] = lrefs[i]
    BY <1>2, <1>5 DEF RefTypes, BindInv, TypeOK
  <2>2. \A i \in listening \ {l} : /\ Where(k, <<"handler", i>>) = Where(Registry, <<"handler", i>>)
                                   /\ Where(k, <<"listener", i>>) = Where(Registry, <<"listener", i>>)
    BY <1>6, <1>7
  <2>3. \A o : Where(k, <<"other", o>>) = Where(Registry, <<"other", o>>)
    BY <1>6, <1>7
  <2> QED BY <1>1, <1>2, <1>5, <1>8, <2>1, <2>2, <2>3 DEF OtherRefs
<1>11. RefTypes'
  BY <1>1, <1>2, <1>5 DEF RefTypes
<1> QED BY <1>8, <1>9, <1>10, <1>11 DEF Refs, RefInv

(* A reference of another binding *)
LEMMA OtherRefRefs ==
    ASSUME BindInv, Refs, NEW o \in Others, OtherRef(o)
    PROVE  Refs'
<1>1. mishaps = {} /\ UNCHANGED <<sd, refs, lrefs, frame, early, mishaps>> /\ listening' = listening
  BY DEF OtherRef, Running, vars
<1>2. /\ GoodRegistry(Registry) /\ \A t \in Handles : SocketRefs(Registry, t)
      /\ OtherRefs(Registry) /\ RefTypes
  BY <1>1 DEF Refs, RefInv
<1> DEFINE v == <<"other", o>>
<1>3. v[1] # "free"
  BY Entries
<1>4. \A x : /\ x[1] \in {"sd", "cb"} => x[1] # "free" /\ x # v
             /\ <<"handler", x>>[1] # "free" /\ <<"handler", x>> # v
             /\ <<"listener", x>>[1] # "free" /\ <<"listener", x>> # v
             /\ x # o => <<"other", x>>[1] # "free" /\ <<"other", x>> # v
  OBVIOUS
<1>5. ASSUME NEW Q, SetRegistry(Q), GoodRegistry(Q), NEW r, orefs' = [orefs EXCEPT ![o] = r],
             r > 0 => r \in Where(Q, v), \A x : x[1] # "free" /\ x # v => Where(Q, x) = Where(Registry, x)
      PROVE  Refs'
  <2>1. GoodRegistry(Registry)' /\ \A x : Where(Registry, x)' = Where(Q, x)
    BY <1>5, SetRegistryStep
  <2>2. \A t \in Handles : SocketRefs(Registry, t)'
    <3> HIDE DEF v
    <3> QED BY <1>1, <1>2, <1>4, <1>5, SocketsKept
  <2>3. OtherRefs(Registry)'
    <3>1. orefs'[o] = r /\ \A p \in Others \ {o} : orefs'[p] = orefs[p]
      BY <1>2, <1>5 DEF RefTypes
    <3>2. \A x : /\ Where(Q, <<"handler", x>>) = Where(Registry, <<"handler", x>>)
                 /\ Where(Q, <<"listener", x>>) = Where(Registry, <<"listener", x>>)
                 /\ x # o => Where(Q, <<"other", x>>) = Where(Registry, <<"other", x>>)
      <4> HIDE DEF v
      <4> QED BY <1>4, <1>5
    <3> QED BY <1>1, <1>2, <1>5, <2>1, <3>1, <3>2 DEF OtherRefs
  <2>4. RefTypes'
    BY <1>1, <1>2, <1>5 DEF RefTypes
  <2> QED BY <2>1, <2>2, <2>3, <2>4 DEF Refs, RefInv
<1>6. CASE /\ orefs' = [orefs EXCEPT ![o] = RefAt(Registry)]
           /\ SetRegistry(Ref(Registry, <<"other", o>>))
  <2> HIDE DEF v
  <2>1. /\ GoodRegistry(Ref(Registry, v))
        /\ Where(Ref(Registry, v), v) = Where(Registry, v) \cup {RefAt(Registry)}
        /\ \A x : x[1] # "free" /\ x # v => Where(Ref(Registry, v), x) = Where(Registry, x)
    BY <1>2, <1>3, RefStep
  <2> QED BY <1>5, <1>6, <2>1 DEF v
<1>7. CASE /\ orefs[o] > 0
           /\ orefs' = [orefs EXCEPT ![o] = RefNil]
           /\ SetRegistry(Unref(Registry, orefs[o]))
  <2>1. orefs[o] \in Where(Registry, v)
    BY <1>2, <1>7 DEF OtherRefs
  <2>2. ~(RefNil > 0)
    BY DEF RefNil
  <2> HIDE DEF v
  <2>3. /\ GoodRegistry(Unref(Registry, orefs[o]))
        /\ \A x : x[1] # "free" /\ x # v => Where(Unref(Registry, orefs[o]), x) = Where(Registry, x)
    BY <1>2, <1>3, <2>1, UnrefStep
  <2> QED BY <1>5, <1>7, <2>2, <2>3
<1> QED BY <1>6, <1>7 DEF OtherRef

(* A step that leaves the registry alone and makes no handler *)
LEMMA RegistryKept ==
    ASSUME BindInv, Refs, UNCHANGED <<refs, lrefs, orefs, slots, head, early>>, mishaps = {},
           \A s \in Handles : sd'[s] = sd[s] \/ (Live(s) /\ sd'[s] = "open"),
           \A s \in Handles : InHandler(s)' <=> InHandler(s),
           listening' = listening
    PROVE  Refs'
<1>1. /\ GoodRegistry(Registry) /\ \A t \in Handles : SocketRefs(Registry, t)
      /\ OtherRefs(Registry) /\ RefTypes
  BY DEF Refs, RefInv
<1>2. Registry' = Registry
  BY DEF Registry
<1>3. GoodRegistry(Registry)' /\ OtherRefs(Registry)' /\ RefTypes'
  BY <1>1, <1>2 DEF GoodRegistry, FreeSlots, OtherRefs, Where, RefTypes
<1>4. ASSUME NEW t \in Handles PROVE SocketRefs(Registry, t)'
  <2>1. \A w : Where(Registry, w)' = Where(Registry, w)
    BY <1>2 DEF Where
  <2>2. SocketRefs(Registry, t) /\ refs' = refs /\ (sd'[t] = sd[t] \/ (Live(t) /\ sd'[t] = "open"))
    BY <1>1
  <2>3. InHandler(t) => ~Live(t)
    BY DEF BindInv, NewInHandler, Live
  <2> QED BY <2>1, <2>2, <2>3 DEF SocketRefs, Live, Forgotten
<1> QED BY <1>3, <1>4 DEF Refs, RefInv

(* bind_loop_accept_cb up to the handler *)
LEMMA AcceptRefs ==
    ASSUME BindInv, Refs, NEW l \in Listeners, NEW s \in Handles, AcceptCb(l, s)
    PROVE  Refs'
<1>1. /\ mishaps = {} /\ sd[s] = "none" /\ UNCHANGED <<lrefs, orefs, early, listening>>
      /\ SetRegistry(NewSd(s).R) /\ refs' = [refs EXCEPT ![s] = NewSd(s).refs]
      /\ sd' = [sd EXCEPT ![s] = "new"] /\ frame'.sock = s /\ pc = "poll"
  BY DEF AcceptCb, Enter, Accept, Callback
<1>2. \A t \in Handles \ {s} : InHandler(t)' <=> InHandler(t)
  BY <1>1 DEF BindInv, NewInHandler, InHandler
<1> QED BY <1>1, <1>2, NewSdRefs

(* The handler has returned. *)
LEMMA HandlerReturnsRefs ==
    ASSUME BindInv, Refs, HandlerReturns
    PROVE  Refs'
<1>1. /\ mishaps = {} /\ frame # NoFrame /\ frame.kind = "handler" /\ frame \in Frames
      /\ UNCHANGED <<lrefs, orefs, listening, early>>
  BY DEF HandlerReturns, InFrame, vars, BindInv, BindTypeOK
<1> PICK s \in Handles : s = frame.sock
  BY <1>1 DEF Frames
<1>2. /\ s \in Handles /\ InHandler(s) /\ \A t \in Handles \ {s} : ~InHandler(t)
      /\ sd[s] = "new" \/ (sd[s] = "destroyed" /\ s \in early)
  BY <1>1 DEF Frames, InHandler, BindInv, NewInHandler
<1>3. \E fs, to :
         /\ SetRegistry(CbRefs(Registry, refs[s], s, fs).R)
         /\ sd' = [sd EXCEPT ![s] = to]
         /\ refs' = [refs EXCEPT ![s] = CbRefs(Registry, refs[s], s, fs).refs]
         /\ \/ to \in {"open", "dangling"} /\ Callbacks \subseteq fs
            \/ to = "refused"
            \/ to = "destroyed" /\ s \in early
         /\ frame' = NoFrame \/ frame' = [frame EXCEPT !.kind = "connect"]
  <2>1. CASE \E fs \in Prefixes :
                /\ SetRegistry(CbRefs(Registry, refs[s], s, fs).R)
                /\ sd' = [sd EXCEPT ![s] = IF @ = "new" THEN "refused" ELSE @]
                /\ refs' = [refs EXCEPT ![s] = CbRefs(Registry, refs[s], s, fs).refs]
                /\ frame' = NoFrame
    <3>1. sd' = [sd EXCEPT ![s] = "refused"] \/ (sd' = [sd EXCEPT ![s] = "destroyed"] /\ s \in early)
      BY <1>2, <2>1
    <3> QED BY <2>1, <3>1
  <2>2. CASE /\ SetRegistry(CbRefs(Registry, refs[s], s, Callbacks).R)
             /\ sd' = [sd EXCEPT ![s] = "open"] \/ sd' = [sd EXCEPT ![s] = "dangling"]
             /\ refs' = [refs EXCEPT ![s] = CbRefs(Registry, refs[s], s, Callbacks).refs]
             /\ frame' = NoFrame \/ frame' = [frame EXCEPT !.kind = "connect"]
    BY <2>2
  <2> QED BY <2>1, <2>2 DEF HandlerReturns
<1>4. \A t \in Handles : ~InHandler(t)'
  BY <1>1, <1>3 DEF InHandler, Frames
<1>5. GoodRegistry(Registry) /\ SocketRefs(Registry, s) /\ DOMAIN refs[s] = Fields
  BY <1>1, <1>2 DEF Refs, RefInv, RefTypes
<1>6. /\ s \notin early => Where(Registry, <<"sd", s>>) = {refs[s]["sd"]}
      /\ s \in early => Where(Registry, <<"sd", s>>) = {}
      /\ \A f \in Callbacks : Where(Registry, <<"cb", s, f>>) = {} /\ refs[s][f] = RefNil
  BY <1>2, <1>5 DEF SocketRefs, Forgotten, OnlyAt
<1>7. ASSUME NEW fs, NEW c, c = CbRefs(Registry, refs[s], s, fs) PROVE AfterSetup(c, s, fs)
  BY <1>2, <1>5, <1>6, <1>7, SetupRefs
<1>8. ASSUME NEW fs, NEW c, c = CbRefs(Registry, refs[s], s, fs), SetRegistry(c.R),
             NEW to, sd' = [sd EXCEPT ![s] = to], refs' = [refs EXCEPT ![s] = c.refs],
             \/ to \in {"open", "dangling"} /\ Callbacks \subseteq fs
             \/ to = "refused"
             \/ to = "destroyed" /\ s \in early
      PROVE  Refs'
  BY <1>1, <1>2, <1>4, <1>6, <1>7, <1>8, SetUpKept
<1> PICK fs, to :
         /\ SetRegistry(CbRefs(Registry, refs[s], s, fs).R)
         /\ sd' = [sd EXCEPT ![s] = to]
         /\ refs' = [refs EXCEPT ![s] = CbRefs(Registry, refs[s], s, fs).refs]
         /\ \/ to \in {"open", "dangling"} /\ Callbacks \subseteq fs
            \/ to = "refused"
            \/ to = "destroyed" /\ s \in early
  BY <1>3
<1> PICK c : c = CbRefs(Registry, refs[s], s, fs)
  OBVIOUS
<1> QED BY <1>8

(* Every step keeps the references. *)
LEMMA RefsNext == ASSUME BindInv, Refs, BindNext PROVE Refs'
<1>1. ASSUME NEW s \in Handles, SockClose(s) PROVE Refs'
  BY <1>1, SockGcRefs DEF SockClose, Running
<1>2. ASSUME NEW s \in Handles, SockWrite(s) PROVE Refs'
  <2>1. mishaps' # {} /\ UNCHANGED <<refs, lrefs, orefs>>
    BY <1>2 DEF SockWrite
  <2> QED BY <2>1 DEF Refs, RefInv, RefTypes
<1>3. ASSUME NEW s \in Handles, ConnectCb(s) \/ ErrorCb(s) \/ ReadCb(s) PROVE Refs'
  <2>1. /\ UNCHANGED <<refs, lrefs, orefs, slots, head, listening, early>> /\ mishaps = {}
        /\ frame'.kind # "handler" /\ pc = "poll"
    BY <1>3 DEF ConnectCb, ErrorCb, ReadCb, Connected, SocketError, Eof, Readable, Enter, Callback
  <2>2. \A t \in Handles : ~InHandler(t) /\ ~InHandler(t)'
    BY <2>1 DEF InHandler, BindInv, NewInHandler
  <2>3. \A t \in Handles : sd'[t] = sd[t] \/ (Live(t) /\ sd'[t] = "open")
    <3>1. CASE ConnectCb(s)
      <4>1. sock[s] # "none" /\ sd' = [sd EXCEPT ![s] = "open"]
        BY <3>1 DEF ConnectCb, Connected
      <4>2. Live(s)
        BY <2>2, <4>1 DEF BindInv, HandlesAreOwned
      <4> QED BY <4>1, <4>2 DEF BindInv, BindTypeOK
    <3>2. CASE UNCHANGED sd
      BY <3>2
    <3> QED BY <1>3, <3>1, <3>2 DEF ErrorCb, ReadCb
  <2> QED BY <2>1, <2>2, <2>3, RegistryKept
<1>4. CASE ReadReturns \/ ConnectReturns
  <2>1. /\ UNCHANGED <<sd, refs, lrefs, orefs, slots, head, listening, early>> /\ mishaps = {}
        /\ frame.kind # "handler"
    BY <1>4 DEF ReadReturns, ConnectReturns, InFrame, vars
  <2>2. frame' = NoFrame \/ frame'.kind # "handler"
    BY <1>4 DEF ReadReturns, ConnectReturns, InFrame, BindInv, BindTypeOK, Frames
  <2>3. \A t \in Handles : ~InHandler(t) /\ ~InHandler(t)'
    BY <2>1, <2>2 DEF InHandler
  <2> QED BY <2>1, <2>3, RegistryKept
<1>6. CASE ErrorReturns
  <2>1. frame.kind = "error" /\ mishaps = {} /\ frame' = NoFrame /\ UNCHANGED <<lrefs, orefs>>
    BY <1>6 DEF ErrorReturns, InFrame
  <2>2. \A t \in Handles : ~InHandler(t) /\ ~InHandler(t)'
    BY <2>1 DEF InHandler
  <2> DEFINE v == slots[refs[frame.sock]["sd"]]
  <2>3. CASE SockGc(v[2]) /\ v[2] \in server
    <3>1. v[2] \in Handles
      BY <2>3 DEF BindInv, BindTypeOK
    <3> HIDE DEF v
    <3> QED BY <2>1, <2>2, <2>3, <3>1, SockGcRefs
  <2>4. CASE CallbackRaises /\ UNCHANGED <<sd, refs, slots, head, early>>
    BY <2>1, <2>2, <2>4, RegistryKept DEF CallbackRaises
  <2> QED BY <1>6, <2>3, <2>4 DEF ErrorReturns
<1>7. CASE ScriptRaises
  <2>1. \A t \in Handles : ~InHandler(t) /\ ~InHandler(t)'
    BY <1>7 DEF ScriptRaises, CallbackRaises, InFrame, InHandler
  <2> QED BY <1>7, <2>1, RegistryKept DEF ScriptRaises, CallbackRaises
<1>8. CASE LoopRuns
  <2>1. listening' = listening /\ frame' = frame
    BY <1>8 DEF LoopRuns, StartLoop, CallbackReturns, Whenever, NoEvents, LoopError, bindvars
  <2>2. \A t \in Handles : InHandler(t)' <=> InHandler(t)
    BY <2>1 DEF InHandler
  <2> QED BY <1>8, <2>1, <2>2, RegistryKept DEF LoopRuns, bindvars
<1> QED
  BY <1>1, <1>2, <1>3, <1>4, <1>6, <1>7, <1>8, TcpConnectRefs, TcpConnectReturnsRefs,
     TcpListenRefs, ListenerStopRefs, OtherRefRefs, AcceptRefs, HandlerReturnsRefs
  DEF BindNext, BindCalls, BindEvents, Returns

(* The registry, the free list and the references agree in every state. *)
LEMMA BindRefs == BindSpec => [](BindInv /\ Refs)
<1> DEFINE Inv == LoopInv /\ BindInv /\ Refs
<1>1. BindInit => Inv
  <2> SUFFICES ASSUME BindInit PROVE Inv
    OBVIOUS
  <2>1. LoopInv /\ BindInv
    BY InitLoopInv DEF BindInit, Init, LoopInv, BindInv, BindTypeOK, SdStates, NewInHandler,
       SetupsOK, HandlesAreOwned, Live, InHandler
  <2>2. RefTypes
    BY DEF BindInit, RefTypes, NoRefs, Fields
  <2>3. DOMAIN Registry.slots = {} /\ Registry.head = 0
    BY DEF BindInit, Registry
  <2>4. \A w : Where(Registry, w) = {}
    BY <2>3 DEF Where
  <2>5. GoodRegistry(Registry)
    <3>1. Registry.slots \in Seq({Registry.slots[i] : i \in DOMAIN Registry.slots})
      BY DEF BindInit, Registry
    <3> QED BY <2>3, <3>1 DEF GoodRegistry, FreeSlots
  <2>6. \A s \in Handles : SocketRefs(Registry, s)
    <3>1. \A s \in Handles : \A f \in Callbacks : refs[s][f] = RefNil
      BY DEF BindInit, NoRefs
    <3> QED BY <2>4, <3>1 DEF BindInit, SocketRefs, Live, OnlyAt
  <2>7. OtherRefs(Registry)
    BY DEF BindInit, Init, OtherRefs
  <2> QED BY <2>1, <2>2, <2>5, <2>6, <2>7 DEF Refs, RefInv
<1>2. Inv /\ [BindNext]_allvars => Inv'
  <2> SUFFICES ASSUME Inv, [BindNext]_allvars PROVE Inv'
    OBVIOUS
  <2>1. LoopInv'
    <3>1. [Next]_vars
      BY BindStepIsLoopStep DEF allvars, BindInv, BindTypeOK, SetupsOK
    <3> QED BY <3>1, NextLoopInv
  <2>2. CASE BindNext
    <3>1. TypeOK'
      BY <2>1 DEF LoopInv
    <3> QED BY <2>1, <2>2, <3>1, BindInvNext, RefsNext
  <2>3. CASE UNCHANGED allvars
    <3>1. BindInv'
      BY <2>1, <2>3 DEF allvars, vars, bindvars, BindInv, BindTypeOK, NewInHandler,
         SetupsOK, HandlesAreOwned, Live, InHandler, LoopInv
    <3>2. /\ UNCHANGED <<refs, lrefs, orefs, slots, head, early>>
          /\ UNCHANGED <<sd, frame, mishaps, listening>>
          /\ \A s \in Handles : InHandler(s)' <=> InHandler(s)
      BY <2>3 DEF allvars, vars, bindvars, InHandler
    <3>3. mishaps = {} => Refs'
      BY <3>2, RegistryKept
    <3>4. mishaps # {} => Refs'
      BY <3>2 DEF Refs, RefInv, RefTypes
    <3> QED BY <2>1, <3>1, <3>3, <3>4
  <2> QED BY <2>2, <2>3
<1> QED
  BY <1>1, <1>2, PTL DEF BindSpec

(***************************************************************************)
(* However slots of the registry are given back and taken again, in the    *)
(* middle of callbacks and handlers too, the references of a live socket,  *)
(* of a listener and of the other bindings lead to their own objects: for  *)
(* any number of each.  All but the sd_ref of a socket that was closed in  *)
(* its own handler, and until such a socket is closed again or a socket    *)
(* without a handle is used.                                               *)
(***************************************************************************)
THEOREM BindRefsAreOwn == BindSpec => []RefsAreOwn
<1>1. BindInv /\ Refs => RefsAreOwn
  <2> SUFFICES ASSUME BindInv, Refs, mishaps = {} PROVE RefsAreOwn
    BY DEF RefsAreOwn
  <2>1. (\A s \in Handles : SocketRefs(Registry, s)) /\ OtherRefs(Registry)
    BY DEF Refs, RefInv
  <2>2. \A w, r : r \in Where(Registry, w) => slots[r] = w
    BY DEF Where, Registry
  <2>3. ASSUME NEW s \in Handles, Live(s)
        PROVE  /\ s \notin early => slots[refs[s]["sd"]] = <<"sd", s>>
               /\ \A f \in Callbacks : slots[refs[s][f]] = <<"cb", s, f>>
    <3>1. s \notin early => refs[s]["sd"] \in Where(Registry, <<"sd", s>>)
      BY <2>1, <2>3 DEF SocketRefs, Live
    <3>2. \A f \in Callbacks : refs[s][f] \in Where(Registry, <<"cb", s, f>>)
      BY <2>1, <2>3 DEF SocketRefs, Live, Forgotten, OnlyAt
    <3> QED BY <2>2, <3>1, <3>2
  <2>4. /\ \A l \in listening : slots[lrefs[l][1]] = <<"handler", l>> /\ slots[lrefs[l][2]] = <<"listener", l>>
        /\ \A o \in Others : orefs[o] > 0 => slots[orefs[o]] = <<"other", o>>
    BY <2>1, <2>2 DEF OtherRefs
  <2> QED BY <2>3, <2>4 DEF RefsAreOwn
<1> QED BY <1>1, BindRefs, PTL

(***************************************************************************)
(* bind_loop_sock_gc leaves no reference behind: nothing of a socket that  *)
(* is closed, but not in its own handler, stays in the registry, to be     *)
(* called or to keep it from being collected.                              *)
(***************************************************************************)
THEOREM BindClosedAreForgotten == BindSpec => []ClosedAreForgotten
<1>1. BindInv /\ Refs => ClosedAreForgotten
  <2> SUFFICES ASSUME BindInv, Refs, mishaps = {}, NEW s \in Handles \ early, sd[s] = "destroyed",
                      NEW i \in DOMAIN slots
               PROVE  slots[i] # <<"sd", s>> /\ \A f \in Callbacks : slots[i] # <<"cb", s, f>>
    BY DEF ClosedAreForgotten
  <2>1. Where(Registry, <<"sd", s>>) = {} /\ \A f \in Callbacks : Where(Registry, <<"cb", s, f>>) = {}
    BY DEF Refs, RefInv, SocketRefs, Forgotten
  <2>2. \A w : Where(Registry, w) = {} => slots[i] # w
    BY DEF Where, Registry
  <2> QED BY <2>1, <2>2
<1> QED BY <1>1, BindRefs, PTL

-----------------------------------------------------------------------------
(* The devices of a script. *)

(* The initial state, with no device, satisfies the inductive invariant. *)
LEMMA InitIndInv == BdevInit => BdevIndInv
BY IntervalAssumption DEF BdevInit, BdevIndInv, BdevTypeOK, StackIsOpen, OldestBelow, RefsAreBelow,
       CondemnedAreFree, Open

(* A finalizer disturbs no device that is still open. *)
LEMMA FinalizeStep ==
    ASSUME BdevIndInv, NEW d \in Devs, Finalize(d), UNCHANGED phase,
           gc_counter' \in 0 .. GC_INTERVAL - 1
    PROVE  BdevIndInv'
<1> USE DEF BdevIndInv
<1>1. BdevTypeOK'
  BY DEF BdevTypeOK, Finalize
<1>2. Open' = Open \ {d} /\ d \in condemned /\ condemned' = condemned \ {d}
  BY DEF BdevTypeOK, Finalize, Open, NextToFinalize
<1>3. \A u \in Open' : dev_refs'[u] = dev_refs[u] /\ below'[u] = below[u] /\ born'[u] = born[u] /\ u \in Open
  BY <1>2 DEF BdevTypeOK, Finalize, Open
<1>4. \A u \in Open' : d \notin below[u]
  <2> SUFFICES ASSUME NEW u \in Open', d \in below[u] PROVE FALSE
    OBVIOUS
  <2>1. u \in Open /\ u # d /\ dev_refs[u] = below[u]
    BY <1>2 DEF RefsAreBelow
  <2>2. CASE phase \notin {"closing", "over"}
    BY <2>1, <2>2, <1>2 DEF CondemnedAreFree
  <2>3. CASE phase = "closing"
    <3>1. u \in condemned
      BY <2>1, <2>3 DEF CondemnedAreFree
    <3>2. born[u] <= born[d]
      BY <3>1 DEF Finalize, NextToFinalize
    <3>3. born[d] < born[u]
      BY <2>1 DEF OldestBelow
    <3>4. born[d] \in Nat /\ born[u] \in Nat
      BY <2>1 DEF BdevTypeOK, Open
    <3> QED BY <3>2, <3>3, <3>4
  <2>4. CASE phase = "over"
    BY <2>1, <2>4 DEF CondemnedAreFree
  <2> QED BY <2>2, <2>3, <2>4
<1>5. StackIsOpen'
  <2>1. ASSUME NEW u \in Open', NEW b \in below'[u] PROVE dev'[b] = "open"
    <3>1. b \in below[u] /\ u \in Open /\ b # d
      BY <1>3, <1>4, <2>1
    <3>2. dev[b] = "open"
      BY <3>1 DEF StackIsOpen
    <3> QED BY <3>1, <3>2 DEF Finalize, BdevTypeOK, Open
  <2>2. ASSUME phase' \notin {"closing", "over"}, NEW h \in held' PROVE dev'[h] = "open"
    <3>1. h \in held /\ phase \notin {"closing", "over"}
      BY <2>2 DEF Finalize
    <3>2. dev[h] = "open" /\ h # d
      BY <3>1, <1>2 DEF StackIsOpen, CondemnedAreFree
    <3> QED BY <3>1, <3>2 DEF Finalize, BdevTypeOK
  <2> QED BY <2>1, <2>2 DEF StackIsOpen
<1>6. OldestBelow'
  <2>1. clock' = clock /\ born' = born
    BY DEF Finalize
  <2> QED BY <1>3, <2>1 DEF OldestBelow
<1>7. RefsAreBelow'
  BY <1>3 DEF RefsAreBelow
<1>8. CondemnedAreFree'
  <2>1. held' = held
    BY DEF Finalize
  <2> QED BY <1>2, <1>3, <2>1 DEF CondemnedAreFree
<1> QED BY <1>1, <1>5, <1>6, <1>7, <1>8

(* A cycle condemns what neither a variable nor an open device refers to. *)
LEMMA MarkStep ==
    ASSUME BdevIndInv, Mark, gc_counter' \in 0 .. GC_INTERVAL - 1,
           phase \notin {"closing", "over"}, phase' \in {"run", "finalize"}
    PROVE  BdevIndInv'
<1> USE DEF BdevIndInv
<1>1. Open' = Open /\ Garbage \subseteq Open
  BY DEF Mark, heap, Open, Garbage
<1>2. BdevTypeOK'
  BY <1>1 DEF BdevTypeOK, Mark, heap, Open
<1>3. StackIsOpen' /\ OldestBelow' /\ RefsAreBelow'
  BY <1>1 DEF StackIsOpen, OldestBelow, RefsAreBelow, Mark, heap
<1>4. CondemnedAreFree'
  BY <1>1 DEF CondemnedAreFree, Mark, heap, Garbage
<1> QED BY <1>2, <1>3, <1>4

(* A new device is younger than the devices it is stacked on, which the    *)
(* script holds.                                                           *)
LEMMA WrapStep ==
    ASSUME BdevIndInv, NEW d \in Devs, NEW S \in SUBSET held, Wrap(d, S, S), dev[d] = "none",
           phase = "run", UNCHANGED <<phase, gc_counter, condemned>>
    PROVE  BdevIndInv'
<1> USE DEF BdevIndInv
<1>0. S \subseteq Devs
  BY DEF BdevTypeOK
<1>1. BdevTypeOK'
  BY <1>0 DEF BdevTypeOK, Wrap
<1>2. Open' = Open \cup {d} /\ d \notin Open /\ d \in Devs
  BY DEF BdevTypeOK, Wrap, Open
<1>3. \A u \in Open : u # d /\ dev_refs'[u] = dev_refs[u] /\ below'[u] = below[u] /\ born'[u] = born[u]
  BY <1>2 DEF BdevTypeOK, Wrap, Open
<1>4. dev_refs'[d] = S /\ below'[d] = S /\ born'[d] = clock /\ clock' = clock + 1 /\ held' = held \cup {d}
  BY <1>0 DEF BdevTypeOK, Wrap
<1>5. \A s \in S : dev[s] = "open" /\ s \in Open
  BY <1>0 DEF StackIsOpen, Open
<1>6. \A e \in Devs : dev[e] = "open" => dev'[e] = "open"
  BY DEF BdevTypeOK, Wrap
<1>7. dev'[d] = "open"
  BY DEF BdevTypeOK, Wrap
<1>8. StackIsOpen'
  <2>1. ASSUME NEW u \in Open', NEW b \in below'[u] PROVE dev'[b] = "open"
    <3>1. CASE u = d
      BY <3>1, <2>1, <1>0, <1>4, <1>5, <1>6
    <3>2. CASE u \in Open
      <4>1. b \in below[u] /\ b \in Devs
        BY <3>2, <2>1, <1>3 DEF BdevTypeOK, Open
      <4> QED BY <4>1, <3>2, <1>6 DEF StackIsOpen
    <3> QED BY <3>1, <3>2, <1>2
  <2>2. ASSUME NEW h \in held' PROVE dev'[h] = "open"
    <3>1. h = d \/ (h \in Devs /\ h \in held)
      BY <2>2, <1>4 DEF BdevTypeOK
    <3> QED BY <3>1, <1>6, <1>7 DEF StackIsOpen
  <2> QED BY <2>1, <2>2 DEF StackIsOpen
<1>9. OldestBelow'
  <2>1. clock \in Nat /\ \A u \in Open : born[u] \in Nat
    BY DEF BdevTypeOK, Open
  <2>2. ASSUME NEW u \in Open' PROVE born'[u] < clock'
    <3>1. CASE u = d
      BY <3>1, <2>1, <1>4
    <3>2. CASE u \in Open
      <4>1. born[u] < clock
        BY <3>2 DEF OldestBelow
      <4> QED BY <4>1, <3>2, <2>1, <1>3, <1>4
    <3> QED BY <3>1, <3>2, <1>2
  <2>3. ASSUME NEW u \in Open', NEW b \in below'[u] PROVE born'[b] < born'[u]
    <3>1. CASE u = d
      <4>1. b \in Open /\ born[b] < clock
        BY <3>1, <2>3, <1>4, <1>5 DEF OldestBelow
      <4> QED BY <4>1, <3>1, <1>3, <1>4
    <3>2. CASE u \in Open
      <4>1. b \in below[u] /\ b \in Open
        BY <3>2, <2>3, <1>3 DEF StackIsOpen, BdevTypeOK, Open
      <4>2. born[b] < born[u]
        BY <4>1, <3>2 DEF OldestBelow
      <4> QED BY <4>1, <4>2, <3>2, <1>3
    <3> QED BY <3>1, <3>2, <1>2
  <2> QED BY <2>2, <2>3 DEF OldestBelow
<1>10. RefsAreBelow'
  BY <1>2, <1>3, <1>4 DEF RefsAreBelow
<1>11. CondemnedAreFree'
  <2>1. condemned' \subseteq Open' /\ condemned' = condemned /\ phase' = "run"
    BY <1>2 DEF CondemnedAreFree
  <2>2. condemned \cap held' = {}
    BY <1>2, <1>4 DEF CondemnedAreFree
  <2>3. ASSUME NEW u \in Open' PROVE condemned \cap dev_refs'[u] = {}
    <3>1. CASE u = d
      BY <3>1, <1>4 DEF CondemnedAreFree
    <3>2. CASE u \in Open
      BY <3>2, <1>3 DEF CondemnedAreFree
    <3> QED BY <3>1, <3>2, <1>2
  <2> QED BY <2>1, <2>2, <2>3 DEF CondemnedAreFree
<1> QED BY <1>1, <1>8, <1>9, <1>10, <1>11

(* References nobody has, and variables that go away, leave the devices be. *)
LEMMA RestStep ==
    ASSUME BdevIndInv, UNCHANGED <<heap, condemned>>, lost' \subseteq Devs,
           held' \subseteq held, gc_counter' \in 0 .. GC_INTERVAL - 1,
           \/ phase' = phase
           \/ phase = "run" /\ phase' = "collect"
           \/ phase = "closing" /\ condemned = {} /\ phase' = "over"
    PROVE  BdevIndInv'
<1> USE DEF BdevIndInv
<1>1. BdevTypeOK'
  BY DEF BdevTypeOK, heap
<1>2. Open' = Open
  BY DEF heap, Open
<1>3. StackIsOpen' /\ OldestBelow' /\ RefsAreBelow'
  BY <1>2 DEF StackIsOpen, OldestBelow, RefsAreBelow, heap
<1>4. CondemnedAreFree'
  BY <1>2 DEF CondemnedAreFree, heap
<1> QED BY <1>1, <1>3, <1>4

(* Every step preserves the inductive invariant. *)
LEMMA NextIndInv == BdevIndInv /\ [BdevNext]_bdev_vars => BdevIndInv'
<1> SUFFICES ASSUME BdevIndInv, [BdevNext]_bdev_vars PROVE BdevIndInv'
  OBVIOUS
<1>0. gc_counter \in 0 .. GC_INTERVAL - 1 /\ lost \subseteq Devs /\ held \subseteq Devs
  BY DEF BdevIndInv, BdevTypeOK
<1>1. CASE \E d \in Devs : BindBase(d)
  <2>1. PICK d \in Devs : BindBase(d)
    BY <1>1
  <2>2. CASE Wrap(d, {}, {})
    BY <2>1, <2>2, WrapStep DEF BindBase
  <2>3. CASE WrapNull({})
    BY <2>1, <2>3, <1>0, RestStep DEF BindBase, WrapNull
  <2> QED BY <2>1, <2>2, <2>3 DEF BindBase
<1>2. CASE \E d \in Devs : Drop(d)
  BY <1>2, <1>0, RestStep DEF Drop
<1>3. CASE \E d \in Devs, S \in SUBSET Devs : BindLayer(d, S)
  <2>1. PICK d \in Devs, S \in SUBSET Devs : BindLayer(d, S)
    BY <1>3
  <2>2. CASE Wrap(d, S, S)
    <3>1. S \in SUBSET held /\ dev[d] = "none" /\ phase = "run" /\ UNCHANGED <<phase, gc_counter, condemned>>
      BY <2>1 DEF BindLayer
    <3> QED BY <2>2, <3>1, WrapStep
  <2>3. CASE WrapNull(S)
    BY <2>1, <2>3, <1>0, RestStep DEF BindLayer, WrapNull
  <2> QED BY <2>1, <2>2, <2>3 DEF BindLayer
<1>4. CASE \E S \in SUBSET Devs : BadArgument(S)
  BY <1>4, <1>0, RestStep DEF BadArgument
<1>5. CASE Stop
  BY <1>5, <1>0, RestStep DEF Stop
<1>6. CASE Allocation
  <2>1. phase = "run" /\ phase' = "run" /\ gc_counter' = gc_counter
    BY <1>6 DEF Allocation
  <2>2. CASE Mark
    BY <2>1, <2>2, <1>0, MarkStep
  <2>3. CASE \E d \in Devs : Finalize(d)
    BY <2>1, <2>3, <1>0, FinalizeStep
  <2> QED BY <1>6, <2>2, <2>3 DEF Allocation, CollectorStep
<1>7. CASE GcLoop
  <2>1. phase = "run" /\ phase' = "run"
    BY <1>7 DEF GcLoop
  <2>2. gc_counter' \in 0 .. GC_INTERVAL - 1
    BY <1>7, <1>0, IntervalAssumption DEF GcLoop
  <2>3. CASE Mark
    BY <2>1, <2>2, <2>3, MarkStep
  <2>4. CASE \E d \in Devs : Finalize(d)
    BY <2>1, <2>2, <2>4, FinalizeStep
  <2>5. CASE UNCHANGED <<heap, lost, held, condemned>>
    BY <2>1, <2>2, <2>5, <1>0, RestStep
  <2> QED BY <1>7, <2>3, <2>4, <2>5 DEF GcLoop, CollectorStep
<1>8. CASE FullCollect
  BY <1>8, <1>0, MarkStep DEF FullCollect
<1>9. CASE LuaClose
  <2>1. Open' = Open
    BY <1>9 DEF LuaClose, heap, Open
  <2>2. BdevTypeOK'
    BY <1>9, <2>1 DEF BdevIndInv, BdevTypeOK, LuaClose, heap, Open
  <2>3. StackIsOpen' /\ OldestBelow' /\ RefsAreBelow'
    BY <1>9, <2>1 DEF BdevIndInv, StackIsOpen, OldestBelow, RefsAreBelow, LuaClose, heap
  <2>4. CondemnedAreFree'
    BY <1>9, <2>1 DEF CondemnedAreFree, LuaClose, heap
  <2> QED BY <2>2, <2>3, <2>4 DEF BdevIndInv
<1>10. CASE FinalizeAtEnd
  BY <1>10, <1>0, FinalizeStep DEF FinalizeAtEnd
<1>11. CASE Exit
  BY <1>11, <1>0, RestStep DEF Exit
<1>12. CASE UNCHANGED bdev_vars
  BY <1>12, <1>0, RestStep DEF bdev_vars, heap
<1> QED BY <1>1, <1>2, <1>3, <1>4, <1>5, <1>6, <1>7, <1>8, <1>9, <1>10, <1>11, <1>12
        DEF BdevNext, Script, Ending

(* BdevIndInv holds in every reachable state. *)
THEOREM BindBdevsIndInv == BdevSpec => []BdevIndInv
<1>1. BdevInit => BdevIndInv
  BY InitIndInv
<1>2. BdevIndInv /\ [BdevNext]_bdev_vars => BdevIndInv'
  BY NextIndInv
<1> QED BY <1>1, <1>2, PTL DEF BdevSpec

(***************************************************************************)
(* For any number of devices: whatever a script stacks and lets go of,     *)
(* and whenever the collector runs, no open device points to a closed one. *)
(***************************************************************************)
THEOREM BindBdevsStackIsOpen == BdevSpec => []StackIsOpen
<1>1. BdevIndInv => StackIsOpen
  BY DEF BdevIndInv
<1> QED BY BindBdevsIndInv, <1>1, PTL
=============================================================================
