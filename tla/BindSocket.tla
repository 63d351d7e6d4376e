----------------------------- MODULE BindSocket -----------------------------
(***************************************************************************)
(* Sockets and listeners as a script has them, src/src/lua/bind-socket.c,  *)
(* on top of the event loop: every step here is a step of EventLoop, or    *)
(* leaves the loop alone.                                                  *)
(*                                                                         *)
(* A struct socket_data stays in the registry, by its sd_ref and those of  *)
(* its four callbacks, from its creation to bind_loop_sock_gc.  References *)
(* are slots, which luaL_ref takes from a free list and luaL_unref puts    *)
(* back on it: a slot that is used after it was given back may be another  *)
(* object's.                                                               *)
(*                                                                         *)
(* Sockets that tcp_connect makes are clients, those that are accepted     *)
(* servers.  bind_loop_socket_setmetatable gives the metatable to what is  *)
(* at the bottom of the stack: the socket for a server, but the name of    *)
(* the host for a client, which so has no methods and no finalizer, and    *)
(* which bind_loop_sock_gc refuses with an error.                          *)
(*                                                                         *)
(* A handler function gets its socket before that has callbacks or a       *)
(* handle.  If it closes the socket there, the socket is set up all the    *)
(* same when the function returns: it lives on without its sd_ref, which   *)
(* leads to whatever takes that slot.  Such a socket is in early.          *)
(***************************************************************************)
EXTENDS EventLoop, Sequences

CONSTANTS
    Others,            \* what else has a reference: timers, devices
    Callbacks,         \* bound on the four callbacks, as far as they are told apart
    MaxChunks,         \* bound on the buffers' worth of data in a read event
    NoFrame

(* The calls of a script from C: its kind, its socket, and for a read event *)
(* the callbacks that are left                                              *)
Frames == [kind : {"connect", "error", "read", "handler"}, sock : Handles, chunks : 1 .. MaxChunks]

ASSUME ChunksAssumption == MaxChunks \in Nat \ {0}
ASSUME FrameAssumption == NoFrame \notin Frames
ASSUME CallbacksAssumption == Callbacks \subseteq {"read", "eof", "connect", "error"}

VARIABLES
    sd,                \* the state of each struct socket_data
    server,            \* the sockets with the metatable "druid socket"
    refs,              \* sd_ref and the callbacks' references
    lrefs,             \* handler_ref and listener_ref
    orefs,             \* the references of the others
    slots, head,       \* the registry and its free list
    frame,             \* the callback of this module that is called
    setups,            \* the sockets whose tcp_connect has called its handler
    early,             \* the sockets that were closed in their own handler
    mishaps            \* uses of what was freed, where the model ends

bindvars == <<sd, server, refs, lrefs, orefs, slots, head, frame, setups, early, mishaps>>
allvars == <<vars, bindvars>>

(* The members of struct socket_cbrefs that are referenced before one that is *)
(* no function                                                                *)
Prefixes == {{}, {"read"}, {"read", "eof"}, {"read", "eof", "connect"}}
RefNil == -1                                                        \* LUA_REFNIL
NoRefs == [f \in Callbacks \cup {"sd"} |-> RefNil]

-----------------------------------------------------------------------------
(* luaL_ref and luaL_unref on a registry R *)

Registry == [slots |-> slots, head |-> head]

Next1(v) == IF v[1] = "free" THEN v[2] ELSE 0
RefAt(R) == IF R.head = 0 THEN Len(R.slots) + 1 ELSE R.head
Ref(R, v) ==
    IF R.head = 0 THEN [slots |-> Append(R.slots, v), head |-> 0]
    ELSE [slots |-> [R.slots EXCEPT ![R.head] = v], head |-> Next1(R.slots[R.head])]
Unref(R, r) ==
    IF r < 0 THEN R
    ELSE [slots |-> [R.slots EXCEPT ![r] = <<"free", R.head>>], head |-> r]

(* handler_ref and listener_ref before tcp_listen and after bind_loop_listener_gc *)
Unused == <<0, 0>>
Gone == <<RefNil, RefNil>>

SetRegistry(R) == slots' = R.slots /\ head' = R.head

(* bind_loop_sock_setup_cbrefs, for those fields that are in fs *)
RefCb(a, s, f, fs) ==
    IF f \in fs \cap Callbacks
      THEN [R |-> Ref(a.R, <<"cb", s, f>>), refs |-> [a.refs EXCEPT ![f] = RefAt(a.R)]]
      ELSE a
CbRefs(R, rs, s, fs) ==
    LET read == RefCb([R |-> R, refs |-> rs], s, "read", fs)
        eof == RefCb(read, s, "eof", fs)
        connect == RefCb(eof, s, "connect", fs)
    IN  RefCb(connect, s, "error", fs)

NewSd(s) == [R |-> Ref(Registry, <<"sd", s>>), refs |-> [NoRefs EXCEPT !["sd"] = RefAt(Registry)]]

(* The references that bind_loop_sock_gc gives back *)
UnrefField(R, s, f) == IF f \in DOMAIN refs[s] THEN Unref(R, refs[s][f]) ELSE R
UnrefCbs(R, s) ==
    LET error == UnrefField(R, s, "error")
        eof == UnrefField(error, s, "eof")
        connect == UnrefField(eof, s, "connect")
    IN  UnrefField(connect, s, "read")
SockUnrefMutant(R, s) == UnrefCbs(R, s)
SockUnref(R, s) == UnrefCbs(UnrefField(R, s, "sd"), s)

-----------------------------------------------------------------------------
(* What a script may call, here of the loop's own calls. *)

Running == InScript /\ mishaps = {}

(* Not destroyed, and with a handle *)
Live(s) == sd[s] \in {"connecting", "open"}

(* bind_loop_tcp_connect, up to the handler, which may be a function *)
TcpConnect(s) ==
    /\ Running
    /\ sd[s] = "none"
    /\ sd' = [sd EXCEPT ![s] = "setup"]
    /\ refs' = [refs EXCEPT ![s] = NewSd(s).refs]
    /\ SetRegistry(NewSd(s).R)
    /\ setups' = Append(setups, s)
    /\ UNCHANGED <<vars, server, lrefs, orefs, frame, early, mishaps>>

(***************************************************************************)
(* The handler of the innermost tcp_connect has returned: the socket       *)
(* connects; or a callback is missing, or loop_tcp_connect fails, and the  *)
(* callbacks' references are forgotten.                                    *)
(***************************************************************************)
TcpConnectReturns ==
    /\ Running
    /\ setups # <<>>
    /\ setups' = SubSeq(setups, 1, Len(setups) - 1)
    /\ LET s == setups[Len(setups)] IN
       \/ LET c == CbRefs(Registry, refs[s], s, Callbacks) IN
          /\ Connect(s)
          /\ \/ /\ sock'[s] = "connecting"
                /\ sd' = [sd EXCEPT ![s] = "connecting"]
                /\ refs' = [refs EXCEPT ![s] = c.refs]
                /\ SetRegistry(c.R)
             \/ /\ sock'[s] = "none"
                /\ sd' = [sd EXCEPT ![s] = "failed"]
                /\ SetRegistry(Unref(c.R, c.refs["sd"]))
                /\ UNCHANGED refs
       \/ \E fs \in Prefixes :
          LET c == CbRefs(Registry, refs[s], s, fs) IN
          /\ sd' = [sd EXCEPT ![s] = "failed"]
          /\ SetRegistry(Unref(c.R, c.refs["sd"]))
          /\ UNCHANGED <<vars, refs>>
    /\ UNCHANGED <<server, lrefs, orefs, frame, early, mishaps>>

(***************************************************************************)
(* bind_loop_sock_gc of a server that is not destroyed: with a handle,     *)
(* without one, and with one that loop_accept_conn has freed.  The         *)
(* references of an early socket are given back for the second time.       *)
(***************************************************************************)
CloseOpenMutant(s) ==
    /\ Live(s)
    /\ sd' = [sd EXCEPT ![s] = "destroyed"]
    /\ SetRegistry(SockUnref(Registry, s))
    /\ mishaps' = IF s \in early THEN {"given back twice"} ELSE {}
    /\ UNCHANGED <<vars, refs, early>>
CloseOpen(s) ==
    /\ Live(s)
    /\ Close(s)
    /\ sd' = [sd EXCEPT ![s] = "destroyed"]
    /\ SetRegistry(SockUnref(Registry, s))
    /\ mishaps' = IF s \in early THEN {"given back twice"} ELSE {}
    /\ UNCHANGED <<refs, early>>

CloseUnopened(s) ==
    /\ sd[s] \in {"new", "refused"}
    /\ sd' = [sd EXCEPT ![s] = "destroyed"]
    /\ SetRegistry(SockUnref(Registry, s))
    /\ early' = IF sd[s] = "new" THEN early \cup {s} ELSE early
    /\ UNCHANGED <<vars, refs, mishaps>>

CloseDangling(s) ==
    /\ sd[s] = "dangling"
    /\ mishaps' = {"handle used after it was freed"}
    /\ UNCHANGED <<vars, sd, refs, slots, head, early>>

SockGc(s) == CloseOpen(s) \/ CloseUnopened(s) \/ CloseDangling(s)

(* bind_loop_sock_close, and the collector's call of bind_loop_sock_gc *)
SockCloseMutant(s) ==
    /\ Running
    /\ s \in server
    /\ \/ SockGc(s)
       \/ /\ sd[s] = "destroyed"
          /\ SetRegistry(SockUnref(Registry, s))
          /\ UNCHANGED <<vars, sd, refs, early, mishaps>>
    /\ UNCHANGED <<server, lrefs, orefs, frame, setups>>
SockClose(s) ==
    /\ Running
    /\ s \in server
    /\ SockGc(s)
    /\ UNCHANGED <<server, lrefs, orefs, frame, setups>>

(***************************************************************************)
(* bind_loop_sock_write: data of a socket that is set up is passed on; one *)
(* that is not has no handle, or one that was freed.                       *)
(***************************************************************************)
SockWrite(s) ==
    /\ Running
    /\ s \in server
    /\ sd[s] \in {"new", "refused", "dangling"}
    /\ mishaps' = {"written without a handle"}
    /\ UNCHANGED <<vars, sd, server, refs, lrefs, orefs, slots, head, frame, setups, early>>

(* bind_loop_tcp_listen: it has the port, or not, or a number that is none. *)
TcpListen(l) ==
    /\ Running
    /\ lrefs[l] = Unused
    /\ LET h == Ref(Registry, <<"handler", l>>)
           n == Ref(h, <<"listener", l>>)
           hr == RefAt(Registry)
           nr == RefAt(h)
       IN  \/ /\ Listen(l)
              /\ lrefs' = [lrefs EXCEPT ![l] = <<hr, nr>>]
              /\ SetRegistry(n)
           \/ /\ lrefs' = [lrefs EXCEPT ![l] = Gone]
              /\ SetRegistry(Unref(Unref(n, hr), nr)) \/ SetRegistry(h)
              /\ UNCHANGED vars
    /\ UNCHANGED <<sd, server, refs, orefs, frame, setups, early, mishaps>>

(* bind_loop_listener_gc *)
ListenerStop(l) ==
    /\ Running
    /\ StopListening(l)
    /\ SetRegistry(Unref(Unref(Registry, lrefs[l][1]), lrefs[l][2]))
    /\ lrefs' = [lrefs EXCEPT ![l] = Gone]
    /\ UNCHANGED <<sd, server, refs, orefs, frame, setups, early, mishaps>>

(* A reference of another binding, taken and given back. *)
OtherRef(o) ==
    /\ Running
    /\ \/ /\ orefs[o] = 0
          /\ orefs' = [orefs EXCEPT ![o] = RefAt(Registry)]
          /\ SetRegistry(Ref(Registry, <<"other", o>>))
       \/ /\ orefs[o] > 0
          /\ orefs' = [orefs EXCEPT ![o] = RefNil]
          /\ SetRegistry(Unref(Registry, orefs[o]))
    /\ UNCHANGED <<vars, sd, server, refs, lrefs, frame, setups, early, mishaps>>

-----------------------------------------------------------------------------
(* What the loop calls, when no script runs. *)

Enter(kind, s, n) ==
    /\ mishaps = {}
    /\ frame' = [kind |-> kind, sock |-> s, chunks |-> n]

(* bind_loop_connect_cb *)
ConnectCb(s) ==
    /\ Connected(s)
    /\ Enter("connect", s, 1)
    /\ sd' = [sd EXCEPT ![s] = "open"]
    /\ UNCHANGED <<server, refs, lrefs, orefs, slots, head, setups, early, mishaps>>

(* bind_loop_error_cb, up to the callback *)
ErrorCb(s) ==
    /\ SocketError(s) \/ Eof(s)
    /\ Enter("error", s, 1)
    /\ UNCHANGED <<sd, server, refs, lrefs, orefs, slots, head, setups, early, mishaps>>

(* bind_loop_read_cb, up to the first callback *)
ReadCb(s) ==
    /\ Readable(s)
    /\ \E n \in 1 .. MaxChunks : Enter("read", s, n)
    /\ UNCHANGED <<sd, server, refs, lrefs, orefs, slots, head, setups, early, mishaps>>

(* bind_loop_accept_cb, up to the handler, which may be a function; *)
(* whether the loop will take the connection is known from here on. *)
AcceptCb(l, s) ==
    /\ sd[s] = "none"
    /\ Accept(l, s)
    /\ Enter("handler", s, 1)
    /\ sd' = [sd EXCEPT ![s] = "new"]
    /\ server' = server \cup {s}
    /\ refs' = [refs EXCEPT ![s] = NewSd(s).refs]
    /\ SetRegistry(NewSd(s).R)
    /\ UNCHANGED <<lrefs, orefs, setups, early, mishaps>>

-----------------------------------------------------------------------------
(* What follows when the script returns from a frame. *)

InFrame(kind) ==
    pc = "callback" /\ mishaps = {} /\ setups = <<>> /\ frame # NoFrame /\ frame.kind = kind

(***************************************************************************)
(* The handler has returned.  The socket is set up and its connect         *)
(* callback called; or a callback is missing, and the socket is left in    *)
(* the registry; or it is set up, but there is no bufferevent, and the     *)
(* handle that it now has is freed.  An early socket is set up too, and a  *)
(* callback of its own takes the slot that its sd_ref still leads to; but  *)
(* refused, it stays destroyed.                                            *)
(***************************************************************************)
HandlerReturns ==
    /\ InFrame("handler")
    /\ LET s == frame.sock
           c == CbRefs(Registry, refs[s], s, Callbacks)
       IN
       \/ /\ sock[s] = "open"
          /\ sd' = [sd EXCEPT ![s] = "open"]
          /\ refs' = [refs EXCEPT ![s] = c.refs]
          /\ SetRegistry(c.R)
          /\ frame' = [frame EXCEPT !.kind = "connect"]
       \/ \E fs \in Prefixes :
          LET p == CbRefs(Registry, refs[s], s, fs) IN
          /\ sock[s] = "none"
          /\ sd' = [sd EXCEPT ![s] = IF @ = "new" THEN "refused" ELSE @]
          /\ refs' = [refs EXCEPT ![s] = p.refs]
          /\ SetRegistry(p.R)
          /\ frame' = NoFrame
       \/ /\ sock[s] = "none"
          /\ sd' = [sd EXCEPT ![s] = "dangling"]
          /\ refs' = [refs EXCEPT ![s] = c.refs]
          /\ SetRegistry(c.R)
          /\ frame' = NoFrame
    /\ UNCHANGED <<vars, server, lrefs, orefs, setups, early, mishaps>>

(* The loop of bind_loop_read_cb uses its handle until the data is gone. *)
ReadReturns ==
    /\ InFrame("read")
    /\ \/ frame.chunks = 1 /\ frame' = NoFrame /\ UNCHANGED mishaps
       \/ /\ frame.chunks > 1
          /\ frame' = [frame EXCEPT !.chunks = @ - 1]
          /\ mishaps' = IF sd[frame.sock] = "destroyed" THEN {"read after close"} ELSE {}
    /\ UNCHANGED <<vars, sd, server, refs, lrefs, orefs, slots, head, setups, early>>

ConnectReturns ==
    /\ InFrame("connect")
    /\ frame' = NoFrame
    /\ UNCHANGED <<vars, sd, server, refs, lrefs, orefs, slots, head, setups, early, mishaps>>

(***************************************************************************)
(* The end of bind_loop_error_cb: bind_loop_sock_gc of what is now at      *)
(* sd_ref, which is another socket, or no socket, when the slot was given  *)
(* back before.  If it is no server, because the callback has closed the   *)
(* socket or it is a client, the error leaves the loop.                    *)
(***************************************************************************)
ErrorReturnsMutant ==
    /\ InFrame("error")
    /\ frame' = NoFrame
    /\ UNCHANGED <<vars, sd, refs, slots, head, early, mishaps>>
    /\ UNCHANGED <<server, lrefs, orefs, setups>>
ErrorReturns ==
    /\ InFrame("error")
    /\ frame' = NoFrame
    /\ LET v == slots[refs[frame.sock]["sd"]] IN
       IF v[1] = "sd" /\ v[2] \in server
         THEN SockGc(v[2])
         ELSE CallbackRaises /\ UNCHANGED <<sd, refs, slots, head, early, mishaps>>
    /\ UNCHANGED <<server, lrefs, orefs, setups>>

(* An error of the script itself; that of a handler is caught, and refuses *)
(* the connection.                                                         *)
ScriptRaises ==
    /\ mishaps = {}
    /\ setups = <<>>
    /\ ~InFrame("handler")
    /\ CallbackRaises
    /\ frame' = NoFrame
    /\ UNCHANGED <<sd, server, refs, lrefs, orefs, slots, head, setups, early, mishaps>>

(* Standard input and stop_loop, which no reference is taken for, are left *)
(* to EventLoop; a handler function that runs the loop itself is left out. *)
LoopRuns ==
    /\ mishaps = {}
    /\ frame = NoFrame
    /\ setups = <<>>
    /\ StartLoop \/ CallbackReturns \/ Whenever \/ NoEvents \/ LoopError
    /\ ~watching'
    /\ UNCHANGED bindvars

-----------------------------------------------------------------------------
BindInit ==
    /\ Init
    /\ sd = [s \in Handles |-> "none"]
    /\ server = {}
    /\ refs = [s \in Handles |-> NoRefs]
    /\ lrefs = [l \in Listeners |-> Unused]
    /\ orefs = [o \in Others |-> 0]
    /\ slots = <<>>
    /\ head = 0
    /\ frame = NoFrame
    /\ setups = <<>>
    /\ early = {}
    /\ mishaps = {}

BindCalls ==
    \/ \E s \in Handles : TcpConnect(s) \/ SockClose(s) \/ SockWrite(s)
    \/ \E l \in Listeners : TcpListen(l) \/ ListenerStop(l)
    \/ \E o \in Others : OtherRef(o)

BindEvents ==
    \/ \E s \in Handles : ConnectCb(s) \/ ErrorCb(s) \/ ReadCb(s)
    \/ \E l \in Listeners, s \in Handles : AcceptCb(l, s)

Returns == TcpConnectReturns \/ HandlerReturns \/ ReadReturns \/ ConnectReturns \/ ErrorReturns

BindNext == BindCalls \/ BindEvents \/ Returns \/ ScriptRaises \/ LoopRuns

(* Handlers and callbacks return, and the code after them runs; see EventLoop. *)
BindSpec == BindInit /\ [][BindNext]_allvars /\ WF_allvars(Returns) /\ WF_allvars(LoopRuns)

-----------------------------------------------------------------------------
(* Properties. *)

(***************************************************************************)
(* The references of a live socket, of a listener and of the others lead   *)
(* to their own objects, however slots are given back and taken again, in  *)
(* the middle of callbacks and of handlers too: the loop never calls       *)
(* another's callback.  Not the sd_ref of a socket that was closed in its  *)
(* own handler, which bind_loop_accept_cb does not notice: its callbacks   *)
(* may be given any other object for it.  And only until a mishap: the     *)
(* second closing of such a socket gives the slot of another back.         *)
(***************************************************************************)
RefsAreOwn ==
    mishaps = {} =>
        /\ \A s \in Handles : Live(s) =>
              /\ s \notin early => slots[refs[s]["sd"]] = <<"sd", s>>
              /\ \A f \in Callbacks : slots[refs[s][f]] = <<"cb", s, f>>
        /\ \A l \in listening :
              slots[lrefs[l][1]] = <<"handler", l>> /\ slots[lrefs[l][2]] = <<"listener", l>>
        /\ \A o \in Others : orefs[o] > 0 => slots[orefs[o]] = <<"other", o>>

(* A socket that is given to its handler, and so not yet set up *)
InHandler(s) == frame # NoFrame /\ frame.kind = "handler" /\ frame.sock = s

(***************************************************************************)
(* The loop has a handle for exactly the sockets that are live, early ones *)
(* too, but for one in its handler: so that no event comes for a socket    *)
(* that is destroyed, and no handle is freed twice or, for a server,       *)
(* never.                                                                  *)
(***************************************************************************)
HandlesAreOwned ==
    \A s \in Handles : ~InHandler(s) => (Live(s) <=> sock[s] # "none")

(***************************************************************************)
(* A socket that is closed leaves neither itself nor its callbacks behind, *)
(* unless it was closed in its own handler: a callback that is referenced  *)
(* after that is kept for good.                                            *)
(***************************************************************************)
ClosedAreForgotten ==
    mishaps = {} =>
        \A s \in Handles \ early : sd[s] = "destroyed" =>
            \A i \in DOMAIN slots : slots[i] # <<"sd", s>> /\ \A f \in Callbacks : slots[i] # <<"cb", s, f>>

(***************************************************************************)
(* Why that is so.  The free list of the registry leads from slot to free  *)
(* slot and to none of them twice, so that luaL_ref never gives out a slot *)
(* that is in use; and what a socket has a reference to is in no slot but  *)
(* that one, so that giving the reference back removes it.                 *)
(***************************************************************************)
FreeSlots(R) == {i \in DOMAIN R.slots : R.slots[i][1] = "free"}
Where(R, v) == {i \in DOMAIN R.slots : R.slots[i] = v}

GoodRegistry(R) ==
    /\ R.slots \in Seq({R.slots[i] : i \in DOMAIN R.slots})
    /\ R.head \in FreeSlots(R) \cup {0}
    /\ \A i \in FreeSlots(R) :
          /\ R.slots[i][2] \in FreeSlots(R) \cup {0}
          /\ R.slots[i][2] # 0 =>
                /\ R.slots[i][2] # R.head
                /\ \A j \in FreeSlots(R) : R.slots[j][2] = R.slots[i][2] => j = i

OnlyAt(r) == IF r = RefNil THEN {} ELSE {r}

(* The callbacks of some sockets are forgotten and still referenced: those  *)
(* of a client that has failed, and of an early socket that was refused.    *)
Forgotten(s) == sd[s] = "failed" \/ (sd[s] = "destroyed" /\ s \in early /\ ~InHandler(s))

SocketRefs(R, s) ==
    /\ Where(R, <<"sd", s>>) =
          IF sd[s] \in {"none", "destroyed", "failed"} \/ s \in early THEN {} ELSE {refs[s]["sd"]}
    /\ ~Forgotten(s) => \A f \in Callbacks :
          Where(R, <<"cb", s, f>>) = IF sd[s] = "destroyed" THEN {} ELSE OnlyAt(refs[s][f])
    /\ Live(s) => \A f \in Callbacks : refs[s][f] # RefNil
    /\ sd[s] \in {"none", "setup", "new"} \/ InHandler(s) => \A f \in Callbacks : refs[s][f] = RefNil

OtherRefs(R) ==
    /\ \A l \in listening :
          lrefs[l][1] \in Where(R, <<"handler", l>>) /\ lrefs[l][2] \in Where(R, <<"listener", l>>)
    /\ \A o \in Others : orefs[o] > 0 => orefs[o] \in Where(R, <<"other", o>>)

RefInv ==
    mishaps = {} =>
        /\ GoodRegistry(Registry)
        /\ \A s \in Handles : SocketRefs(Registry, s)
        /\ OtherRefs(Registry)

(***************************************************************************)
(* A socket whose connection has failed or has ended is closed, unless the *)
(* loop is left: no socket stays that will never have an event again.  But *)
(* for an early one: bind_loop_error_cb finds something else at its        *)
(* sd_ref.                                                                 *)
(***************************************************************************)
EndedAreClosed ==
    \A s \in Handles :
        sock[s] = "ended" ~> sock[s] = "none" \/ s \in early \/ Finished \/ mishaps # {}
=============================================================================
