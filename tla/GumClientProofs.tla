---------------------------- MODULE GumClientProofs ----------------------------
(***************************************************************************)
(* Proofs about GumClient, for any number of objects and of calls.         *)
(***************************************************************************)
EXTENDS GumClient, FiniteSetTheorems, TLAPS

AnyCall == Call \cup ServiceCall

\* The main loop still has a reply to c, or at most one.
Queued(q, c) == \E i \in 1 .. Len(q) : q[i] = Reply(c)

Once(q, c) ==
    \A i, j \in 1 .. Len(q) : q[i] = Reply(c) /\ q[j] = Reply(c) => i = j

-----------------------------------------------------------------------------
(***************************************************************************)
(* The inductive invariant                                                 *)
(***************************************************************************)

\* The operation of an object is that of a call that was made on it, and has a
\* source only while that call is answered and not told.
OperationsAreOfCalls ==
    \A o \in ClientObject : Live(o) =>
        /\ o \in made
        /\ object[o].op # None =>
              LET c == object[o].op.call IN
              /\ call[c] # None
              /\ call[c].object = o
              /\ call[c].answer # "cancelled"
              /\ object[o].op.cb_id => told[c] = "no" /\ call[c].answer \in {"ok", "failed"}

\* The operation of call c, which its object still has.
AtWork(c) ==
    LET o == call[c].object IN Live(o) /\ object[o].op # None /\ object[o].op.call = c

OpOf(c) == object[call[c].object].op

\* Where a call is: its reply is in the inbox, or its source in the main loop,
\* or neither.
CallIsSomewhere(c) ==
    /\ told[c] # "again"
    /\ Once(inbox, c)
    /\ call[c] = None => told[c] = "no" /\ ~Queued(inbox, c)
    /\ call[c] # None =>
          /\ call[c].answer = "unsent" => told[c] = "no" /\ ~Queued(inbox, c)
          /\ call[c].answer = "none" =>
                /\ told[c] = "no" /\ ~Queued(inbox, c)
                /\ AtWork(c) /\ ~OpOf(c).cb_id /\ ~OpOf(c).error
          /\ call[c].answer \in {"ok", "failed"} /\ told[c] = "no" =>
                /\ AtWork(c)
                /\ Queued(inbox, c) <=> ~OpOf(c).cb_id
                /\ OpOf(c).error <=> (OpOf(c).cb_id /\ call[c].answer = "failed")
          /\ call[c].answer \in {"ok", "failed"} /\ told[c] # "no" =>
                told[c] = call[c].answer /\ ~Queued(inbox, c)

CallsInv ==
    /\ CallsTypeOK
    /\ IsFiniteSet(made)
    /\ SourcesAreKnown
    /\ OperationsAreOfCalls
    /\ \A c \in Call : CallIsSomewhere(c)

\* What the ids of the service name is in the main loop, and a call that was
\* not cancelled has a service with an operation.
ServiceSourcesKnown ==
    /\ service = None =>
          /\ \A k \in {"proxy", "trigger", "list"} : service_sources[k] = 0
          /\ \A c \in ServiceCall : service_call[c] \in {"unmade", "cancelled"}
    /\ service # None =>
          /\ service.proxy_cb => service_sources["proxy"] > 0
          /\ service.op = None =>
                /\ service_sources["trigger"] = 0 /\ service_sources["list"] = 0
                /\ \A c \in ServiceCall : service_call[c] \in {"unmade", "cancelled"}
          /\ service.op # None =>
                \A k \in {"trigger", "list"} : service.op.cb = k => service_sources[k] > 0

ServiceCallsAnswered ==
    \A c \in ServiceCall :
        Queued(inbox, c) => service_call[c] \in {"ok", "failed", "cancelled"}

ServiceInv ==
    /\ ServiceTypeOK
    /\ ServiceIsReferredTo
    /\ ServiceSourcesKnown
    /\ ServiceCallsAnswered

ClientInv == CallsInv /\ ServiceInv

-----------------------------------------------------------------------------
(***************************************************************************)
(* The inbox                                                               *)
(***************************************************************************)

\* A reply names its call.
LEMMA ReplyIsMessage ==
    ASSUME NEW c \in AnyCall
    PROVE  Reply(c) \in Message /\ \A d : Reply(c) = Reply(d) => c = d
  BY DEF Reply, Message, AnyCall

\* A reply is put in the inbox.
LEMMA AppendReply ==
    ASSUME NEW q \in Seq(Message), NEW c \in AnyCall
    PROVE  LET r == Append(q, Reply(c)) IN
           /\ r \in Seq(Message)
           /\ Queued(r, c)
           /\ ~Queued(q, c) => Once(r, c)
           /\ \A d : d # c => /\ Queued(r, d) <=> Queued(q, d)
                              /\ Once(q, d) => Once(r, d)
<1> DEFINE r == Append(q, Reply(c))
<1>1. /\ Reply(c) \in Message
      /\ \A d : Reply(c) = Reply(d) => c = d
    BY ReplyIsMessage
<1>2. /\ r \in Seq(Message)
      /\ Len(r) = Len(q) + 1
      /\ r[Len(q) + 1] = Reply(c)
      /\ \A i \in 1 .. Len(q) : r[i] = q[i]
      /\ Len(q) \in Nat
    BY <1>1
<1> HIDE DEF r
<1>3. Queued(r, c)
    BY <1>2 DEF Queued
<1>4. ~Queued(q, c) => Once(r, c)
    BY <1>2 DEF Queued, Once
<1>5. ASSUME NEW d, d # c
      PROVE  /\ Queued(r, d) <=> Queued(q, d)
             /\ Once(q, d) => Once(r, d)
  <2>1. \A i \in 1 .. Len(r) : r[i] = Reply(d) => i \in 1 .. Len(q) /\ q[i] = Reply(d)
      BY <1>1, <1>2, <1>5
  <2>2. \A i \in 1 .. Len(q) : i \in 1 .. Len(r)
      BY <1>2
  <2>3. QED
      BY <1>2, <2>1, <2>2 DEF Queued, Once
<1>6. QED
    BY <1>2, <1>3, <1>4, <1>5 DEF r

\* A signal is, which changes nothing for the replies.
LEMMA AppendSignal ==
    ASSUME NEW q \in Seq(Message), NEW m \in Message, m.type # "reply"
    PROVE  LET r == Append(q, m) IN
           /\ r \in Seq(Message)
           /\ \A d : /\ Queued(r, d) <=> Queued(q, d)
                     /\ Once(q, d) => Once(r, d)
<1> DEFINE r == Append(q, m)
<1>1. /\ r \in Seq(Message)
      /\ Len(r) = Len(q) + 1
      /\ r[Len(q) + 1] = m
      /\ \A i \in 1 .. Len(q) : r[i] = q[i]
      /\ Len(q) \in Nat
    OBVIOUS
<1>2. \A d : m # Reply(d)
    BY DEF Reply
<1> HIDE DEF r
<1>3. ASSUME NEW d
      PROVE  /\ Queued(r, d) <=> Queued(q, d)
             /\ Once(q, d) => Once(r, d)
  <2>1. \A i \in 1 .. Len(r) : r[i] = Reply(d) => i \in 1 .. Len(q) /\ q[i] = Reply(d)
      BY <1>1, <1>2
  <2>2. \A i \in 1 .. Len(q) : i \in 1 .. Len(r)
      BY <1>1
  <2>3. QED
      BY <1>1, <2>1, <2>2 DEF Queued, Once
<1>4. QED
    BY <1>1, <1>3 DEF r

\* A signal is sent to a client that listens, and to no other.
LEMMA AddSignal ==
    ASSUME NEW q \in Seq(Message), NEW o, NEW m \in Message, m.type # "reply"
    PROVE  LET r == q \o Signal(o, m) IN
           /\ r \in Seq(Message)
           /\ \A d : /\ Queued(r, d) <=> Queued(q, d)
                     /\ Once(q, d) => Once(r, d)
<1>1. CASE Signal(o, m) = <<>>
  <2>1. q \o Signal(o, m) = q
      BY <1>1
  <2>2. QED
      BY <2>1
<1>2. CASE Signal(o, m) = <<m>>
  <2>1. q \o Signal(o, m) = Append(q, m)
      BY <1>2
  <2>2. QED
      BY <2>1, AppendSignal
<1>3. QED
    BY <1>1, <1>2 DEF Signal

\* A change of the properties is announced, or nothing is.
LEMMA AddAnnounced ==
    ASSUME NEW q \in Seq(Message), NEW o \in ClientObject, NEW kind
    PROVE  LET r == q \o Announce(o, kind) IN
           /\ r \in Seq(Message)
           /\ \A d : /\ Queued(r, d) <=> Queued(q, d)
                     /\ Once(q, d) => Once(r, d)
<1>1. CASE kind = "add"
  <2>1. PICK m : m = Changed(o)
      OBVIOUS
  <2>2. m \in Message /\ m.type # "reply"
      BY <2>1 DEF Changed, Message
  <2>3. Announce(o, kind) = Signal(o, m)
      BY <1>1, <2>1 DEF Announce
  <2>4. QED
      BY <2>2, <2>3, AddSignal
<1>2. CASE kind # "add"
  <2>1. q \o Announce(o, kind) = q
      BY <1>2 DEF Announce
  <2>2. QED
      BY <2>1
<1>3. QED
    BY <1>1, <1>2

\* What the daemon sends for a call that it carried out.
LEMMA AddServed ==
    ASSUME NEW q \in Seq(Message), NEW o \in ClientObject, NEW c \in Call, NEW kind
    PROVE  LET r == q \o ServedMessages(c, o, kind) IN
           /\ r \in Seq(Message)
           /\ Queued(r, c)
           /\ ~Queued(q, c) => Once(r, c)
           /\ \A d : d # c => /\ Queued(r, d) <=> Queued(q, d)
                              /\ Once(q, d) => Once(r, d)
<1>1. PICK s : s = q \o Announce(o, kind)
    OBVIOUS
<1>2. /\ s \in Seq(Message)
      /\ \A d : /\ Queued(s, d) <=> Queued(q, d)
                /\ Once(q, d) => Once(s, d)
    BY <1>1, AddAnnounced
<1>3. Announce(o, kind) \in Seq(Message)
  <2>1. PICK m : m = Changed(o)
      OBVIOUS
  <2>2. m \in Message
      BY <2>1 DEF Changed, Message
  <2>3. Announce(o, kind) \in {<<>>, <<m>>}
      BY <2>1 DEF Announce, Signal
  <2>4. <<>> \in Seq(Message)
      OBVIOUS
  <2>5. <<m>> \in Seq(Message)
      BY <2>2
  <2>6. QED
      BY <2>3, <2>4, <2>5
<1>4. Reply(c) \in Message
    BY ReplyIsMessage DEF AnyCall
<1>5. q \o ServedMessages(c, o, kind) = Append(s, Reply(c))
    BY <1>1, <1>3, <1>4 DEF ServedMessages
<1>6. PICK r : r = Append(s, Reply(c))
    OBVIOUS
<1>7. /\ r \in Seq(Message)
      /\ Queued(r, c)
      /\ ~Queued(s, c) => Once(r, c)
      /\ \A d : d # c => /\ Queued(r, d) <=> Queued(s, d)
                         /\ Once(s, d) => Once(r, d)
    BY <1>2, <1>6, AppendReply DEF AnyCall
<1>8. QED
    BY <1>2, <1>5, <1>6, <1>7

\* The first message is taken out of the inbox.
LEMMA TakeMessage ==
    ASSUME NEW q \in Seq(Message), q # <<>>
    PROVE  /\ Head(q) \in Message
           /\ Tail(q) \in Seq(Message)
           /\ \A d : /\ Queued(Tail(q), d) => Queued(q, d)
                     /\ Head(q) # Reply(d) => (Queued(q, d) => Queued(Tail(q), d))
                     /\ Head(q) = Reply(d) => Queued(q, d)
                     /\ Head(q) = Reply(d) /\ Once(q, d) => ~Queued(Tail(q), d)
                     /\ Once(q, d) => Once(Tail(q), d)
<1> DEFINE r == Tail(q)
           h == Head(q)
<1>1. /\ h \in Message /\ r \in Seq(Message)
      /\ h = q[1]
      /\ Len(q) = Len(r) + 1
      /\ \A i \in 1 .. Len(r) : r[i] = q[i + 1]
      /\ Len(r) \in Nat
    OBVIOUS
<1> HIDE DEF r, h
<1>2. ASSUME NEW d
      PROVE  /\ Queued(r, d) => Queued(q, d)
             /\ h # Reply(d) => (Queued(q, d) => Queued(r, d))
             /\ h = Reply(d) => Queued(q, d)
             /\ h = Reply(d) /\ Once(q, d) => ~Queued(r, d)
             /\ Once(q, d) => Once(r, d)
  <2>1. \A i \in 1 .. Len(r) : i + 1 \in 1 .. Len(q) /\ i + 1 # 1
      BY <1>1
  <2>2. \A i \in 1 .. Len(q) : i = 1 \/ (i - 1 \in 1 .. Len(r) /\ r[i - 1] = q[i])
      BY <1>1
  <2>3. 1 \in 1 .. Len(q)
      BY <1>1
  <2>4. Queued(r, d) => Queued(q, d)
      BY <1>1, <2>1 DEF Queued
  <2>5. h # Reply(d) => (Queued(q, d) => Queued(r, d))
      BY <1>1, <2>2 DEF Queued
  <2>6. h = Reply(d) => Queued(q, d)
      BY <1>1, <2>3 DEF Queued
  <2>7. h = Reply(d) /\ Once(q, d) => ~Queued(r, d)
      BY <1>1, <2>1, <2>3 DEF Queued, Once
  <2>8. Once(q, d) => Once(r, d)
      BY <1>1, <2>1 DEF Once
  <2>9. QED
      BY <2>4, <2>5, <2>6, <2>7, <2>8
<1>3. QED
    BY <1>1, <1>2 DEF r, h

-----------------------------------------------------------------------------
(***************************************************************************)
(* The calls                                                               *)
(***************************************************************************)

\* What one step of AsyncCalls can do to a call.
MayBecome(a, b) ==
    \/ a = "new" /\ b = "pending"
    \/ a = "pending" /\ b \in {"ok", "failed"}
    \/ a = "ok" /\ b = "told_ok"
    \/ a = "failed" /\ b = "told_failed"
    \/ a \in {"new", "pending", "ok", "failed"} /\ b = "dropped"

Moves(c) == CallStatus(c)' # CallStatus(c)

\* At most one call changes its status, as AsyncCalls allows.
StatusMoves ==
    /\ \A c \in Call : Moves(c) => MayBecome(CallStatus(c), CallStatus(c)')
    /\ \A c, d \in Call : Moves(c) /\ Moves(d) => c = d

\* A call keeps its object and what GDBus has for it.
KeepsCall(c) ==
    /\ call'[c] = None <=> call[c] = None
    /\ call[c] # None => call'[c].object = call[c].object /\ call'[c].answer = call[c].answer

\* A call whose callback is not told either keeps its status.
LEMMA SameStatus ==
    ASSUME NEW c, told'[c] = told[c], KeepsCall(c)
    PROVE  ~Moves(c)
  BY DEF Moves, CallStatus, KeepsCall

\* No call changes its status.
LEMMA NoneMoves ==
    ASSUME \A c \in Call : ~Moves(c)
    PROVE  StatusMoves
  BY DEF StatusMoves

\* One call does, as AsyncCalls allows.
LEMMA OneMoves ==
    ASSUME NEW c \in Call,
           \A d \in Call : d # c => ~Moves(d),
           Moves(c) => MayBecome(CallStatus(c), CallStatus(c)')
    PROVE  StatusMoves
  BY DEF StatusMoves

\* What _create_op makes.
LEMMA NewOpFields ==
    ASSUME NEW c \in Call
    PROVE  /\ NewOp(c) \in Op /\ NewOp(c) # None
           /\ NewOp(c).call = c /\ NewOp(c).cb_id = FALSE /\ NewOp(c).error = FALSE
<1>1. PICK op : op = NewOp(c)
    OBVIOUS
<1>2. op \in Op /\ op.call = c /\ op.cb_id = FALSE /\ op.error = FALSE
    BY <1>1 DEF NewOp, Op
<1>3. op # None
    BY <1>2, CallsAssumption
<1>4. QED
    BY <1>1, <1>2, <1>3

\* What the constructor of an object makes.
LEMMA NewObjectFields ==
    ASSUME NEW offline \in BOOLEAN, NEW has \in BOOLEAN, NEW op \in Op \cup {None}
    PROVE  LET n == NewObject(offline, has, op) IN
           /\ n \in ObjectFields /\ n # None
           /\ n.op = op /\ n.service = has /\ n.offline = offline
           /\ n.proxy = FALSE /\ n.id = FALSE
<1>1. PICK n : n = NewObject(offline, has, op)
    OBVIOUS
<1>2. /\ n \in ObjectFields
      /\ n.op = op /\ n.service = has /\ n.offline = offline
      /\ n.proxy = FALSE /\ n.id = FALSE
    BY <1>1 DEF NewObject, ObjectFields
<1>3. n # None
    BY <1>2, CallsAssumption
<1>4. QED
    BY <1>1, <1>2, <1>3

\* An object is made together with its call (gum_user_create and the others).
LEMMA MadeStep ==
    ASSUME CallsInv, NEW o \in ClientObject, NEW c \in Call, NEW kind \in Makers,
           NEW sent \in BOOLEAN, Made(o, c, kind, sent)
    PROVE  CallsInv' /\ StatusMoves
<1>1. PICK op : op = NewOp(c)
    OBVIOUS
<1>2. op \in Op /\ op # None /\ op.call = c /\ op.cb_id = FALSE /\ op.error = FALSE
    BY <1>1, NewOpFields
<1>3. PICK new : new = NewObject(FALSE, TRUE, op)
    OBVIOUS
<1>4. new \in ObjectFields /\ new # None /\ new.op = op
    BY <1>2, <1>3, NewObjectFields
<1>5. PICK rec : rec = [object |-> o, kind |-> kind, served |-> ~sent,
                        answer |-> IF sent THEN "none" ELSE "unsent"]
    OBVIOUS
<1>6. /\ rec \in CallFields
      /\ rec.object = o /\ rec.answer \in {"none", "unsent"}
    BY <1>5 DEF CallFields, Makers
<1>7. rec # None
    BY <1>6, CallsAssumption
<1>8. /\ o \notin made /\ call[c] = None
      /\ made' = made \cup {o}
      /\ object' = [object EXCEPT ![o] = new]
      /\ call' = [call EXCEPT ![c] = rec]
      /\ UNCHANGED <<sources, remote, inbox, told>>
    BY <1>1, <1>3, <1>5 DEF Made, Unmade
<1>9. CallsTypeOK'
    BY <1>4, <1>6, <1>7, <1>8 DEF CallsInv, CallsTypeOK
<1>10. /\ object'[o] = new /\ \A x \in ClientObject : x # o => object'[x] = object[x]
       /\ call'[c] = rec /\ \A d \in Call : d # c => call'[d] = call[d]
    BY <1>8 DEF CallsInv, CallsTypeOK
<1>11. ~Live(o)
    BY <1>8 DEF CallsInv, OperationsAreOfCalls
<1>12. IsFiniteSet(made')
    BY <1>8, FS_AddElement DEF CallsInv
<1>13. SourcesAreKnown'
    BY <1>2, <1>4, <1>8, <1>10, <1>11 DEF CallsInv, SourcesAreKnown, Live
<1>14. OperationsAreOfCalls'
    BY <1>2, <1>4, <1>6, <1>7, <1>8, <1>10, <1>11 DEF CallsInv, OperationsAreOfCalls, Live
<1>15. ASSUME NEW d \in Call
       PROVE  CallIsSomewhere(d)'
  <2>1. CASE d = c
      BY <1>2, <1>4, <1>6, <1>7, <1>8, <1>10, <2>1 DEF CallsInv, CallIsSomewhere, AtWork, OpOf, Live
  <2>2. CASE d # c
    <3>1. call[d] # None /\ AtWork(d) => call[d].object # o
        BY <1>11 DEF AtWork
    <3>2. CallIsSomewhere(d)
        BY DEF CallsInv
    <3>3. call[d] # None => call[d].object \in ClientObject
        BY DEF CallsInv, CallsTypeOK, CallFields
    <3>4. QED
        BY <1>8, <1>10, <2>2, <3>1, <3>2, <3>3 DEF CallIsSomewhere, AtWork, OpOf, Live
  <2>3. QED
      BY <2>1, <2>2
<1>16. StatusMoves
  <2>1. CallStatus(c) = "new" /\ CallStatus(c)' \in {"pending", "dropped"}
      BY <1>6, <1>7, <1>8, <1>10 DEF CallsInv, CallIsSomewhere, CallStatus
  <2>2. \A d \in Call : d # c => ~Moves(d)
      BY <1>8, <1>10, SameStatus DEF KeepsCall
  <2>3. QED
      BY <2>1, <2>2, OneMoves DEF MayBecome
<1>17. QED
    BY <1>9, <1>12, <1>13, <1>14, <1>15, <1>16 DEF CallsInv

\* An object that stays as it is, but for its properties and its proxy.
KeepsOp(o) == (Live(o)' <=> Live(o)) /\ (Live(o) => object'[o].op = object[o].op)

\* The fields of an object that is there.
LEMMA LiveObject ==
    ASSUME CallsInv, NEW o \in ClientObject, Live(o)
    PROVE  /\ object[o] \in ObjectFields /\ object[o].op \in Op \cup {None}
           /\ object[o].op # None => /\ object[o].op.call \in Call
                                     /\ object[o].op.cb_id \in BOOLEAN
                                     /\ object[o].op.error \in BOOLEAN
<1>1. object[o] \in ObjectFields
    BY DEF CallsInv, CallsTypeOK, Live
<1>2. object[o].op \in Op \cup {None}
    BY <1>1 DEF ObjectFields
<1>3. QED
    BY <1>1, <1>2 DEF Op

\* A call whose object keeps its operation is where it was.
LEMMA SamePlace ==
    ASSUME CallsInv, NEW d \in Call, told'[d] = told[d], KeepsCall(d),
           Queued(inbox', d) <=> Queued(inbox, d),
           Once(inbox', d),
           call[d] # None /\ told[d] = "no" /\ AtWork(d) => KeepsOp(call[d].object)
    PROVE  CallIsSomewhere(d)'
<1>1. CallIsSomewhere(d)
    BY DEF CallsInv
<1>2. call[d] # None => call[d].object \in ClientObject
    BY DEF CallsInv, CallsTypeOK, CallFields
<1>3. QED
    BY <1>1, <1>2 DEF CallIsSomewhere, AtWork, OpOf, KeepsOp, KeepsCall, Live

\* A step that touches neither calls nor operations.
LEMMA NothingMoves ==
    ASSUME CallsInv, CallsTypeOK', IsFiniteSet(made'), made \subseteq made',
           UNCHANGED sources,
           \A c \in Call : told'[c] = told[c] /\ KeepsCall(c),
           \A d \in Call : (Queued(inbox', d) <=> Queued(inbox, d)) /\ Once(inbox', d),
           \A x \in ClientObject : KeepsOp(x)
    PROVE  CallsInv' /\ StatusMoves
<1>1. SourcesAreKnown'
    BY DEF CallsInv, SourcesAreKnown, KeepsOp, Live
<1>2. OperationsAreOfCalls'
  <2>1. ASSUME NEW x \in ClientObject, Live(x)'
        PROVE  /\ x \in made'
               /\ object'[x].op # None =>
                    LET c == object'[x].op.call IN
                    /\ call'[c] # None
                    /\ call'[c].object = x
                    /\ call'[c].answer # "cancelled"
                    /\ object'[x].op.cb_id => told'[c] = "no" /\ call'[c].answer \in {"ok", "failed"}
    <3>1. Live(x) /\ object'[x].op = object[x].op
        BY <2>1 DEF KeepsOp
    <3>2. object[x].op # None => object[x].op.call \in Call
        BY <3>1, LiveObject
    <3>3. QED
        BY <3>1, <3>2 DEF CallsInv, OperationsAreOfCalls, KeepsCall
  <2>2. QED
      BY <2>1 DEF OperationsAreOfCalls
<1>3. ASSUME NEW d \in Call
      PROVE  CallIsSomewhere(d)'
  <2>1. call[d] # None => call[d].object \in ClientObject
      BY DEF CallsInv, CallsTypeOK, CallFields
  <2>2. QED
      BY <2>1, SamePlace DEF KeepsCall
<1>4. StatusMoves
    BY SameStatus, NoneMoves DEF KeepsCall
<1>5. QED
    BY <1>1, <1>2, <1>3, <1>4 DEF CallsInv

\* A group object that found no service (gum_group_create).
LEMMA GroupUnmadeStep ==
    ASSUME CallsInv, NEW o \in ClientObject, GroupUnmade(o)
    PROVE  CallsInv' /\ StatusMoves
<1>1. /\ made' = made \cup {o}
      /\ UNCHANGED <<object, sources, remote, call, inbox, told>>
    BY DEF GroupUnmade
<1>2. CallsTypeOK' /\ IsFiniteSet(made')
    BY <1>1, FS_AddElement DEF CallsInv, CallsTypeOK
<1>3. \A d \in Call : (Queued(inbox', d) <=> Queued(inbox, d)) /\ Once(inbox', d)
    BY <1>1 DEF CallsInv, CallIsSomewhere
<1>4. \A x \in ClientObject : KeepsOp(x)
    BY <1>1 DEF KeepsOp, Live
<1>5. QED
    BY <1>1, <1>2, <1>3, <1>4, NothingMoves DEF KeepsCall

\* A call replaces the operation of the last one, which was told
\* (gum_user_add and the others).
LEMMA RequestedStep ==
    ASSUME CallsInv, NEW o \in ClientObject, NEW c \in Call, NEW kind \in Requests,
           Requested(o, c, kind), RemoveSource(o) \/ UNCHANGED sources
    PROVE  CallsInv' /\ StatusMoves
<1>1. PICK op : op = NewOp(c)
    OBVIOUS
<1>2. op \in Op /\ op # None /\ op.call = c /\ op.cb_id = FALSE /\ op.error = FALSE
    BY <1>1, NewOpFields
<1>3. Live(o) /\ Quiet(o) /\ call[c] = None
    BY DEF Requested
<1>4. object[o] \in ObjectFields
    BY <1>3, LiveObject
<1>5. PICK new : new = [object[o] EXCEPT !.op = op]
    OBVIOUS
<1>6. new \in ObjectFields /\ new.op = op
    BY <1>2, <1>4, <1>5 DEF ObjectFields
<1>7. new # None
    BY <1>6, CallsAssumption
<1>8. PICK rec : rec = [object |-> o, kind |-> kind, served |-> FALSE, answer |-> "none"]
    OBVIOUS
<1>9. rec \in CallFields /\ rec.object = o /\ rec.answer = "none"
    BY <1>8 DEF CallFields
<1>10. rec # None
    BY <1>9, CallsAssumption
<1>11. /\ object' = [object EXCEPT ![o] = new]
       /\ call' = [call EXCEPT ![c] = rec]
       /\ UNCHANGED <<made, remote, inbox, told>>
    BY <1>1, <1>5, <1>8 DEF Requested
<1>12. /\ object[o].op # None => told[object[o].op.call] # "no"
       /\ object[o].op # None => object[o].op.cb_id = FALSE
    BY <1>3, LiveObject DEF Quiet, CallsInv, OperationsAreOfCalls
<1>13. sources' = sources /\ sources[o] = 0
  <2>1. sources[o] = 0
      BY <1>12 DEF CallsInv, SourcesAreKnown
  <2>2. ~(object[o].op # None /\ object[o].op.cb_id)
      BY <1>12
  <2>3. RemoveSource(o) => sources' = [sources EXCEPT ![o] = sources[o]]
      BY <2>2 DEF RemoveSource
  <2>5. sources = [sources EXCEPT ![o] = sources[o]]
      BY DEF CallsInv, CallsTypeOK
  <2>4. QED
      BY <2>1, <2>3, <2>5
<1>14. CallsTypeOK'
    BY <1>6, <1>9, <1>11, <1>13 DEF CallsInv, CallsTypeOK
<1>15. /\ object'[o] = new /\ \A x \in ClientObject : x # o => object'[x] = object[x]
       /\ call'[c] = rec /\ \A d \in Call : d # c => call'[d] = call[d]
    BY <1>11 DEF CallsInv, CallsTypeOK
<1>16. SourcesAreKnown'
    BY <1>2, <1>6, <1>7, <1>13, <1>15 DEF CallsInv, SourcesAreKnown, Live
<1>17. OperationsAreOfCalls'
  <2>1. \A x \in ClientObject : Live(x) /\ object[x].op # None => object[x].op.call # c
      BY <1>3 DEF CallsInv, OperationsAreOfCalls
  <2>2. \A x \in ClientObject : Live(x) /\ object[x].op # None => object[x].op.call \in Call
      BY LiveObject
  <2>3. QED
      BY <1>2, <1>3, <1>6, <1>9, <1>10, <1>11, <1>15, <2>1, <2>2
      DEF CallsInv, OperationsAreOfCalls, Live
<1>18. ASSUME NEW d \in Call
       PROVE  CallIsSomewhere(d)'
  <2>1. CallIsSomewhere(d)
      BY DEF CallsInv
  <2>2. CASE d = c
      BY <2>1, <2>2, <1>2, <1>3, <1>6, <1>7, <1>9, <1>10, <1>11, <1>15
      DEF CallIsSomewhere, AtWork, OpOf, Live
  <2>3. CASE d # c
    <3>1. call[d] # None => call[d].object \in ClientObject
        BY DEF CallsInv, CallsTypeOK, CallFields
    <3>2. call[d] # None /\ told[d] = "no" /\ AtWork(d) => call[d].object # o
        BY <1>12 DEF AtWork
    <3>3. call[d] # None /\ told[d] = "no" /\ AtWork(d) => KeepsOp(call[d].object)
        BY <2>3, <3>1, <3>2, <1>15 DEF KeepsOp, Live
    <3>4. QED
        BY <2>1, <2>3, <3>3, <1>11, <1>15, SamePlace DEF KeepsCall, CallIsSomewhere
  <2>4. QED
      BY <2>2, <2>3
<1>19. StatusMoves
  <2>1. CallStatus(c) = "new" /\ CallStatus(c)' = "pending"
      BY <1>3, <1>9, <1>10, <1>11, <1>15 DEF CallsInv, CallIsSomewhere, CallStatus
  <2>2. \A d \in Call : d # c => ~Moves(d)
      BY <1>11, <1>15, SameStatus DEF KeepsCall
  <2>3. QED
      BY <2>1, <2>2, OneMoves DEF MayBecome
<1>20. QED
    BY <1>11, <1>14, <1>16, <1>17, <1>18, <1>19 DEF CallsInv

\* The callback of an operation is run (_trigger_callback).
LEMMA TriggerStep ==
    ASSUME CallsInv, NEW o \in ClientObject, Live(o), sources[o] > 0,
           sources' = [sources EXCEPT ![o] = @ - 1],
           Tell(object[o].op.call, object[o].op.error),
           object' = [object EXCEPT ![o].op.cb_id = FALSE],
           UNCHANGED <<made, remote, call, inbox>>
    PROVE  CallsInv' /\ StatusMoves
<1>1. /\ object[o] \in ObjectFields /\ object[o].op # None /\ object[o].op.cb_id
      /\ sources[o] = 1
    BY LiveObject DEF CallsInv, SourcesAreKnown
<1>2. PICK op : op = object[o].op
    OBVIOUS
<1>3. PICK c : c = op.call
    OBVIOUS
<1>4. op \in Op /\ c \in Call /\ op.error \in BOOLEAN /\ op.cb_id
    BY <1>1, <1>2, <1>3, LiveObject DEF Op
<1>5. /\ o \in made
      /\ call[c] # None /\ call[c].object = o /\ call[c].answer \in {"ok", "failed"}
      /\ told[c] = "no"
    BY <1>1, <1>2, <1>3 DEF CallsInv, OperationsAreOfCalls
<1>6. AtWork(c) /\ ~Queued(inbox, c) /\ Once(inbox, c)
    BY <1>1, <1>2, <1>3, <1>4, <1>5 DEF CallsInv, CallIsSomewhere, AtWork, OpOf
<1>7. op.error <=> call[c].answer = "failed"
    BY <1>1, <1>2, <1>3, <1>4, <1>5 DEF CallsInv, CallIsSomewhere, AtWork, OpOf
<1>8. PICK rest : rest = [op EXCEPT !.cb_id = FALSE]
    OBVIOUS
<1>9. /\ rest \in Op /\ rest.call = c /\ rest.error = op.error /\ rest.cb_id = FALSE
    BY <1>3, <1>4, <1>8 DEF Op
<1>10. PICK new : new = [object[o] EXCEPT !.op = rest]
    OBVIOUS
<1>11. new \in ObjectFields /\ new.op = rest
    BY <1>1, <1>9, <1>10 DEF ObjectFields
<1>12. rest # None /\ new # None
    BY <1>9, <1>11, CallsAssumption
<1>13. object' = [object EXCEPT ![o] = new]
    BY <1>2, <1>8, <1>10
<1>14. told' = [told EXCEPT ![c] = call[c].answer]
  <2>1. (IF op.error THEN "failed" ELSE "ok") = call[c].answer
      BY <1>4, <1>5, <1>7
  <2>2. told' = [told EXCEPT ![c] = IF told[c] # "no" THEN "again"
                                    ELSE IF op.error THEN "failed" ELSE "ok"]
      BY <1>2, <1>3 DEF Tell
  <2>3. QED
      BY <1>5, <2>1, <2>2
<1>15. CallsTypeOK'
  <2>1. object' \in [ClientObject -> ObjectFields \cup {None}]
      BY <1>11, <1>13 DEF CallsInv, CallsTypeOK
  <2>2. sources' \in [ClientObject -> Nat]
      BY <1>1 DEF CallsInv, CallsTypeOK
  <2>3. told' \in [AnyCall -> {"no", "ok", "failed", "again"}]
      BY <1>5, <1>14 DEF CallsInv, CallsTypeOK, AnyCall
  <2>4. QED
      BY <2>1, <2>2, <2>3 DEF CallsInv, CallsTypeOK, AnyCall
<1>16. /\ object'[o] = new /\ \A x \in ClientObject : x # o => object'[x] = object[x]
       /\ told'[c] = call[c].answer /\ \A d \in Call : d # c => told'[d] = told[d]
       /\ sources'[o] = 0 /\ \A x \in ClientObject : x # o => sources'[x] = sources[x]
    BY <1>1, <1>4, <1>13, <1>14 DEF CallsInv, CallsTypeOK
<1>17. SourcesAreKnown'
    BY <1>9, <1>11, <1>12, <1>16 DEF CallsInv, SourcesAreKnown, Live
<1>18. OperationsAreOfCalls'
  <2>1. \A x \in ClientObject : Live(x) /\ object[x].op # None /\ x # o =>
            object[x].op.call # c /\ object[x].op.call \in Call
      BY <1>5, LiveObject DEF CallsInv, OperationsAreOfCalls
  <2>2. \A x \in ClientObject : Live(x)' /\ x # o =>
            Live(x) /\ object'[x] = object[x]
      BY <1>16 DEF Live
  <2>3. ASSUME NEW x \in ClientObject, Live(x)'
        PROVE  /\ x \in made'
               /\ object'[x].op # None =>
                    LET d == object'[x].op.call IN
                    /\ call'[d] # None
                    /\ call'[d].object = x
                    /\ call'[d].answer # "cancelled"
                    /\ object'[x].op.cb_id => told'[d] = "no" /\ call'[d].answer \in {"ok", "failed"}
    <3>1. CASE x = o
        BY <3>1, <1>5, <1>9, <1>11, <1>16
    <3>2. CASE x # o
        BY <3>2, <2>1, <2>2, <2>3, <1>16 DEF CallsInv, OperationsAreOfCalls
    <3>3. QED
        BY <3>1, <3>2
  <2>4. QED
      BY <2>3 DEF OperationsAreOfCalls
<1>19. ASSUME NEW d \in Call
       PROVE  CallIsSomewhere(d)'
  <2>1. CASE d = c
      BY <2>1, <1>5, <1>6, <1>16 DEF CallIsSomewhere
  <2>2. CASE d # c
    <3>1. call[d] # None => call[d].object \in ClientObject
        BY DEF CallsInv, CallsTypeOK, CallFields
    <3>2. call[d] # None /\ AtWork(d) => call[d].object # o
        BY <2>2, <1>2, <1>3 DEF AtWork
    <3>3. call[d] # None /\ AtWork(d) => KeepsOp(call[d].object)
        BY <3>1, <3>2, <1>16 DEF KeepsOp, Live
    <3>4. Once(inbox, d)
        BY DEF CallsInv, CallIsSomewhere
    <3>5. QED
        BY <2>2, <3>3, <3>4, <1>16, SamePlace DEF KeepsCall
  <2>3. QED
      BY <2>1, <2>2
<1>20. StatusMoves
  <2>1. /\ CallStatus(c) = call[c].answer
        /\ CallStatus(c)' = IF call[c].answer = "ok" THEN "told_ok" ELSE "told_failed"
      BY <1>5, <1>16 DEF CallStatus, Told
  <2>2. \A d \in Call : d # c => ~Moves(d)
      BY <1>16, SameStatus DEF KeepsCall
  <2>3. QED
      BY <1>4, <1>5, <2>1, <2>2, OneMoves DEF MayBecome
<1>21. QED
    BY <1>15, <1>17, <1>18, <1>19, <1>20 DEF CallsInv

\* An object is dropped: its source is removed and its call cancelled
\* (_dispose).
LEMMA DisposeStep ==
    ASSUME CallsInv, NEW o \in ClientObject, Live(o),
           object' = [object EXCEPT ![o] = None],
           RemoveSource(o), Cancel(o),
           UNCHANGED <<made, remote, inbox, told>>
    PROVE  CallsInv' /\ StatusMoves
<1>1. /\ object'[o] = None
      /\ \A x \in ClientObject : x # o => object'[x] = object[x]
      /\ object' \in [ClientObject -> ObjectFields \cup {None}]
    BY DEF CallsInv, CallsTypeOK
<1>2. /\ sources'[o] = 0
      /\ \A x \in ClientObject : x # o => sources'[x] = sources[x]
      /\ sources' \in [ClientObject -> Nat]
  <2>1. sources[o] = IF object[o].op # None /\ object[o].op.cb_id THEN 1 ELSE 0
      BY DEF CallsInv, SourcesAreKnown
  <2>2. sources \in [ClientObject -> Nat]
      BY DEF CallsInv, CallsTypeOK
  <2>3. sources' = [sources EXCEPT ![o] = 0]
    <3>1. CASE object[o].op # None /\ object[o].op.cb_id
        BY <2>1, <2>2, <3>1 DEF RemoveSource
    <3>2. CASE ~(object[o].op # None /\ object[o].op.cb_id)
        BY <2>1, <2>2, <3>2 DEF RemoveSource
    <3>3. QED
        BY <3>1, <3>2
  <2>4. QED
      BY <2>2, <2>3
<1>3. ASSUME NEW d \in Call
      PROVE  /\ call'[d] = None <=> call[d] = None
             /\ call'[d] \in CallFields \cup {None}
             /\ call[d] # None => call'[d].object = call[d].object
             /\ call[d] # None /\ call[d].object # o => call'[d] = call[d]
             /\ call[d] # None /\ call[d].object = o => call'[d].answer = "cancelled"
  <2>1. CASE call[d] = None
      BY <2>1 DEF Cancel
  <2>2. CASE call[d] # None /\ call[d].object # o
    <3>1. call'[d] = call[d]
        BY <2>2 DEF Cancel
    <3>2. QED
        BY <2>2, <3>1 DEF CallsInv, CallsTypeOK
  <2>3. CASE call[d] # None /\ call[d].object = o
    <3>1. PICK rec : rec = [call[d] EXCEPT !.answer = "cancelled", !.served = TRUE]
        OBVIOUS
    <3>2. call[d] \in CallFields
        BY <2>3 DEF CallsInv, CallsTypeOK
    <3>3. rec \in CallFields /\ rec.object = o /\ rec.answer = "cancelled"
        BY <2>3, <3>1, <3>2 DEF CallFields
    <3>4. rec # None
        BY <3>3, CallsAssumption
    <3>5. call'[d] = rec
        BY <2>3, <3>1 DEF Cancel
    <3>6. QED
        BY <2>3, <3>3, <3>4, <3>5
  <2>4. QED
      BY <2>1, <2>2, <2>3
<1>4. call' \in [Call -> CallFields \cup {None}]
    BY <1>3 DEF Cancel
<1>5. CallsTypeOK'
    BY <1>1, <1>2, <1>4 DEF CallsInv, CallsTypeOK
<1>6. SourcesAreKnown'
    BY <1>1, <1>2 DEF CallsInv, SourcesAreKnown, Live
<1>7. OperationsAreOfCalls'
  <2>1. \A x \in ClientObject : Live(x) /\ object[x].op # None => object[x].op.call \in Call
      BY LiveObject
  <2>2. \A x \in ClientObject : Live(x)' => Live(x) /\ x # o /\ object'[x] = object[x]
      BY <1>1 DEF Live
  <2>3. QED
      BY <1>3, <2>1, <2>2 DEF CallsInv, OperationsAreOfCalls
<1>8. ASSUME NEW d \in Call
      PROVE  CallIsSomewhere(d)'
  <2>1. CallIsSomewhere(d)
      BY DEF CallsInv
  <2>2. CASE call[d] # None /\ call[d].object = o
      BY <1>3, <2>1, <2>2 DEF CallIsSomewhere
  <2>3. CASE call[d] = None
      BY <1>3, <2>1, <2>3 DEF CallIsSomewhere
  <2>4. CASE call[d] # None /\ call[d].object # o
    <3>1. call[d].object \in ClientObject /\ call'[d] = call[d]
        BY <1>3, <2>4 DEF CallsInv, CallsTypeOK, CallFields
    <3>2. KeepsOp(call[d].object)
        BY <1>1, <2>4, <3>1 DEF KeepsOp, Live
    <3>3. QED
        BY <2>1, <3>1, <3>2, SamePlace DEF KeepsCall, CallIsSomewhere
  <2>5. QED
      BY <2>2, <2>3, <2>4
<1>9. StatusMoves
  <2>1. ASSUME NEW d \in Call, Moves(d)
        PROVE  /\ call[d] # None /\ call[d].object = o /\ AtWork(d)
               /\ MayBecome(CallStatus(d), CallStatus(d)')
    <3>1. call[d] # None /\ call[d].object = o
        BY <1>3, <2>1, SameStatus DEF KeepsCall
    <3>2. told[d] = "no"
        BY <1>3, <2>1, <3>1 DEF Moves, CallStatus
    <3>3. call[d].answer \in {"none", "ok", "failed"}
        BY <1>3, <2>1, <3>1, <3>2 DEF Moves, CallStatus, CallsInv, CallsTypeOK, CallFields
    <3>4. AtWork(d)
        BY <3>1, <3>2, <3>3 DEF CallsInv, CallIsSomewhere
    <3>5. CallStatus(d) \in {"pending", "ok", "failed"} /\ CallStatus(d)' = "dropped"
        BY <1>3, <3>1, <3>2, <3>3 DEF CallStatus
    <3>6. QED
        BY <3>1, <3>4, <3>5 DEF MayBecome
  <2>2. QED
      BY <2>1 DEF StatusMoves, AtWork
<1>10. QED
    BY <1>5, <1>6, <1>7, <1>8, <1>9 DEF CallsInv

\* An object is made by a blocking call, or not (gum_user_create_sync and the
\* others).
LEMMA SyncMadeStep ==
    ASSUME CallsInv, NEW o \in ClientObject, NEW kind \in Makers,
           NEW offline \in BOOLEAN, NEW has \in BOOLEAN, NEW reached \in BOOLEAN,
           SyncMade(o, kind, offline, has, reached)
    PROVE  /\ CallsInv' /\ StatusMoves
           /\ Live(o)' => object'[o].service = has
<1>1. /\ o \notin made /\ made' = made \cup {o}
      /\ UNCHANGED <<sources, call, inbox, told>>
    BY DEF SyncMade, Unmade
<1>2. ~Live(o) /\ sources[o] = 0
    BY <1>1 DEF CallsInv, OperationsAreOfCalls, SourcesAreKnown
<1>3. /\ object' \in [ClientObject -> ObjectFields \cup {None}]
      /\ remote' \in [ClientObject -> {"none", "new", "added"}]
      /\ \A x \in ClientObject : x # o => object'[x] = object[x]
      /\ Live(o)' => object'[o].op = None /\ object'[o].service = has
  <2>1. CASE \E s \in Outcomes(kind, "none"), proxy \in BOOLEAN :
                /\ remote' = [remote EXCEPT ![o] = s]
                /\ object' = [object EXCEPT ![o] =
                      [NewObject(offline, has, None) EXCEPT
                          !.proxy = ~offline /\ proxy,
                          !.id = s = "added" /\ (offline \/ proxy)]]
    <3>1. PICK s \in Outcomes(kind, "none"), proxy \in BOOLEAN :
                /\ remote' = [remote EXCEPT ![o] = s]
                /\ object' = [object EXCEPT ![o] =
                      [NewObject(offline, has, None) EXCEPT
                          !.proxy = ~offline /\ proxy,
                          !.id = s = "added" /\ (offline \/ proxy)]]
        BY <2>1
    <3>2. s \in {"new", "added"}
        BY DEF Outcomes, Makers
    <3>3. PICK n : n = NewObject(offline, has, None)
        OBVIOUS
    <3>4. n \in ObjectFields /\ n.op = None /\ n.service = has
        BY <3>3 DEF NewObject, ObjectFields
    <3>5. PICK new : new = [n EXCEPT !.proxy = ~offline /\ proxy,
                                     !.id = s = "added" /\ (offline \/ proxy)]
        OBVIOUS
    <3>6. new \in ObjectFields /\ new.op = None /\ new.service = has
        BY <3>4, <3>5 DEF ObjectFields
    <3>7. object' = [object EXCEPT ![o] = new]
        BY <3>1, <3>3, <3>5
    <3>8. remote' \in [ClientObject -> {"none", "new", "added"}]
        BY <3>1, <3>2 DEF CallsInv, CallsTypeOK
    <3>9. /\ object' \in [ClientObject -> ObjectFields \cup {None}]
          /\ object'[o] = new
          /\ \A x \in ClientObject : x # o => object'[x] = object[x]
        BY <3>6, <3>7 DEF CallsInv, CallsTypeOK
    <3>10. QED
        BY <3>6, <3>8, <3>9
  <2>2. CASE object' = [object EXCEPT ![o] = NewObject(FALSE, has, None)] /\ UNCHANGED remote
    <3>1. PICK n : n = NewObject(FALSE, has, None)
        OBVIOUS
    <3>2. n \in ObjectFields /\ n.op = None /\ n.service = has
        BY <3>1 DEF NewObject, ObjectFields
    <3>3. object' = [object EXCEPT ![o] = n]
        BY <2>2, <3>1
    <3>4. /\ object' \in [ClientObject -> ObjectFields \cup {None}]
          /\ object'[o] = n
          /\ \A x \in ClientObject : x # o => object'[x] = object[x]
        BY <3>2, <3>3 DEF CallsInv, CallsTypeOK
    <3>5. remote' \in [ClientObject -> {"none", "new", "added"}]
        BY <2>2 DEF CallsInv, CallsTypeOK
    <3>6. QED
        BY <3>2, <3>4, <3>5
  <2>3. CASE UNCHANGED <<object, remote>>
      BY <1>2, <2>3 DEF CallsInv, CallsTypeOK, Live
  <2>4. QED
      BY <2>1, <2>2, <2>3 DEF SyncMade
<1>4. CallsTypeOK' /\ IsFiniteSet(made')
    BY <1>1, <1>3, FS_AddElement DEF CallsInv, CallsTypeOK
<1>5. SourcesAreKnown'
    BY <1>1, <1>2, <1>3 DEF CallsInv, SourcesAreKnown, Live
<1>6. OperationsAreOfCalls'
  <2>1. \A x \in ClientObject : x # o => (Live(x)' <=> Live(x))
      BY <1>3 DEF Live
  <2>2. QED
      BY <1>1, <1>3, <2>1 DEF CallsInv, OperationsAreOfCalls
<1>7. ASSUME NEW d \in Call
      PROVE  CallIsSomewhere(d)'
  <2>1. Once(inbox, d)
      BY DEF CallsInv, CallIsSomewhere
  <2>2. call[d] # None => call[d].object \in ClientObject
      BY DEF CallsInv, CallsTypeOK, CallFields
  <2>3. call[d] # None /\ AtWork(d) => KeepsOp(call[d].object)
      BY <1>1, <1>2, <1>3, <2>2 DEF AtWork, KeepsOp, Live
  <2>4. QED
      BY <1>1, <2>1, <2>3, SamePlace DEF KeepsCall
<1>8. StatusMoves
    BY <1>1, SameStatus, NoneMoves DEF KeepsCall
<1>9. QED
    BY <1>3, <1>4, <1>5, <1>6, <1>7, <1>8 DEF CallsInv

\* A blocking request (gum_user_add_sync and the others).
LEMMA SyncRequestStep ==
    ASSUME CallsInv, NEW o \in ClientObject, NEW kind \in Requests, NEW syncs \in BOOLEAN,
           SyncRequest(o, kind, syncs)
    PROVE  /\ CallsInv' /\ StatusMoves
           /\ \A x \in ClientObject :
                 (Live(x)' <=> Live(x)) /\ (Live(x) => object'[x].service = object[x].service)
<1>1. PICK s \in Outcomes(kind, remote[o]), sync \in BOOLEAN :
          /\ remote' = [remote EXCEPT ![o] = s]
          /\ object' = [object EXCEPT ![o].id =
                           @ \/ object[o].offline \/ (sync /\ syncs)]
    BY DEF SyncRequest
<1>2. s \in {"new", "added"}
    BY DEF Outcomes
<1>3. Live(o) /\ object[o] \in ObjectFields
    BY LiveObject DEF SyncRequest
<1>4. PICK new : new = [object[o] EXCEPT !.id =
                           object[o].id \/ object[o].offline \/ (sync /\ syncs)]
    OBVIOUS
<1>5. new \in ObjectFields /\ new.op = object[o].op /\ new.service = object[o].service
    BY <1>3, <1>4 DEF ObjectFields
<1>6. new # None
    BY <1>5, CallsAssumption
<1>7. object' = [object EXCEPT ![o] = new]
    BY <1>1, <1>4
<1>8. UNCHANGED <<made, sources, call, told>>
    BY DEF SyncRequest
<1>9. /\ inbox' \in Seq(Message)
      /\ \A d \in Call : (Queued(inbox', d) <=> Queued(inbox, d)) /\ Once(inbox', d)
  <2>1. inbox \in Seq(Message) /\ \A d \in Call : Once(inbox, d)
      BY DEF CallsInv, CallsTypeOK, CallIsSomewhere
  <2>2. CASE inbox' = inbox
      BY <2>1, <2>2
  <2>3. CASE inbox' = inbox \o Announce(o, kind)
      BY <2>1, <2>3, AddAnnounced
  <2>4. QED
      BY <2>2, <2>3 DEF SyncRequest
<1>10. CallsTypeOK'
    BY <1>1, <1>2, <1>5, <1>7, <1>8, <1>9 DEF CallsInv, CallsTypeOK
<1>11. /\ object'[o] = new
       /\ \A x \in ClientObject : x # o => object'[x] = object[x]
    BY <1>7 DEF CallsInv, CallsTypeOK
<1>12. \A x \in ClientObject :
          KeepsOp(x) /\ (Live(x) => object'[x].service = object[x].service)
    BY <1>3, <1>5, <1>6, <1>11 DEF KeepsOp, Live
<1>13. CallsInv' /\ StatusMoves
    BY <1>8, <1>9, <1>10, <1>12, NothingMoves DEF CallsInv, KeepsCall
<1>14. QED
    BY <1>12, <1>13 DEF KeepsOp

\* A call is answered: its reply is the last message of the inbox.
LEMMA AnswerStep ==
    ASSUME CallsInv, NEW c \in Call, call[c] # None, call[c].answer = "none",
           NEW rec \in CallFields, rec.object = call[c].object, rec.answer \in {"ok", "failed"},
           call' = [call EXCEPT ![c] = rec],
           CallsTypeOK', Queued(inbox', c), Once(inbox', c),
           \A d \in Call : d # c => (Queued(inbox', d) <=> Queued(inbox, d)) /\ Once(inbox', d),
           UNCHANGED <<object, made, sources, told>>
    PROVE  CallsInv' /\ StatusMoves
<1>1. rec # None
    BY CallsAssumption
<1>2. call'[c] = rec /\ \A d \in Call : d # c => call'[d] = call[d]
    BY DEF CallsInv, CallsTypeOK
<1>3. /\ told[c] = "no" /\ AtWork(c) /\ ~OpOf(c).cb_id /\ ~OpOf(c).error
      /\ call[c].object \in ClientObject
    BY DEF CallsInv, CallIsSomewhere, CallsTypeOK, CallFields
<1>4. SourcesAreKnown'
    BY DEF CallsInv, SourcesAreKnown, Live
<1>5. OperationsAreOfCalls'
  <2>1. \A x \in ClientObject : Live(x) /\ object[x].op # None => object[x].op.call \in Call
      BY LiveObject
  <2>2. \A x \in ClientObject : Live(x)' <=> Live(x)
      BY DEF Live
  <2>3. QED
      BY <1>1, <1>2, <2>1, <2>2 DEF CallsInv, OperationsAreOfCalls
<1>6. CallIsSomewhere(c)'
    BY <1>1, <1>2, <1>3 DEF CallIsSomewhere, AtWork, OpOf, Live
<1>7. ASSUME NEW d \in Call, d # c
      PROVE  CallIsSomewhere(d)'
  <2>1. call[d] # None => KeepsOp(call[d].object)
      BY <1>2, <1>7 DEF KeepsOp, Live
  <2>2. QED
      BY <1>2, <1>7, <2>1, SamePlace DEF KeepsCall
<1>8. StatusMoves
  <2>1. CallStatus(c) = "pending" /\ CallStatus(c)' \in {"ok", "failed"}
      BY <1>1, <1>2, <1>3 DEF CallStatus
  <2>2. \A d \in Call : d # c => ~Moves(d)
      BY <1>2, SameStatus DEF KeepsCall
  <2>3. QED
      BY <2>1, <2>2, OneMoves DEF MayBecome
<1>9. QED
    BY <1>4, <1>5, <1>6, <1>7, <1>8 DEF CallsInv

\* GDBus gives up.
LEMMA TimesOutStep ==
    ASSUME CallsInv, NEW c \in Call, TimesOut(c)
    PROVE  CallsInv' /\ StatusMoves
<1>1. call[c] # None /\ call[c].answer = "none" /\ call[c] \in CallFields
    BY DEF TimesOut, CallsInv, CallsTypeOK
<1>2. PICK rec : rec = [call[c] EXCEPT !.answer = "failed"]
    OBVIOUS
<1>3. rec \in CallFields /\ rec.object = call[c].object /\ rec.answer = "failed"
    BY <1>1, <1>2 DEF CallFields
<1>4. /\ call' = [call EXCEPT ![c] = rec]
      /\ inbox' = Append(inbox, Reply(c))
      /\ UNCHANGED <<object, made, sources, remote, told>>
    BY <1>2 DEF TimesOut
<1>5. /\ inbox \in Seq(Message) /\ ~Queued(inbox, c) /\ \A d \in Call : Once(inbox, d)
    BY <1>1 DEF CallsInv, CallsTypeOK, CallIsSomewhere
<1>6. /\ inbox' \in Seq(Message) /\ Queued(inbox', c) /\ Once(inbox', c)
      /\ \A d \in Call : d # c => (Queued(inbox', d) <=> Queued(inbox, d)) /\ Once(inbox', d)
    BY <1>4, <1>5, AppendReply DEF AnyCall
<1>7. CallsTypeOK'
    BY <1>3, <1>4, <1>6 DEF CallsInv, CallsTypeOK
<1>8. QED
    BY <1>1, <1>3, <1>4, <1>6, <1>7, AnswerStep

\* The daemon carries a call out, in time or not.
LEMMA ServeStep ==
    ASSUME CallsInv, NEW c \in Call, Serve(c)
    PROVE  CallsInv' /\ StatusMoves
<1>1. call[c] # None /\ call[c] \in CallFields
    BY DEF Serve, CallsInv, CallsTypeOK
<1>2. PICK o, kind : o = call[c].object /\ kind = call[c].kind
    OBVIOUS
<1>3. o \in ClientObject
    BY <1>1, <1>2 DEF CallFields
<1>4. UNCHANGED <<object, made, sources, told>>
    BY DEF Serve
<1>5. remote' \in [ClientObject -> {"none", "new", "added"}]
  <2>1. \A s \in Outcomes(kind, remote[o]) : s \in {"new", "added"}
      BY DEF Outcomes
  <2>2. (\E s \in Outcomes(kind, remote[o]) : remote' = [remote EXCEPT ![o] = s]) \/ UNCHANGED remote
      BY <1>2 DEF Serve
  <2>3. QED
      BY <2>1, <2>2 DEF CallsInv, CallsTypeOK
<1>6. /\ inbox \in Seq(Message) /\ \A d \in Call : Once(inbox, d)
      /\ call[c].answer = "none" => ~Queued(inbox, c)
    BY <1>1 DEF CallsInv, CallsTypeOK, CallIsSomewhere
<1>7. CASE call[c].answer = "none"
  <2>1. PICK a \in {"ok", "failed"} :
           /\ call' = [call EXCEPT ![c].served = TRUE, ![c].answer = a]
           /\ \/ inbox' = inbox \o ServedMessages(c, o, kind)
              \/ inbox' = Append(inbox, Reply(c))
      BY <1>2, <1>7 DEF Serve
  <2>2. PICK rec : rec = [call[c] EXCEPT !.served = TRUE, !.answer = a]
      OBVIOUS
  <2>3. rec \in CallFields /\ rec.object = call[c].object /\ rec.answer = a
      BY <1>1, <2>1, <2>2 DEF CallFields
  <2>4. call' = [call EXCEPT ![c] = rec]
      BY <2>1, <2>2 DEF CallsInv, CallsTypeOK
  <2>5. /\ inbox' \in Seq(Message) /\ Queued(inbox', c) /\ Once(inbox', c)
        /\ \A d \in Call : d # c => (Queued(inbox', d) <=> Queued(inbox, d)) /\ Once(inbox', d)
    <3>1. CASE inbox' = inbox \o ServedMessages(c, o, kind)
        BY <1>3, <1>6, <1>7, <3>1, AddServed
    <3>2. CASE inbox' = Append(inbox, Reply(c))
        BY <1>6, <1>7, <3>2, AppendReply DEF AnyCall
    <3>3. QED
        BY <2>1, <3>1, <3>2
  <2>6. CallsTypeOK'
      BY <1>4, <1>5, <2>3, <2>4, <2>5 DEF CallsInv, CallsTypeOK
  <2>7. QED
      BY <1>1, <1>4, <1>7, <2>3, <2>4, <2>5, <2>6, AnswerStep
<1>8. CASE call[c].answer # "none"
  <2>1. /\ call' = [call EXCEPT ![c].served = TRUE, ![c].answer = call[c].answer]
        /\ inbox' = inbox \o Announce(o, kind) \/ inbox' = inbox
      BY <1>2, <1>8 DEF Serve
  <2>2. PICK rec : rec = [call[c] EXCEPT !.served = TRUE, !.answer = call[c].answer]
      OBVIOUS
  <2>3. rec \in CallFields /\ rec.object = call[c].object /\ rec.answer = call[c].answer
      BY <1>1, <2>2 DEF CallFields
  <2>4. rec # None
      BY <2>3, CallsAssumption
  <2>5. call' = [call EXCEPT ![c] = rec]
      BY <2>1, <2>2 DEF CallsInv, CallsTypeOK
  <2>6. \A d \in Call : KeepsCall(d)
      BY <1>1, <2>3, <2>4, <2>5 DEF KeepsCall, CallsInv, CallsTypeOK
  <2>7. /\ inbox' \in Seq(Message)
        /\ \A d \in Call : (Queued(inbox', d) <=> Queued(inbox, d)) /\ Once(inbox', d)
    <3>1. CASE inbox' = inbox \o Announce(o, kind)
        BY <1>3, <1>6, <3>1, AddAnnounced
    <3>2. CASE inbox' = inbox
        BY <1>6, <3>2
    <3>3. QED
        BY <2>1, <3>1, <3>2
  <2>8. CallsTypeOK'
      BY <1>4, <1>5, <2>3, <2>5, <2>7 DEF CallsInv, CallsTypeOK
  <2>9. \A x \in ClientObject : KeepsOp(x)
      BY <1>4 DEF KeepsOp, Live
  <2>10. QED
      BY <1>4, <2>6, <2>7, <2>8, <2>9, NothingMoves DEF CallsInv
<1>9. QED
    BY <1>7, <1>8

\* The D-Bus object goes.
LEMMA AdapterGoesStep ==
    ASSUME CallsInv, NEW o \in ClientObject, AdapterGoes(o)
    PROVE  CallsInv' /\ StatusMoves
<1>1. /\ remote' = [remote EXCEPT ![o] = "none"]
      /\ inbox' = inbox \o Signal(o, Unregistered(o))
      /\ UNCHANGED <<object, made, sources, call, told>>
    BY DEF AdapterGoes
<1>2. PICK m : m = Unregistered(o)
    OBVIOUS
<1>3. m \in Message /\ m.type # "reply"
    BY <1>2 DEF Unregistered, Message
<1>4. inbox \in Seq(Message) /\ \A d \in Call : Once(inbox, d)
    BY DEF CallsInv, CallsTypeOK, CallIsSomewhere
<1>5. /\ inbox' \in Seq(Message)
      /\ \A d \in Call : (Queued(inbox', d) <=> Queued(inbox, d)) /\ Once(inbox', d)
    BY <1>1, <1>2, <1>3, <1>4, AddSignal
<1>6. CallsTypeOK'
    BY <1>1, <1>5 DEF CallsInv, CallsTypeOK
<1>7. \A x \in ClientObject : KeepsOp(x)
    BY <1>1 DEF KeepsOp, Live
<1>8. QED
    BY <1>1, <1>5, <1>6, <1>7, NothingMoves DEF CallsInv, KeepsCall

\* The objects that refer to the user service stay those.
KeepsServices ==
    \A x \in ClientObject :
        (Live(x)' <=> Live(x)) /\ (Live(x) => object'[x].service = object[x].service)

\* A signal of the D-Bus object is delivered.
LEMMA DeliverSignalStep ==
    ASSUME CallsInv, inbox # <<>>, inbox' = Tail(inbox), Head(inbox).type # "reply",
           DeliverSignal(Head(inbox))
    PROVE  CallsInv' /\ StatusMoves /\ KeepsServices
<1>1. PICK m : m = Head(inbox)
    OBVIOUS
<1>2. inbox \in Seq(Message)
    BY DEF CallsInv, CallsTypeOK
<1>3. /\ m \in Message /\ inbox' \in Seq(Message)
      /\ \A d : /\ Queued(inbox', d) => Queued(inbox, d)
                /\ m # Reply(d) => (Queued(inbox, d) => Queued(inbox', d))
                /\ Once(inbox, d) => Once(inbox', d)
    BY <1>1, <1>2, TakeMessage
<1>4. \A d : m # Reply(d)
    BY <1>1 DEF Reply
<1>5. \A d \in Call : (Queued(inbox', d) <=> Queued(inbox, d)) /\ Once(inbox', d)
    BY <1>3, <1>4 DEF CallsInv, CallIsSomewhere
<1>6. PICK o : o = m.object
    OBVIOUS
<1>7. o \in ClientObject
    BY <1>1, <1>3, <1>6 DEF Message
<1>8. UNCHANGED <<made, sources, remote, call, told>>
    BY DEF DeliverSignal
<1>9. /\ object' \in [ClientObject -> ObjectFields \cup {None}]
      /\ \A x \in ClientObject : KeepsOp(x)
      /\ KeepsServices
  <2>1. CASE object' = object
      BY <2>1 DEF CallsInv, CallsTypeOK, KeepsOp, KeepsServices, Live
  <2>2. CASE object' # object
    <3>1. Live(o) /\ object[o] \in ObjectFields
        BY <1>1, <1>6, <1>7, <2>2, LiveObject DEF DeliverSignal
    <3>2. PICK new : new = IF m.type = "changed" THEN [object[o] EXCEPT !.id = TRUE]
                           ELSE [object[o] EXCEPT !.proxy = FALSE, !.id = FALSE]
        OBVIOUS
    <3>3. new \in ObjectFields /\ new.op = object[o].op /\ new.service = object[o].service
      <4>1. CASE m.type = "changed"
          BY <3>1, <3>2, <4>1 DEF ObjectFields
      <4>2. CASE m.type # "changed"
          BY <3>1, <3>2, <4>2 DEF ObjectFields
      <4>3. QED
          BY <4>1, <4>2
    <3>4. new # None
        BY <3>3, CallsAssumption
    <3>5. object' = [object EXCEPT ![o] = new]
      <4>1. CASE m.type = "changed"
          BY <1>1, <1>6, <2>2, <3>2, <4>1 DEF DeliverSignal
      <4>2. CASE m.type # "changed"
          BY <1>1, <1>6, <2>2, <3>2, <4>2 DEF DeliverSignal
      <4>3. QED
          BY <4>1, <4>2
    <3>6. /\ object'[o] = new /\ object' \in [ClientObject -> ObjectFields \cup {None}]
          /\ \A x \in ClientObject : x # o => object'[x] = object[x]
        BY <1>7, <3>3, <3>5 DEF CallsInv, CallsTypeOK
    <3>7. QED
        BY <3>1, <3>3, <3>4, <3>6 DEF KeepsOp, KeepsServices, Live
  <2>3. QED
      BY <2>1, <2>2
<1>10. CallsTypeOK'
    BY <1>3, <1>8, <1>9 DEF CallsInv, CallsTypeOK
<1>11. QED
    BY <1>5, <1>8, <1>9, <1>10, NothingMoves DEF CallsInv, KeepsCall

\* A message that is a reply is the reply to its call.
LEMMA ReplyMessage ==
    ASSUME NEW m \in Message, m.type = "reply"
    PROVE  m = Reply(m.call) /\ m.call \in AnyCall
  BY DEF Message, Reply, AnyCall

\* The object o takes a reply that was not cancelled.
Takes(o, c, new) ==
    /\ new \in ObjectFields
    /\ new.op = SetupIdle(object[o].op, call[c].answer = "failed")
    /\ new.service = object[o].service
    /\ object' = [object EXCEPT ![o] = new]
    /\ sources' = [sources EXCEPT ![o] = @ + 1]

\* The reply to a call on an object is delivered: the callback is scheduled
\* unless the call was cancelled.
LEMMA ReplyStep ==
    ASSUME CallsInv, inbox # <<>>, inbox' = Tail(inbox), NEW c \in Call,
           Head(inbox) = Reply(c), NEW o, o = call[c].object,
           \/ call[c].answer = "cancelled" /\ UNCHANGED <<object, sources>>
           \/ call[c].answer # "cancelled" /\ \E new : Takes(o, c, new),
           UNCHANGED <<made, remote, call, told>>
    PROVE  CallsInv' /\ StatusMoves /\ KeepsServices
<1>1. inbox \in Seq(Message) /\ \A d \in Call : Once(inbox, d)
    BY DEF CallsInv, CallsTypeOK, CallIsSomewhere
<1>2. /\ inbox' \in Seq(Message)
      /\ Queued(inbox, c) /\ ~Queued(inbox', c)
      /\ \A d \in Call : Once(inbox', d)
  <2>1. /\ inbox' \in Seq(Message)
        /\ \A d : /\ Head(inbox) = Reply(d) => Queued(inbox, d)
                  /\ Head(inbox) = Reply(d) /\ Once(inbox, d) => ~Queued(inbox', d)
                  /\ Once(inbox, d) => Once(inbox', d)
      BY <1>1, TakeMessage
  <2>2. QED
      BY <1>1, <2>1
<1>3. \A d \in Call : d # c => (Queued(inbox', d) <=> Queued(inbox, d))
  <2>1. \A d \in Call : d # c => Head(inbox) # Reply(d)
      BY DEF Reply
  <2>2. \A d : /\ Queued(inbox', d) => Queued(inbox, d)
               /\ Head(inbox) # Reply(d) => (Queued(inbox, d) => Queued(inbox', d))
      BY <1>1, TakeMessage
  <2>3. QED
      BY <2>1, <2>2
<1>4. /\ call[c] # None /\ o \in ClientObject
      /\ call[c].answer \in {"ok", "failed", "cancelled"}
      /\ call[c].answer # "cancelled" =>
            /\ told[c] = "no"
            /\ Live(o) /\ object[o].op # None /\ object[o].op.call = c
            /\ ~object[o].op.cb_id /\ ~object[o].op.error
  <2>1. CallIsSomewhere(c) /\ Queued(inbox, c)
      BY <1>2 DEF CallsInv
  <2>2. call[c] # None
      BY <2>1 DEF CallIsSomewhere
  <2>3. call[c] \in CallFields
      BY <2>2 DEF CallsInv, CallsTypeOK
  <2>4. QED
      BY <2>1, <2>2, <2>3 DEF CallIsSomewhere, AtWork, OpOf, CallFields
<1>5. CASE call[c].answer = "cancelled"
  <2>1. UNCHANGED <<object, sources>>
      BY <1>5
  <2>2. CallsTypeOK' /\ SourcesAreKnown'
      BY <1>2, <2>1 DEF CallsInv, CallsTypeOK, SourcesAreKnown, Live
  <2>3. OperationsAreOfCalls'
    <3>1. \A x \in ClientObject : Live(x)' <=> Live(x)
        BY <2>1 DEF Live
    <3>2. QED
        BY <2>1, <3>1 DEF CallsInv, OperationsAreOfCalls
  <2>4. CallIsSomewhere(c)'
      BY <1>2, <1>4, <1>5 DEF CallsInv, CallIsSomewhere
  <2>5. ASSUME NEW d \in Call, d # c
        PROVE  CallIsSomewhere(d)'
    <3>1. call[d] # None => KeepsOp(call[d].object)
        BY <2>1 DEF KeepsOp, Live
    <3>2. QED
        BY <1>2, <1>3, <2>5, <3>1, SamePlace DEF KeepsCall
  <2>6. StatusMoves
      BY SameStatus, NoneMoves DEF KeepsCall
  <2>7. KeepsServices
      BY <2>1 DEF KeepsServices, Live
  <2>8. QED
      BY <2>2, <2>3, <2>4, <2>5, <2>6, <2>7 DEF CallsInv
<1>6. CASE call[c].answer # "cancelled"
  <2>1. PICK new : Takes(o, c, new)
      BY <1>6
  <2>2. /\ object[o].op \in Op /\ sources[o] = 0
    <3>1. object[o].op \in Op
        BY <1>4, <1>6, LiveObject
    <3>2. sources[o] = 0
        BY <1>4, <1>6 DEF CallsInv, SourcesAreKnown
    <3>3. QED
        BY <3>1, <3>2
  <2>3. PICK op : op = [object[o].op EXCEPT !.error = @ \/ (call[c].answer = "failed"),
                                            !.cb_id = TRUE]
      OBVIOUS
  <2>4. op \in Op /\ op.call = c /\ op.cb_id /\ (op.error <=> call[c].answer = "failed")
      BY <1>4, <1>6, <2>2, <2>3 DEF Op
  <2>5. new.op = op
      BY <2>1, <2>3 DEF Takes, SetupIdle
  <2>6. op # None /\ new \in ObjectFields /\ new # None
      BY <2>1, <2>4, CallsAssumption DEF Takes
  <2>7. /\ object'[o] = new
        /\ \A x \in ClientObject : x # o => object'[x] = object[x]
        /\ object' \in [ClientObject -> ObjectFields \cup {None}]
        /\ sources'[o] = 1
        /\ \A x \in ClientObject : x # o => sources'[x] = sources[x]
        /\ sources' \in [ClientObject -> Nat]
      BY <1>4, <2>1, <2>2, <2>6 DEF Takes, CallsInv, CallsTypeOK
  <2>8. CallsTypeOK'
      BY <1>2, <2>7 DEF CallsInv, CallsTypeOK
  <2>9. SourcesAreKnown'
      BY <2>4, <2>5, <2>6, <2>7 DEF CallsInv, SourcesAreKnown, Live
  <2>10. OperationsAreOfCalls'
    <3>1. \A x \in ClientObject : Live(x)' <=> Live(x)
        BY <1>4, <1>6, <2>6, <2>7 DEF Live
    <3>2. ASSUME NEW x \in ClientObject, Live(x), x # o
          PROVE  /\ x \in made'
                 /\ object'[x].op # None =>
                      LET d == object'[x].op.call IN
                      /\ call'[d] # None
                      /\ call'[d].object = x
                      /\ call'[d].answer # "cancelled"
                      /\ object'[x].op.cb_id => told'[d] = "no" /\ call'[d].answer \in {"ok", "failed"}
        BY <2>7, <3>2 DEF CallsInv, OperationsAreOfCalls
    <3>3. /\ o \in made' /\ new.op.call = c /\ call'[c] # None /\ call'[c].object = o
          /\ told'[c] = "no" /\ call'[c].answer \in {"ok", "failed"}
        BY <1>4, <1>6, <2>4, <2>5 DEF CallsInv, OperationsAreOfCalls
    <3>4. QED
        BY <2>7, <3>1, <3>2, <3>3 DEF OperationsAreOfCalls
  <2>11. CallIsSomewhere(c)'
      BY <1>2, <1>4, <1>6, <2>4, <2>5, <2>6, <2>7
      DEF CallIsSomewhere, AtWork, OpOf, Live
  <2>12. ASSUME NEW d \in Call, d # c
         PROVE  CallIsSomewhere(d)'
    <3>1. call[d] # None => call[d].object \in ClientObject
        BY DEF CallsInv, CallsTypeOK, CallFields
    <3>2. call[d] # None /\ AtWork(d) => call[d].object # o
        BY <1>4, <1>6, <2>12 DEF AtWork
    <3>3. call[d] # None /\ AtWork(d) => KeepsOp(call[d].object)
        BY <2>7, <3>1, <3>2 DEF KeepsOp, Live
    <3>4. QED
        BY <1>2, <1>3, <2>12, <3>3, SamePlace DEF KeepsCall
  <2>13. StatusMoves
      BY SameStatus, NoneMoves DEF KeepsCall
  <2>14. KeepsServices
      BY <1>4, <1>6, <2>1, <2>6, <2>7 DEF KeepsServices, Live, Takes
  <2>15. QED
      BY <2>8, <2>9, <2>10, <2>11, <2>12, <2>13, <2>14 DEF CallsInv
<1>7. QED
    BY <1>5, <1>6

\* The reply to a constructor call is delivered (_on_new_user_cb and the others).
LEMMA OnMadeStep ==
    ASSUME CallsInv, inbox # <<>>, inbox' = Tail(inbox), NEW c \in Call,
           Head(inbox) = Reply(c), NEW o, o = call[c].object, OnMade(o, c)
    PROVE  CallsInv' /\ StatusMoves /\ KeepsServices
<1>1. UNCHANGED <<made, remote, call, told>>
    BY DEF OnMade
<1>2. CASE call[c].answer = "cancelled"
    BY <1>1, <1>2, ReplyStep DEF OnMade
<1>3. CASE call[c].answer # "cancelled"
  <2>1. PICK proxy \in BOOLEAN :
            object' = [object EXCEPT ![o] =
               [object[o] EXCEPT !.proxy = proxy,
                         !.id = proxy /\ remote[o] = "added",
                         !.op = SetupIdle(@, call[c].answer = "failed")]]
      BY <1>3 DEF OnMade
  <2>2. PICK op : op = SetupIdle(object[o].op, call[c].answer = "failed")
      OBVIOUS
  <2>3. object[o] \in ObjectFields /\ op \in Op
    <3>1. CallIsSomewhere(c) /\ call[c] \in CallFields \cup {None} /\ inbox \in Seq(Message)
        BY DEF CallsInv, CallsTypeOK
    <3>2. Queued(inbox, c)
        BY <3>1, TakeMessage
    <3>3. call[c] # None /\ call[c] \in CallFields
        BY <3>1, <3>2 DEF CallIsSomewhere
    <3>4. o \in ClientObject /\ Live(o) /\ object[o].op # None
        BY <1>3, <3>1, <3>2, <3>3 DEF CallIsSomewhere, AtWork, CallFields
    <3>5. object[o].op \in Op /\ object[o] \in ObjectFields
        BY <3>4, LiveObject
    <3>6. op \in Op
        BY <2>2, <3>5 DEF SetupIdle, Op
    <3>7. QED
        BY <3>5, <3>6
  <2>4. PICK new : new = [object[o] EXCEPT !.proxy = proxy,
                                           !.id = proxy /\ remote[o] = "added",
                                           !.op = op]
      OBVIOUS
  <2>5. new \in ObjectFields /\ new.op = op /\ new.service = object[o].service
      BY <2>3, <2>4 DEF ObjectFields
  <2>6. object' = [object EXCEPT ![o] = new]
      BY <2>1, <2>2, <2>4
  <2>7. sources' = [sources EXCEPT ![o] = @ + 1]
      BY <1>3 DEF OnMade
  <2>8. Takes(o, c, new)
      BY <2>2, <2>5, <2>6, <2>7 DEF Takes
  <2>9. QED
      BY <1>1, <1>3, <2>8, ReplyStep
<1>4. QED
    BY <1>2, <1>3

\* The reply to a request is delivered (_on_user_add_cb and the others).
LEMMA OnRequestedStep ==
    ASSUME CallsInv, inbox # <<>>, inbox' = Tail(inbox), NEW c \in Call,
           Head(inbox) = Reply(c), NEW o, o = call[c].object, OnRequested(o, c)
    PROVE  CallsInv' /\ StatusMoves /\ KeepsServices
<1>1. UNCHANGED <<made, remote, call, told>>
    BY DEF OnRequested
<1>2. CASE call[c].answer = "cancelled"
    BY <1>1, <1>2, ReplyStep DEF OnRequested
<1>3. CASE call[c].answer # "cancelled"
  <2>1. PICK op : op = SetupIdle(object[o].op, call[c].answer = "failed")
      OBVIOUS
  <2>2. object[o] \in ObjectFields /\ op \in Op
    <3>1. CallIsSomewhere(c) /\ call[c] \in CallFields \cup {None} /\ inbox \in Seq(Message)
        BY DEF CallsInv, CallsTypeOK
    <3>2. Queued(inbox, c)
        BY <3>1, TakeMessage
    <3>3. call[c] # None /\ call[c] \in CallFields
        BY <3>1, <3>2 DEF CallIsSomewhere
    <3>4. o \in ClientObject /\ Live(o) /\ object[o].op # None
        BY <1>3, <3>1, <3>2, <3>3 DEF CallIsSomewhere, AtWork, CallFields
    <3>5. object[o].op \in Op /\ object[o] \in ObjectFields
        BY <3>4, LiveObject
    <3>6. op \in Op
        BY <2>1, <3>5 DEF SetupIdle, Op
    <3>7. QED
        BY <3>5, <3>6
  <2>3. PICK new : new = [object[o] EXCEPT !.op = op]
      OBVIOUS
  <2>4. new \in ObjectFields /\ new.op = op /\ new.service = object[o].service
      BY <2>2, <2>3 DEF ObjectFields
  <2>5. /\ object' = [object EXCEPT ![o] = new]
        /\ sources' = [sources EXCEPT ![o] = @ + 1]
      BY <1>3, <2>1, <2>3 DEF OnRequested
  <2>6. Takes(o, c, new)
      BY <2>1, <2>4, <2>5 DEF Takes
  <2>7. QED
      BY <1>1, <1>3, <2>6, ReplyStep
<1>4. QED
    BY <1>2, <1>3

\* Steps that only tell the callback of a call of the service, add the reply to
\* one, or take it.
LEMMA ServiceCallStep ==
    ASSUME CallsInv, UNCHANGED <<object, made, sources, remote, call>>,
           told' = told \/ \E c \in ServiceCall : \E failed : Tell(c, failed),
           \/ inbox' = inbox
           \/ \E c \in ServiceCall : inbox' = Append(inbox, Reply(c))
           \/ inbox # <<>> /\ inbox' = Tail(inbox)
                 /\ \E c \in ServiceCall : Head(inbox) = Reply(c)
    PROVE  CallsInv' /\ StatusMoves
<1>1. /\ inbox \in Seq(Message) /\ \A d \in Call : Once(inbox, d)
      /\ told \in [AnyCall -> {"no", "ok", "failed", "again"}]
    BY DEF CallsInv, CallsTypeOK, CallIsSomewhere, AnyCall
<1>2. /\ told' \in [AnyCall -> {"no", "ok", "failed", "again"}]
      /\ \A d \in Call : told'[d] = told[d]
  <2>1. CASE told' = told
      BY <1>1, <2>1
  <2>2. CASE \E c \in ServiceCall : \E failed : Tell(c, failed)
    <3>1. PICK c \in ServiceCall : \E f : Tell(c, f)
        BY <2>2
    <3>2. PICK failed : Tell(c, failed)
        BY <3>1
    <3>3. PICK v : v = IF told[c] # "no" THEN "again" ELSE IF failed THEN "failed" ELSE "ok"
        OBVIOUS
    <3>4. v \in {"no", "ok", "failed", "again"}
        BY <3>3
    <3>5. told' = [told EXCEPT ![c] = v]
        BY <3>2, <3>3 DEF Tell
    <3>6. \A d \in Call : d # c /\ d \in AnyCall
        BY CallsAssumption DEF AnyCall
    <3>7. QED
        BY <1>1, <3>4, <3>5, <3>6
  <2>3. QED
      BY <2>1, <2>2
<1>3. /\ inbox' \in Seq(Message)
      /\ \A d \in Call : (Queued(inbox', d) <=> Queued(inbox, d)) /\ Once(inbox', d)
  <2>1. CASE inbox' = inbox
      BY <1>1, <2>1
  <2>2. CASE \E c \in ServiceCall : inbox' = Append(inbox, Reply(c))
    <3>1. PICK c \in ServiceCall : inbox' = Append(inbox, Reply(c))
        BY <2>2
    <3>2. c \in AnyCall /\ \A d \in Call : d # c
        BY CallsAssumption DEF AnyCall
    <3>3. QED
        BY <1>1, <3>1, <3>2, AppendReply
  <2>3. CASE inbox # <<>> /\ inbox' = Tail(inbox)
                /\ \E c \in ServiceCall : Head(inbox) = Reply(c)
    <3>1. PICK c \in ServiceCall : Head(inbox) = Reply(c)
        BY <2>3
    <3>2. c \in AnyCall /\ \A d \in Call : d # c
        BY CallsAssumption DEF AnyCall
    <3>3. \A d \in Call : Head(inbox) # Reply(d)
        BY <3>1, <3>2, ReplyIsMessage
    <3>4. QED
        BY <1>1, <2>3, <3>3, TakeMessage
  <2>4. QED
      BY <2>1, <2>2, <2>3
<1>4. CallsTypeOK'
    BY <1>2, <1>3 DEF CallsInv, CallsTypeOK, AnyCall
<1>5. \A x \in ClientObject : KeepsOp(x)
    BY DEF KeepsOp, Live
<1>6. QED
    BY <1>2, <1>3, <1>4, <1>5, NothingMoves DEF CallsInv, KeepsCall

-----------------------------------------------------------------------------
(***************************************************************************)
(* The user service                                                        *)
(***************************************************************************)

Refs == Cardinality(OnlineUsers) + Cardinality(app)

Kinds == {"proxy", "trigger", "list", "freed"}

\* Finitely many objects refer to the service.
LEMMA OnlineUsersFinite ==
    ASSUME CallsInv
    PROVE  IsFiniteSet(OnlineUsers) /\ Cardinality(OnlineUsers) \in Nat
<1>1. OnlineUsers \subseteq made
    BY DEF CallsInv, OperationsAreOfCalls, OnlineUsers, ClientObject
<1>2. IsFiniteSet(OnlineUsers)
    BY <1>1, FS_Subset DEF CallsInv
<1>3. QED
    BY <1>2, FS_CardinalityType

\* The application refers to the service at most twice.
LEMMA AppFinite ==
    ASSUME NEW a, a \subseteq {"service", "users"}
    PROVE  IsFiniteSet(a) /\ Cardinality(a) \in Nat
<1>1. IsFiniteSet({}) /\ IsFiniteSet({} \cup {"service"})
    BY FS_EmptySet, FS_AddElement
<1>2. IsFiniteSet(({} \cup {"service"}) \cup {"users"})
    BY <1>1, FS_AddElement
<1>3. a \subseteq ({} \cup {"service"}) \cup {"users"}
    OBVIOUS
<1>4. IsFiniteSet(a)
    BY <1>2, <1>3, FS_Subset
<1>5. QED
    BY <1>4, FS_CardinalityType

\* The references can be counted.
LEMMA RefsIsNat ==
    ASSUME CallsInv, ServiceTypeOK
    PROVE  Refs \in Nat
<1>1. Cardinality(OnlineUsers) \in Nat
    BY OnlineUsersFinite
<1>2. Cardinality(app) \in Nat
    BY AppFinite DEF ServiceTypeOK
<1>3. QED
    BY <1>1, <1>2 DEF Refs

\* One more, or one less, that refers to the service.
LEMMA OneMoreUser ==
    ASSUME CallsInv, ServiceTypeOK, NEW u \in UserObject, ~Live(u), Live(u)', object'[u].service,
           \A x \in UserObject : x # u => object'[x] = object[x], app' = app
    PROVE  Refs' = Refs + 1
<1>1. u \notin OnlineUsers /\ OnlineUsers' = OnlineUsers \cup {u}
    BY DEF OnlineUsers, Live
<1>2. Cardinality(OnlineUsers') = Cardinality(OnlineUsers) + 1
    BY <1>1, OnlineUsersFinite, FS_AddElement
<1>3. Cardinality(OnlineUsers) \in Nat /\ Cardinality(app) \in Nat
    BY OnlineUsersFinite, AppFinite DEF ServiceTypeOK
<1>4. Refs' = (Cardinality(OnlineUsers) + 1) + Cardinality(app)
    BY <1>2 DEF Refs
<1>5. QED
    BY <1>3, <1>4 DEF Refs

\* A user object that had the service goes.
LEMMA OneUserLess ==
    ASSUME CallsInv, ServiceTypeOK, NEW u \in UserObject, Live(u), object[u].service,
           object'[u] = None,
           \A x \in UserObject : x # u => object'[x] = object[x], app' = app
    PROVE  Refs = Refs' + 1 /\ Refs' \in Nat
<1>1. u \in OnlineUsers /\ OnlineUsers' = OnlineUsers \ {u}
    BY DEF OnlineUsers, Live
<1>2. /\ Cardinality(OnlineUsers') = Cardinality(OnlineUsers) - 1
      /\ IsFiniteSet(OnlineUsers')
    BY <1>1, OnlineUsersFinite, FS_RemoveElement
<1>3. Cardinality(OnlineUsers) \in Nat /\ Cardinality(app) \in Nat
    BY OnlineUsersFinite, AppFinite DEF ServiceTypeOK
<1>4. Refs' = (Cardinality(OnlineUsers) - 1) + Cardinality(app)
    BY <1>2 DEF Refs
<1>5. Cardinality(OnlineUsers') \in Nat
    BY <1>2, FS_CardinalityType
<1>6. QED
    BY <1>2, <1>3, <1>4, <1>5 DEF Refs

\* The objects that refer to the service are the same.
LEMMA SameUsers ==
    ASSUME \A x \in UserObject : (Live(x)' <=> Live(x)) /\
               (Live(x) => object'[x].service = object[x].service)
    PROVE  OnlineUsers' = OnlineUsers
  BY DEF OnlineUsers

\* The application refers to the service once more.
LEMMA OneMoreOfApp ==
    ASSUME CallsInv, ServiceTypeOK, NEW what \in {"service", "users"}, what \notin app,
           OnlineUsers' = OnlineUsers, app' = app \cup {what}
    PROVE  Refs' = Refs + 1
<1>1. Cardinality(app') = Cardinality(app) + 1
    BY AppFinite, FS_AddElement DEF ServiceTypeOK
<1>2. Cardinality(OnlineUsers) \in Nat /\ Cardinality(app) \in Nat
    BY OnlineUsersFinite, AppFinite DEF ServiceTypeOK
<1>3. Refs' = Cardinality(OnlineUsers) + (Cardinality(app) + 1)
    BY <1>1 DEF Refs
<1>4. QED
    BY <1>2, <1>3 DEF Refs

\* The application refers to the service once less.
LEMMA OneLessOfApp ==
    ASSUME CallsInv, ServiceTypeOK, NEW what \in app,
           OnlineUsers' = OnlineUsers, app' = app \ {what}
    PROVE  Refs = Refs' + 1 /\ Refs' \in Nat
<1>1. Cardinality(app') = Cardinality(app) - 1
    BY AppFinite, FS_RemoveElement DEF ServiceTypeOK
<1>2. app' \subseteq {"service", "users"}
    BY DEF ServiceTypeOK
<1>3. Cardinality(OnlineUsers) \in Nat /\ Cardinality(app) \in Nat /\ Cardinality(app') \in Nat
    BY <1>2, OnlineUsersFinite, AppFinite DEF ServiceTypeOK
<1>4. Refs' = Cardinality(OnlineUsers) + (Cardinality(app) - 1)
    BY <1>1 DEF Refs
<1>5. Refs' \in Nat
  <2>1. Refs' = Cardinality(OnlineUsers) + Cardinality(app')
      BY DEF Refs
  <2>2. QED
      BY <1>3, <2>1
<1>6. QED
    BY <1>3, <1>4, <1>5 DEF Refs

\* No reply to a call of the service comes in.
NoListReply == \A d \in ServiceCall : Queued(inbox', d) => Queued(inbox, d)

\* A step that the service does not see.
LEMMA ServiceUntouched ==
    ASSUME ServiceInv, UNCHANGED serviceVars, OnlineUsers' = OnlineUsers, NoListReply
    PROVE  ServiceInv'
<1>1. UNCHANGED <<service, service_sources, service_call, app>>
    BY DEF serviceVars
<1>2. ServiceTypeOK' /\ ServiceSourcesKnown'
    BY <1>1 DEF ServiceInv, ServiceTypeOK, ServiceSourcesKnown
<1>3. ServiceIsReferredTo'
    BY <1>1 DEF ServiceInv, ServiceIsReferredTo, OpListRefs
<1>4. ServiceCallsAnswered'
    BY <1>1 DEF ServiceInv, ServiceCallsAnswered, NoListReply
<1>5. QED
    BY <1>2, <1>3, <1>4 DEF ServiceInv

\* ServiceIsReferredTo in terms of Refs.
LEMMA ReferredTo ==
    ASSUME NEW s, s = service
    PROVE  ServiceIsReferredTo <=> IF s = None THEN Refs = 0
                                   ELSE s.refs >= Refs + OpListRefs(s) /\ s.refs > 0
  BY DEF ServiceIsReferredTo, Refs

\* What _constructor returns.
LEMMA ConstructorFields ==
    ASSUME ServiceTypeOK, NEW offline \in BOOLEAN, NEW s, s = Constructor(offline)
    PROVE  /\ s \in ServiceFields /\ s # None
           /\ service = None => s.refs = 1 /\ s.op = None /\ ~s.proxy_cb
           /\ service # None => /\ s.refs = service.refs + 1 /\ s.op = service.op
                                /\ s.proxy_cb = service.proxy_cb
<1>1. CASE service = None
  <2>1. s = [offline |-> offline, proxy |-> FALSE, proxy_cb |-> FALSE, refs |-> 1, op |-> None]
      BY <1>1 DEF Constructor
  <2>2. s \in ServiceFields /\ s.refs = 1 /\ s.op = None /\ ~s.proxy_cb
      BY <2>1 DEF ServiceFields
  <2>3. QED
      BY <1>1, <2>2, UserServiceAssumption
<1>2. CASE service # None
  <2>1. service \in ServiceFields
      BY <1>2 DEF ServiceTypeOK
  <2>2. s = [service EXCEPT !.refs = @ + 1]
      BY <1>2 DEF Constructor
  <2>3. s \in ServiceFields /\ s.refs = service.refs + 1 /\ s.op = service.op
        /\ s.proxy_cb = service.proxy_cb
      BY <2>1, <2>2 DEF ServiceFields
  <2>4. QED
      BY <1>2, <2>3, UserServiceAssumption
<1>3. QED
    BY <1>1, <1>2

\* The fields of the operation of the service.
LEMMA ServiceOpFields ==
    ASSUME NEW s \in ServiceFields, s.op # None
    PROVE  /\ s.op \in ServiceOp /\ s.op.call \in ServiceCall
           /\ s.op.error \in BOOLEAN /\ s.op.users \in BOOLEAN
           /\ s.op.cb \in {"none", "trigger", "list"}
<1>1. s.op \in ServiceOp
    BY DEF ServiceFields
<1>2. QED
    BY <1>1 DEF ServiceOp

\* The callback of an operation is scheduled, if there is one.
LEMMA SetupServiceIdleFields ==
    ASSUME NEW s \in ServiceFields, NEW failed \in BOOLEAN, NEW kind \in {"trigger", "list"},
           NEW t, t = SetupServiceIdle(s, failed, kind)
    PROVE  /\ t \in ServiceFields /\ t # None
           /\ t.refs = s.refs /\ t.proxy_cb = s.proxy_cb /\ t.proxy = s.proxy
           /\ s.op = None => t.op = None
           /\ s.op # None => t.op # None /\ t.op.cb = kind /\ t.op.users = s.op.users
<1>1. CASE s.op = None
  <2>1. t = s
      BY <1>1 DEF SetupServiceIdle
  <2>2. QED
      BY <1>1, <2>1, UserServiceAssumption
<1>2. CASE s.op # None
  <2>1. s.op \in ServiceOp
      BY <1>2, ServiceOpFields
  <2>2. PICK op : op = [s.op EXCEPT !.error = @ \/ failed, !.cb = kind]
      OBVIOUS
  <2>3. op \in ServiceOp /\ op.cb = kind /\ op.users = s.op.users
      BY <2>1, <2>2 DEF ServiceOp
  <2>4. t = [s EXCEPT !.op = op]
      BY <1>2, <2>2 DEF SetupServiceIdle, ServiceFields
  <2>5. /\ t \in ServiceFields /\ t.op = op
        /\ t.refs = s.refs /\ t.proxy_cb = s.proxy_cb /\ t.proxy = s.proxy
      BY <2>3, <2>4 DEF ServiceFields
  <2>6. QED
      BY <1>2, <2>3, <2>5, UserServiceAssumption
<1>3. QED
    BY <1>1, <1>2

\* The fields of an operation that _service_dbus_proxy_callback schedules.
LEMMA TriggerFields ==
    ASSUME NEW s \in ServiceFields, NEW failed \in BOOLEAN,
           NEW r, r = SetupServiceIdle(s, failed, "trigger")
    PROVE  /\ r \in ServiceFields /\ r.refs = s.refs
           /\ s.op = None => r.op = None
           /\ s.op # None => r.op # None /\ r.op.cb = "trigger" /\ r.op.users = s.op.users
<1>1. r \in ServiceFields /\ r.refs = s.refs
    BY SetupServiceIdleFields
<1>2. s.op = None => r.op = None
    BY SetupServiceIdleFields
<1>3. s.op # None => r.op # None /\ r.op.cb = "trigger" /\ r.op.users = s.op.users
    BY SetupServiceIdleFields
<1>4. QED
    BY <1>1, <1>2, <1>3

\* The same for the callback of a list.
LEMMA ListFields ==
    ASSUME NEW s \in ServiceFields, NEW failed \in BOOLEAN, s.op # None,
           NEW r, r = SetupServiceIdle(s, failed, "list")
    PROVE  /\ r \in ServiceFields /\ r.refs = s.refs /\ r.proxy_cb = s.proxy_cb
           /\ r.op # None /\ r.op.cb = "list"
<1>1. r \in ServiceFields /\ r.refs = s.refs /\ r.proxy_cb = s.proxy_cb
    BY SetupServiceIdleFields
<1>2. r.op # None /\ r.op.cb = "list"
    BY SetupServiceIdleFields
<1>3. QED
    BY <1>1, <1>2

\* What _service_dbus_proxy_callback leaves.
LEMMA ServiceDbusProxyFields ==
    ASSUME NEW s \in ServiceFields, NEW up \in BOOLEAN, NEW t, t = ServiceDbusProxy(s, up)
    PROVE  /\ t \in ServiceFields /\ t # None
           /\ t.refs = s.refs /\ ~t.proxy_cb
           /\ s.op = None => t.op = None
           /\ s.op # None => t.op # None /\ t.op.cb = "trigger" /\ t.op.users = s.op.users
<1>1. PICK ready \in BOOLEAN : ready = (s.proxy \/ up)
  <2>1. s.proxy \in BOOLEAN
      BY DEF ServiceFields
  <2>2. QED
      BY <2>1
<1>2. PICK failed \in BOOLEAN : failed = ~ready
    OBVIOUS
<1>3. PICK r : r = SetupServiceIdle(s, failed, "trigger")
    OBVIOUS
<1>4. /\ r \in ServiceFields /\ r.refs = s.refs
      /\ s.op = None => r.op = None
      /\ s.op # None => r.op # None /\ r.op.cb = "trigger" /\ r.op.users = s.op.users
    BY <1>3, TriggerFields
<1>5. t = [r EXCEPT !.proxy = ready, !.proxy_cb = FALSE]
    BY <1>1, <1>2, <1>3 DEF ServiceDbusProxy
<1>6. t \in ServiceFields /\ t.refs = r.refs /\ ~t.proxy_cb /\ t.op = r.op
    BY <1>4, <1>5 DEF ServiceFields
<1>7. QED
    BY <1>4, <1>6, UserServiceAssumption

\* An operation that keeps its list keeps the reference of the list.
LEMMA SameListRefs ==
    ASSUME NEW s, NEW t, s.op = None <=> t.op = None,
           s.op # None => t.op.users = s.op.users
    PROVE  OpListRefs(t) = OpListRefs(s)
  BY DEF OpListRefs

\* An operation has at most one reference to the service.
LEMMA ListRefsIsNat ==
    ASSUME NEW s
    PROVE  OpListRefs(s) \in {0, 1} /\ (s.op = None => OpListRefs(s) = 0)
  BY DEF OpListRefs

\* The callback of the proxy has run for s, the service as it was or with one
\* more reference (_service_dbus_proxy_callback).
LEMMA ProxyCallbackRuns ==
    ASSUME ServiceInv, NEW s \in ServiceFields, NEW up \in BOOLEAN,
           service = None => s.op = None,
           service # None => s.op = service.op,
           service' = ServiceDbusProxy(s, up),
           NEW srcs \in [Kinds -> Nat], srcs["trigger"] = service_sources["trigger"],
           srcs["list"] = service_sources["list"],
           service_sources' = [srcs EXCEPT !["trigger"] = IF s.op = None THEN @ ELSE @ + 1],
           UNCHANGED service_call
    PROVE  /\ service' \in ServiceFields /\ service' # None
           /\ service'.refs = s.refs /\ OpListRefs(service') = OpListRefs(s)
           /\ service_sources' \in [Kinds -> Nat]
           /\ ServiceSourcesKnown'
<1>1. PICK t : t = service'
    OBVIOUS
<1>2. /\ t \in ServiceFields /\ t # None
      /\ t.refs = s.refs /\ ~t.proxy_cb
      /\ s.op = None => t.op = None
      /\ s.op # None => t.op # None /\ t.op.cb = "trigger" /\ t.op.users = s.op.users
    BY <1>1, ServiceDbusProxyFields
<1>3. OpListRefs(t) = OpListRefs(s)
    BY <1>2, SameListRefs
<1>4. /\ service_sources' \in [Kinds -> Nat]
      /\ service_sources'["list"] = service_sources["list"]
      /\ s.op = None => service_sources'["trigger"] = service_sources["trigger"]
      /\ s.op # None => service_sources'["trigger"] > 0
    BY DEF Kinds
<1>5. ServiceSourcesKnown'
  <2>1. s.op = None =>
           /\ service_sources["trigger"] = 0 /\ service_sources["list"] = 0
           /\ \A c \in ServiceCall : service_call[c] \in {"unmade", "cancelled"}
      BY DEF ServiceInv, ServiceSourcesKnown
  <2>2. QED
      BY <1>1, <1>2, <1>4, <2>1 DEF ServiceSourcesKnown
<1>6. QED
    BY <1>1, <1>2, <1>3, <1>4, <1>5

\* ServiceIsReferredTo of a service that is there.
LEMMA ReferredToNow ==
    ASSUME ServiceIsReferredTo, service # None
    PROVE  service.refs >= Refs + OpListRefs(service) /\ service.refs > 0
  BY DEF ServiceIsReferredTo, Refs

\* And of the service that the next state has.
LEMMA ReferredToNext ==
    ASSUME NEW t, t = service', t # None, t.refs >= Refs' + OpListRefs(t), t.refs > 0
    PROVE  ServiceIsReferredTo'
<1>1. OpListRefs(service)' = OpListRefs(t)
    BY DEF OpListRefs
<1>2. QED
    BY <1>1 DEF ServiceIsReferredTo, Refs

\* The count of references is a number.
LEMMA ServiceRefsIsNat ==
    ASSUME NEW s \in ServiceFields
    PROVE  s.refs \in Nat
  BY DEF ServiceFields

\* The invariant of the service from its parts, for a step that keeps the calls
\* of the service and brings it no reply.
LEMMA ServiceGoesOn ==
    ASSUME ServiceInv, NEW t, t = service', t \in ServiceFields, t # None,
           t.refs >= Refs' + OpListRefs(t), t.refs > 0,
           service_sources' \in [Kinds -> Nat],
           app' \subseteq {"service", "users"},
           ServiceSourcesKnown', UNCHANGED service_call, NoListReply
    PROVE  ServiceInv'
<1>1. ServiceTypeOK'
    BY DEF ServiceInv, ServiceTypeOK, Kinds
<1>2. ServiceIsReferredTo'
    BY ReferredToNext
<1>3. ServiceCallsAnswered'
    BY DEF ServiceInv, ServiceCallsAnswered, NoListReply
<1>4. QED
    BY <1>1, <1>2, <1>3 DEF ServiceInv

\* An online user object is made, or a blocking call makes the service: one more
\* that refers to it (_constructor, _service_dbus_proxy_callback).
LEMMA ServiceUpStep ==
    ASSUME CallsInv, ServiceInv, NEW up \in BOOLEAN, ServiceUp(up),
           Refs' = Refs + 1, app' \subseteq {"service", "users"}, NoListReply
    PROVE  ServiceInv'
<1>1. PICK s : s = Constructor(FALSE)
    OBVIOUS
<1>2. /\ s \in ServiceFields /\ s # None
      /\ service = None => s.refs = 1 /\ s.op = None
      /\ service # None => s.refs = service.refs + 1 /\ s.op = service.op
    BY <1>1, ConstructorFields DEF ServiceInv
<1>3. /\ service' = ServiceDbusProxy(s, up)
      /\ service_sources' = [service_sources EXCEPT !["trigger"] = IF s.op = None THEN @ ELSE @ + 1]
      /\ UNCHANGED service_call
    BY <1>1 DEF ServiceUp, ServiceDbusProxySources
<1>4. PICK t : t = service'
    OBVIOUS
<1>5. /\ t \in ServiceFields /\ t # None
      /\ t.refs = s.refs /\ OpListRefs(t) = OpListRefs(s)
      /\ service_sources' \in [Kinds -> Nat]
      /\ ServiceSourcesKnown'
  <2>1. PICK srcs \in [Kinds -> Nat] : srcs = service_sources
      BY DEF ServiceInv, ServiceTypeOK, Kinds
  <2>2. service_sources' = [srcs EXCEPT !["trigger"] = IF s.op = None THEN @ ELSE @ + 1]
      BY <1>3, <2>1
  <2>3. /\ service' \in ServiceFields /\ service' # None
        /\ service'.refs = s.refs /\ OpListRefs(service') = OpListRefs(s)
        /\ service_sources' \in [Kinds -> Nat]
        /\ ServiceSourcesKnown'
      BY <1>2, <1>3, <2>1, <2>2, ProxyCallbackRuns
  <2>4. QED
      BY <1>4, <2>3
<1>6. Refs \in Nat
    BY RefsIsNat DEF ServiceInv
<1>7. t.refs >= Refs' + OpListRefs(t) /\ t.refs > 0
  <2>1. CASE service = None
    <3>1. Refs = 0
        BY <2>1 DEF ServiceInv, ServiceIsReferredTo, Refs
    <3>2. OpListRefs(s) = 0 /\ s.refs = 1
        BY <1>2, <2>1, ListRefsIsNat
    <3>3. QED
        BY <1>5, <3>1, <3>2
  <2>2. CASE service # None
    <3>1. service.refs >= Refs + OpListRefs(service) /\ service.refs > 0
        BY <2>2, ReferredToNow DEF ServiceInv
    <3>2. service.refs \in Nat
        BY <2>2, ServiceRefsIsNat DEF ServiceInv, ServiceTypeOK
    <3>3. OpListRefs(s) = OpListRefs(service) /\ OpListRefs(s) \in {0, 1}
        BY <1>2, <2>2, SameListRefs, ListRefsIsNat
    <3>4. QED
        BY <1>2, <1>5, <1>6, <2>2, <3>1, <3>2, <3>3
  <2>3. QED
      BY <2>1, <2>2
<1>8. QED
    BY <1>3, <1>4, <1>5, <1>7, ServiceGoesOn

\* The proxy callback runs, and nothing refers to the service once more.
LEMMA ProxyCallbackStep ==
    ASSUME CallsInv, ServiceInv, service # None, NEW up \in BOOLEAN,
           service' = ServiceDbusProxy(service, up),
           NEW srcs \in [Kinds -> Nat], srcs["trigger"] = service_sources["trigger"],
           srcs["list"] = service_sources["list"],
           service_sources' = [srcs EXCEPT !["trigger"] = IF service.op = None THEN @ ELSE @ + 1],
           UNCHANGED <<service_call, app>>, OnlineUsers' = OnlineUsers, NoListReply
    PROVE  ServiceInv'
<1>1. PICK t : t = service'
    OBVIOUS
<1>2. service \in ServiceFields
    BY DEF ServiceInv, ServiceTypeOK
<1>3. /\ t \in ServiceFields /\ t # None
      /\ t.refs = service.refs /\ OpListRefs(t) = OpListRefs(service)
      /\ service_sources' \in [Kinds -> Nat]
      /\ ServiceSourcesKnown'
    BY <1>1, <1>2, ProxyCallbackRuns
<1>4. Refs' = Refs
    BY DEF Refs
<1>5. t.refs >= Refs' + OpListRefs(t) /\ t.refs > 0
    BY <1>3, <1>4, ReferredToNow DEF ServiceInv
<1>6. app' \subseteq {"service", "users"}
    BY DEF ServiceInv, ServiceTypeOK
<1>7. QED
    BY <1>1, <1>3, <1>5, <1>6, ServiceGoesOn

\* A user object that is made and freed at once.
LEMMA ServiceUpAndDownStep ==
    ASSUME CallsInv, ServiceInv, NEW up \in BOOLEAN, ServiceUpAndDown(up),
           UNCHANGED <<service_call, app>>, OnlineUsers' = OnlineUsers, NoListReply
    PROVE  ServiceInv'
<1>1. CASE service = None
    BY <1>1, ServiceUntouched DEF ServiceUpAndDown, serviceVars
<1>2. CASE service # None
  <2>1. PICK srcs \in [Kinds -> Nat] : srcs = service_sources
      BY DEF ServiceInv, ServiceTypeOK, Kinds
  <2>2. /\ service' = ServiceDbusProxy(service, up)
        /\ service_sources' = [srcs EXCEPT !["trigger"] = IF service.op = None THEN @ ELSE @ + 1]
      BY <1>2, <2>1 DEF ServiceUpAndDown, ServiceDbusProxySources
  <2>3. QED
      BY <1>2, <2>1, <2>2, ProxyCallbackStep
<1>3. QED
    BY <1>1, <1>2

\* The source of an id that is set is there.
LEMMA NamedSourceIsThere ==
    ASSUME ServiceInv, service # None, NEW k \in {"proxy", "trigger", "list"}
    PROVE  service_sources[k] \in Nat /\ service_sources[k] - NamedSource(service, k) \in Nat
<1>1. service_sources[k] \in Nat
    BY DEF ServiceInv, ServiceTypeOK
<1>2. NamedSource(service, k) \in {0, 1}
    BY DEF NamedSource
<1>3. NamedSource(service, k) = 1 => service_sources[k] > 0
    BY DEF NamedSource, ServiceInv, ServiceSourcesKnown
<1>4. QED
    BY <1>1, <1>2, <1>3

\* The service goes with its last reference (_dispose).
LEMMA ServiceDisposeStep ==
    ASSUME CallsInv, ServiceInv, service # None, ServiceDispose(service), Refs' = 0,
           app' \subseteq {"service", "users"}, NoListReply
    PROVE  ServiceInv'
<1>1. service' = None
    BY DEF ServiceDispose
<1>2. /\ service_sources' \in [Kinds -> Nat]
      /\ \A k \in {"proxy", "trigger", "list"} : service_sources'[k] = 0
  <2>1. PICK n : n = service_sources["freed"] +
                    (service_sources["proxy"] - NamedSource(service, "proxy")) +
                    (service_sources["trigger"] - NamedSource(service, "trigger")) +
                    (service_sources["list"] - NamedSource(service, "list"))
      OBVIOUS
  <2>2. service_sources["freed"] \in Nat
      BY DEF ServiceInv, ServiceTypeOK
  <2>3. /\ service_sources["proxy"] - NamedSource(service, "proxy") \in Nat
        /\ service_sources["trigger"] - NamedSource(service, "trigger") \in Nat
        /\ service_sources["list"] - NamedSource(service, "list") \in Nat
      BY NamedSourceIsThere
  <2>4. n \in Nat
      BY <2>1, <2>2, <2>3
  <2>5. DOMAIN service_sources = Kinds
      BY DEF ServiceInv, ServiceTypeOK, Kinds
  <2>6. service_sources' = [k \in Kinds |-> IF k = "freed" THEN n ELSE 0]
      BY <2>1, <2>5 DEF ServiceDispose
  <2>7. QED
      BY <2>4, <2>6 DEF Kinds
<1>3. /\ service_call' \in [ServiceCall -> {"unmade", "create", "none", "ok", "failed",
                                             "cancelled"}]
      /\ \A c \in ServiceCall : service_call'[c] \in {"unmade", "cancelled"}
      /\ \A c \in ServiceCall : service_call[c] # "unmade" => service_call'[c] = "cancelled"
    BY DEF ServiceDispose
<1>4. ServiceTypeOK'
    BY <1>1, <1>2, <1>3 DEF ServiceTypeOK, Kinds
<1>5. ServiceIsReferredTo'
    BY <1>1 DEF ServiceIsReferredTo, Refs
<1>6. ServiceSourcesKnown'
    BY <1>1, <1>2, <1>3 DEF ServiceSourcesKnown
<1>7. ServiceCallsAnswered'
    BY <1>3 DEF ServiceInv, ServiceCallsAnswered, NoListReply
<1>8. QED
    BY <1>4, <1>5, <1>6, <1>7 DEF ServiceInv

\* One less that refers to the service.
LEMMA ServiceUnrefStep ==
    ASSUME CallsInv, ServiceInv, ServiceUnref(service),
           Refs = Refs' + 1, Refs' \in Nat, app' \subseteq {"service", "users"}, NoListReply
    PROVE  ServiceInv'
<1>1. service # None
    BY DEF ServiceInv, ServiceIsReferredTo, Refs
<1>2. /\ service \in ServiceFields /\ service.refs \in Nat
      /\ service.refs >= Refs + OpListRefs(service) /\ service.refs > 0
    BY <1>1, ReferredToNow, ServiceRefsIsNat DEF ServiceInv, ServiceTypeOK
<1>3. OpListRefs(service) \in {0, 1}
    BY ListRefsIsNat
<1>4. CASE service.refs = 1
  <2>1. Refs' = 0
      BY <1>2, <1>3, <1>4
  <2>2. ServiceDispose(service)
      BY <1>4 DEF ServiceUnref
  <2>3. QED
      BY <1>1, <2>1, <2>2, ServiceDisposeStep
<1>5. CASE service.refs # 1
  <2>1. PICK t : t = service'
      OBVIOUS
  <2>2. /\ t = [service EXCEPT !.refs = service.refs - 1]
        /\ UNCHANGED <<service_sources, service_call>>
      BY <1>5, <2>1 DEF ServiceUnref
  <2>3. service.refs - 1 \in Nat
      BY <1>2
  <2>4. /\ t \in ServiceFields /\ t.refs = service.refs - 1
        /\ t.op = service.op /\ t.proxy_cb = service.proxy_cb
      BY <1>2, <2>2, <2>3 DEF ServiceFields
  <2>5. t # None
      BY <2>4, UserServiceAssumption
  <2>6. OpListRefs(t) = OpListRefs(service)
      BY <2>4, SameListRefs
  <2>7. t.refs >= Refs' + OpListRefs(t) /\ t.refs > 0
      BY <1>2, <1>3, <1>5, <2>4, <2>6
  <2>8. service_sources' \in [Kinds -> Nat]
      BY <2>2 DEF ServiceInv, ServiceTypeOK, Kinds
  <2>9. ServiceSourcesKnown'
      BY <1>1, <2>1, <2>2, <2>4, <2>5 DEF ServiceInv, ServiceSourcesKnown
  <2>10. QED
      BY <2>1, <2>2, <2>4, <2>5, <2>7, <2>8, <2>9, ServiceGoesOn
<1>6. QED
    BY <1>4, <1>5

\* Sources once the operation of s was freed, for a service that was there.
LEMMA FreedOpSources ==
    ASSUME ServiceInv, NEW s, s.op = None \/ (service # None /\ s.op = service.op)
    PROVE  /\ FreeServiceOpSources(s) \in [Kinds -> Nat]
           /\ FreeServiceOpSources(s)["proxy"] = service_sources["proxy"]
<1>1. service_sources \in [Kinds -> Nat]
    BY DEF ServiceInv, ServiceTypeOK, Kinds
<1>2. \A k \in {"trigger", "list"} : service_sources[k] - NamedSource(s, k) \in Nat
  <2>1. CASE s.op = None
    <3>1. \A k \in {"trigger", "list"} : NamedSource(s, k) = 0
        BY <2>1 DEF NamedSource
    <3>2. QED
        BY <1>1, <3>1 DEF Kinds
  <2>2. CASE service # None /\ s.op = service.op
    <3>1. \A k \in {"trigger", "list"} : NamedSource(s, k) = NamedSource(service, k)
        BY <2>2 DEF NamedSource
    <3>2. QED
        BY <2>2, <3>1, NamedSourceIsThere
  <2>3. QED
      BY <2>1, <2>2
<1>3. FreeServiceOpSources(s) =
          [k \in Kinds |-> IF k \in {"trigger", "list"} THEN service_sources[k] - NamedSource(s, k)
                           ELSE service_sources[k]]
    BY <1>1 DEF FreeServiceOpSources
<1>4. QED
    BY <1>1, <1>2, <1>3 DEF Kinds

\* A call of the service that no callback can be told of yet.
LEMMA NewServiceOp ==
    ASSUME NEW c \in ServiceCall,
           NEW op, op = [call |-> c, error |-> FALSE, cb |-> "none", users |-> FALSE]
    PROVE  op \in ServiceOp /\ op # None /\ op.cb = "none" /\ op.users = FALSE
<1>1. op \in ServiceOp /\ op.cb = "none" /\ op.users = FALSE
    BY DEF ServiceOp
<1>2. QED
    BY <1>1, UserServiceAssumption

\* A call was begun: the service t has a new operation (_create_op).
LEMMA ServiceBegins ==
    ASSUME ServiceInv, NEW c \in ServiceCall, service_call[c] = "unmade",
           NEW answer \in {"create", "none"}, service_call' = [service_call EXCEPT ![c] = answer],
           NEW t, t = service', t \in ServiceFields, t # None,
           t.op # None, t.op.cb = "none", t.proxy_cb => service_sources'["proxy"] > 0,
           t.refs >= Refs' + OpListRefs(t), t.refs > 0,
           service_sources' \in [Kinds -> Nat],
           app' \subseteq {"service", "users"}, UNCHANGED inbox
    PROVE  ServiceInv'
<1>1. ServiceTypeOK'
    BY DEF ServiceInv, ServiceTypeOK, Kinds
<1>2. ServiceIsReferredTo'
    BY ReferredToNext
<1>3. ServiceSourcesKnown'
    BY DEF ServiceSourcesKnown
<1>4. ServiceCallsAnswered'
    BY DEF ServiceInv, ServiceTypeOK, ServiceCallsAnswered
<1>5. QED
    BY <1>1, <1>2, <1>3, <1>4 DEF ServiceInv

\* The application makes the service, or refers to it once more, and has its
\* creation reported.
LEMMA CreateServiceStep ==
    ASSUME CallsInv, ServiceInv, NEW c \in ServiceCall, gum_user_service_create(c)
    PROVE  ServiceInv'
<1>1. PICK s : s = Constructor(FALSE)
    OBVIOUS
<1>2. /\ s \in ServiceFields /\ s # None
      /\ service = None => s.refs = 1 /\ s.op = None /\ ~s.proxy_cb
      /\ service # None => /\ s.refs = service.refs + 1 /\ s.op = service.op
                           /\ s.proxy_cb = service.proxy_cb
    BY <1>1, ConstructorFields DEF ServiceInv
<1>3. PICK op : op = [call |-> c, error |-> FALSE, cb |-> "none", users |-> FALSE]
    OBVIOUS
<1>4. op \in ServiceOp /\ op # None /\ op.cb = "none" /\ op.users = FALSE
    BY <1>3, NewServiceOp
<1>5. PICK refs : refs = s.refs - OpListRefs(s)
    OBVIOUS
<1>6. /\ OnlineUsers' = OnlineUsers
      /\ UNCHANGED inbox
      /\ "service" \notin app /\ app' = app \cup {"service"}
      /\ service_call[c] = "unmade" /\ service_call' = [service_call EXCEPT ![c] = "create"]
    BY DEF gum_user_service_create, callVars, OnlineUsers, Live
<1>7. Refs' = Refs + 1 /\ Refs \in Nat
    BY <1>6, OneMoreOfApp, RefsIsNat DEF ServiceInv
<1>8. refs \in Nat /\ refs >= Refs + 1
  <2>1. CASE service = None
    <3>1. Refs = 0
        BY <2>1 DEF ServiceInv, ServiceIsReferredTo, Refs
    <3>2. OpListRefs(s) = 0 /\ s.refs = 1
        BY <1>2, <2>1, ListRefsIsNat
    <3>3. QED
        BY <1>5, <3>1, <3>2
  <2>2. CASE service # None
    <3>1. service.refs >= Refs + OpListRefs(service) /\ service.refs > 0
        BY <2>2, ReferredToNow DEF ServiceInv
    <3>2. service.refs \in Nat
        BY <2>2, ServiceRefsIsNat DEF ServiceInv, ServiceTypeOK
    <3>3. OpListRefs(s) = OpListRefs(service) /\ OpListRefs(s) \in {0, 1}
        BY <1>2, <2>2, SameListRefs, ListRefsIsNat
    <3>4. QED
        BY <1>2, <1>5, <1>7, <2>2, <3>1, <3>2, <3>3
  <2>3. QED
      BY <2>1, <2>2
<1>9. PICK t : t = service'
    OBVIOUS
<1>10. t = [s EXCEPT !.op = op, !.proxy_cb = TRUE, !.refs = refs]
    BY <1>1, <1>2, <1>3, <1>5, <1>9
    DEF gum_user_service_create, ServiceCreateOp, ServiceFields
<1>11. t \in ServiceFields /\ t.refs = refs /\ t.op = op
    BY <1>2, <1>4, <1>8, <1>10 DEF ServiceFields
<1>12. t # None /\ OpListRefs(t) = 0
    BY <1>4, <1>11, UserServiceAssumption DEF OpListRefs
<1>13. /\ service_sources' \in [Kinds -> Nat]
       /\ service_sources'["proxy"] > 0
  <2>1. PICK srcs : srcs = FreeServiceOpSources(s)
      OBVIOUS
  <2>2. s.op = None \/ (service # None /\ s.op = service.op)
      BY <1>2
  <2>3. srcs \in [Kinds -> Nat] /\ srcs["proxy"] = service_sources["proxy"]
      BY <2>1, <2>2, FreedOpSources
  <2>4. service_sources' = [srcs EXCEPT !["proxy"] = IF s.proxy_cb THEN @ ELSE @ + 1]
      BY <1>1, <2>1 DEF gum_user_service_create
  <2>5. s.proxy_cb => service_sources["proxy"] > 0
      BY <1>2 DEF ServiceInv, ServiceSourcesKnown
  <2>6. QED
      BY <2>3, <2>4, <2>5 DEF Kinds
<1>14. app' \subseteq {"service", "users"}
    BY <1>6 DEF ServiceInv, ServiceTypeOK
<1>15. t.refs >= Refs' + OpListRefs(t) /\ t.refs > 0
    BY <1>7, <1>8, <1>11, <1>12
<1>16. QED
    BY <1>4, <1>6, <1>9, <1>11, <1>12, <1>13, <1>14, <1>15, ServiceBegins

\* The application refers to a service that is there.
LEMMA AppHasService ==
    ASSUME CallsInv, ServiceInv, app # {}
    PROVE  service # None /\ Refs \in Nat /\ Refs > 0
<1>1. app \subseteq {"service", "users"}
    BY DEF ServiceInv, ServiceTypeOK
<1>2. IsFiniteSet(app) /\ Cardinality(app) \in Nat
    BY <1>1, AppFinite
<1>3. Cardinality(app) # 0
    BY <1>2, FS_EmptySet
<1>4. Cardinality(OnlineUsers) \in Nat
    BY OnlineUsersFinite
<1>5. Refs \in Nat /\ Refs > 0
    BY <1>2, <1>3, <1>4 DEF Refs
<1>6. QED
    BY <1>5 DEF ServiceInv, ServiceIsReferredTo, Refs

\* The application asks for the list of users.
LEMMA GetUserListStep ==
    ASSUME CallsInv, ServiceInv, NEW c \in ServiceCall,
           gum_user_service_get_user_list(c)
    PROVE  ServiceInv'
<1>1. /\ service # None
      /\ service \in ServiceFields /\ service.refs \in Nat
      /\ service.refs >= Refs + OpListRefs(service) /\ service.refs > 0
  <2>1. service # None
      BY AppHasService DEF gum_user_service_get_user_list
  <2>2. QED
      BY <2>1, ReferredToNow, ServiceRefsIsNat DEF ServiceInv, ServiceTypeOK
<1>2. PICK op : op = [call |-> c, error |-> FALSE, cb |-> "none", users |-> FALSE]
    OBVIOUS
<1>3. op \in ServiceOp /\ op # None /\ op.cb = "none" /\ op.users = FALSE
    BY <1>2, NewServiceOp
<1>4. /\ OnlineUsers' = OnlineUsers
      /\ UNCHANGED <<inbox, app>> /\ "service" \in app
      /\ service_call[c] = "unmade" /\ service_call' = [service_call EXCEPT ![c] = "none"]
      /\ service_sources' = FreeServiceOpSources(service)
    BY DEF gum_user_service_get_user_list, callVars, OnlineUsers, Live
<1>5. Refs' = Refs /\ Refs \in Nat /\ Refs > 0
  <2>1. Refs \in Nat /\ Refs > 0
      BY <1>4, AppHasService
  <2>2. Refs' = Refs
      BY <1>4 DEF Refs
  <2>3. QED
      BY <2>1, <2>2
<1>6. PICK refs : refs = service.refs - OpListRefs(service)
    OBVIOUS
<1>7. refs \in Nat /\ refs >= Refs
    BY <1>1, <1>5, <1>6, ListRefsIsNat
<1>8. PICK t : t = service'
    OBVIOUS
<1>9. t = [service EXCEPT !.op = op, !.refs = refs]
    BY <1>1, <1>2, <1>6, <1>8
    DEF gum_user_service_get_user_list, ServiceCreateOp, ServiceFields
<1>10. /\ t \in ServiceFields /\ t.refs = refs /\ t.op = op
       /\ t.proxy_cb = service.proxy_cb
    BY <1>1, <1>3, <1>7, <1>9 DEF ServiceFields
<1>11. t # None /\ OpListRefs(t) = 0
    BY <1>3, <1>10, UserServiceAssumption DEF OpListRefs
<1>12. /\ service_sources' \in [Kinds -> Nat]
       /\ t.proxy_cb => service_sources'["proxy"] > 0
  <2>1. /\ service_sources' \in [Kinds -> Nat]
        /\ service_sources'["proxy"] = service_sources["proxy"]
      BY <1>1, <1>4, FreedOpSources
  <2>2. service.proxy_cb => service_sources["proxy"] > 0
      BY <1>1 DEF ServiceInv, ServiceSourcesKnown
  <2>3. QED
      BY <1>10, <2>1, <2>2
<1>13. app' \subseteq {"service", "users"}
    BY <1>4 DEF ServiceInv, ServiceTypeOK
<1>14. t.refs >= Refs' + OpListRefs(t) /\ t.refs > 0
    BY <1>5, <1>7, <1>10, <1>11
<1>15. QED
    BY <1>3, <1>4, <1>8, <1>10, <1>11, <1>12, <1>13, <1>14, ServiceBegins

\* The idle source of gum_user_service_create runs.
LEMMA ServiceDbusProxyCallbackStep ==
    ASSUME CallsInv, ServiceInv, ServiceDbusProxyCallback
    PROVE  ServiceInv'
<1>1. PICK up \in BOOLEAN : service' = ServiceDbusProxy(service, up)
    BY DEF ServiceDbusProxyCallback
<1>2. PICK srcs : srcs = [service_sources EXCEPT !["proxy"] = @ - 1]
    OBVIOUS
<1>3. service_sources \in [Kinds -> Nat] /\ service_sources["proxy"] > 0
    BY DEF ServiceDbusProxyCallback, ServiceInv, ServiceTypeOK, Kinds
<1>4. /\ srcs \in [Kinds -> Nat]
      /\ srcs["trigger"] = service_sources["trigger"] /\ srcs["list"] = service_sources["list"]
    BY <1>2, <1>3 DEF Kinds
<1>5. service_sources' = [srcs EXCEPT !["trigger"] = IF service.op = None THEN @ ELSE @ + 1]
  <2>1. service_sources' =
            [[service_sources EXCEPT !["trigger"] = IF service.op = None THEN @ ELSE @ + 1]
                EXCEPT !["proxy"] = @ - 1]
      BY DEF ServiceDbusProxyCallback, ServiceDbusProxySources
  <2>2. QED
      BY <1>2, <1>3, <2>1 DEF Kinds
<1>6. /\ OnlineUsers' = OnlineUsers /\ NoListReply
      /\ UNCHANGED <<service_call, app>> /\ service # None
    BY DEF ServiceDbusProxyCallback, callVars, OnlineUsers, Live, NoListReply
<1>7. QED
    BY <1>1, <1>4, <1>5, <1>6, ProxyCallbackStep

\* A service that has a source for a callback has an operation.
LEMMA SourceHasOp ==
    ASSUME ServiceInv, service # None, NEW k \in {"trigger", "list"}, service_sources[k] > 0
    PROVE  /\ service \in ServiceFields /\ service.op # None
           /\ service.op \in ServiceOp /\ service.op.call \in ServiceCall
           /\ service.op.users \in BOOLEAN
<1>1. service \in ServiceFields
    BY DEF ServiceInv, ServiceTypeOK
<1>2. service.op # None
    BY DEF ServiceInv, ServiceSourcesKnown
<1>3. QED
    BY <1>1, <1>2, ServiceOpFields

\* The source that has run is gone, and cb_id with it.
LEMMA SourceRuns ==
    ASSUME ServiceInv, NEW k \in {"trigger", "list"}, service_sources[k] > 0, service # None,
           service_sources' = [service_sources EXCEPT ![k] = @ - 1],
           NEW t, t = service', t # None, t.op # None, t.op.cb = "none",
           t.proxy_cb = service.proxy_cb
    PROVE  service_sources' \in [Kinds -> Nat] /\ ServiceSourcesKnown'
<1>1. service_sources \in [Kinds -> Nat]
    BY DEF ServiceInv, ServiceTypeOK, Kinds
<1>2. /\ service_sources' \in [Kinds -> Nat]
      /\ service_sources'["proxy"] = service_sources["proxy"]
    BY <1>1 DEF Kinds
<1>3. service.proxy_cb => service_sources["proxy"] > 0
    BY DEF ServiceInv, ServiceSourcesKnown
<1>4. ServiceSourcesKnown'
    BY <1>2, <1>3 DEF ServiceSourcesKnown
<1>5. QED
    BY <1>2, <1>4

\* The callback of the service is run (_trigger_callback).
LEMMA ServiceTriggerCallbackStep ==
    ASSUME CallsInv, ServiceInv, ServiceTriggerCallback
    PROVE  ServiceInv' /\ service.op.call \in ServiceCall
<1>1. /\ service # None /\ service_sources["trigger"] > 0
      /\ service_sources' = [service_sources EXCEPT !["trigger"] = @ - 1]
      /\ service' = [service EXCEPT !.op.cb = "none"]
      /\ OnlineUsers' = OnlineUsers /\ NoListReply
      /\ UNCHANGED <<service_call, app>>
    BY DEF ServiceTriggerCallback, OnlineUsers, Live, NoListReply
<1>2. /\ service \in ServiceFields /\ service.op # None
      /\ service.op \in ServiceOp /\ service.op.call \in ServiceCall
    BY <1>1, SourceHasOp
<1>3. PICK op : op = [service.op EXCEPT !.cb = "none"]
    OBVIOUS
<1>4. op \in ServiceOp /\ op.cb = "none" /\ op.users = service.op.users
    BY <1>2, <1>3 DEF ServiceOp
<1>5. PICK t : t = service'
    OBVIOUS
<1>6. t = [service EXCEPT !.op = op]
    BY <1>1, <1>2, <1>3, <1>5 DEF ServiceFields
<1>7. /\ t \in ServiceFields /\ t.op = op /\ t.refs = service.refs
      /\ t.proxy_cb = service.proxy_cb
    BY <1>2, <1>4, <1>6 DEF ServiceFields
<1>8. t # None /\ op # None
    BY <1>4, <1>7, UserServiceAssumption
<1>9. OpListRefs(t) = OpListRefs(service)
    BY <1>2, <1>4, <1>7, <1>8, SameListRefs
<1>10. Refs' = Refs
    BY <1>1 DEF Refs
<1>11. t.refs >= Refs' + OpListRefs(t) /\ t.refs > 0
    BY <1>1, <1>7, <1>9, <1>10, ReferredToNow DEF ServiceInv
<1>12. service_sources' \in [Kinds -> Nat] /\ ServiceSourcesKnown'
    BY <1>1, <1>4, <1>5, <1>7, <1>8, SourceRuns
<1>13. app' \subseteq {"service", "users"}
    BY <1>1 DEF ServiceInv, ServiceTypeOK
<1>14. QED
    BY <1>1, <1>2, <1>5, <1>7, <1>8, <1>11, <1>12, <1>13, ServiceGoesOn

\* The callback of a list is run, and handed the users
\* (_trigger_user_list_callback).
LEMMA TriggerUserListCallbackStep ==
    ASSUME CallsInv, ServiceInv, TriggerUserListCallback
    PROVE  ServiceInv' /\ service.op.call \in ServiceCall
<1>1. /\ service # None /\ service_sources["list"] > 0 /\ "users" \notin app
      /\ service_sources' = [service_sources EXCEPT !["list"] = @ - 1]
      /\ service' = [service EXCEPT !.op.cb = "none", !.op.users = FALSE]
      /\ OnlineUsers' = OnlineUsers /\ NoListReply
      /\ UNCHANGED service_call
      /\ app' = IF service.op.users THEN app \cup {"users"} ELSE app
    BY DEF TriggerUserListCallback, OnlineUsers, Live, NoListReply
<1>2. /\ service \in ServiceFields /\ service.op # None
      /\ service.op \in ServiceOp /\ service.op.call \in ServiceCall
    BY <1>1, SourceHasOp
<1>3. PICK op : op = [service.op EXCEPT !.cb = "none", !.users = FALSE]
    OBVIOUS
<1>4. op \in ServiceOp /\ op.cb = "none" /\ op.users = FALSE
    BY <1>2, <1>3 DEF ServiceOp
<1>5. PICK t : t = service'
    OBVIOUS
<1>6. t = [service EXCEPT !.op = op]
    BY <1>1, <1>2, <1>3, <1>5 DEF ServiceFields, ServiceOp
<1>7. /\ t \in ServiceFields /\ t.op = op /\ t.refs = service.refs
      /\ t.proxy_cb = service.proxy_cb
    BY <1>2, <1>4, <1>6 DEF ServiceFields
<1>8. t # None /\ op # None /\ OpListRefs(t) = 0
    BY <1>4, <1>7, UserServiceAssumption DEF OpListRefs
<1>9. Refs \in Nat /\ Refs' \in Nat /\ Refs' =< Refs + OpListRefs(service)
  <2>1. Refs \in Nat
      BY RefsIsNat DEF ServiceInv
  <2>2. CASE service.op.users
    <3>1. Refs' = Refs + 1
        BY <1>1, <2>2, OneMoreOfApp DEF ServiceInv
    <3>2. OpListRefs(service) = 1
        BY <1>2, <2>2 DEF OpListRefs
    <3>3. QED
        BY <2>1, <3>1, <3>2
  <2>3. CASE ~service.op.users
    <3>1. Refs' = Refs
        BY <1>1, <2>3 DEF Refs
    <3>2. QED
        BY <2>1, <3>1, ListRefsIsNat
  <2>4. QED
      BY <2>2, <2>3
<1>10. t.refs >= Refs' + OpListRefs(t) /\ t.refs > 0
  <2>1. service.refs >= Refs + OpListRefs(service) /\ service.refs > 0
      BY <1>1, ReferredToNow DEF ServiceInv
  <2>2. service.refs \in Nat /\ OpListRefs(service) \in {0, 1}
      BY <1>2, ServiceRefsIsNat, ListRefsIsNat
  <2>3. QED
      BY <1>7, <1>8, <1>9, <2>1, <2>2
<1>11. service_sources' \in [Kinds -> Nat] /\ ServiceSourcesKnown'
    BY <1>1, <1>4, <1>5, <1>7, <1>8, SourceRuns
<1>12. app' \subseteq {"service", "users"}
    BY <1>1 DEF ServiceInv, ServiceTypeOK
<1>13. QED
    BY <1>1, <1>2, <1>5, <1>7, <1>8, <1>10, <1>11, <1>12, ServiceGoesOn

\* A source that outlived its service runs.
LEMMA FreedSourceRunsStep ==
    ASSUME CallsInv, ServiceInv, FreedSourceRuns
    PROVE  ServiceInv'
<1>1. /\ service_sources["freed"] > 0
      /\ service_sources' = [service_sources EXCEPT !["freed"] = @ - 1]
      /\ UNCHANGED <<callVars, service, service_call, app>>
    BY DEF FreedSourceRuns
<1>2. service_sources \in [Kinds -> Nat]
    BY DEF ServiceInv, ServiceTypeOK, Kinds
<1>3. /\ service_sources' \in [Kinds -> Nat]
      /\ \A k \in {"proxy", "trigger", "list"} : service_sources'[k] = service_sources[k]
    BY <1>1, <1>2 DEF Kinds
<1>4. ServiceTypeOK'
    BY <1>1, <1>3 DEF ServiceInv, ServiceTypeOK, Kinds
<1>5. ServiceSourcesKnown'
    BY <1>1, <1>3 DEF ServiceInv, ServiceSourcesKnown
<1>6. ServiceIsReferredTo' /\ ServiceCallsAnswered'
    BY <1>1 DEF ServiceInv, ServiceIsReferredTo, OnlineUsers, Live, OpListRefs,
                ServiceCallsAnswered, callVars
<1>7. QED
    BY <1>4, <1>5, <1>6 DEF ServiceInv

\* The daemon answers a list call, and its reply is put in the inbox.
LEMMA ServeListStep ==
    ASSUME CallsInv, ServiceInv, NEW c \in ServiceCall, ServeList(c)
    PROVE  ServiceInv'
<1>1. PICK a \in {"ok", "failed"} : service_call' = [service_call EXCEPT ![c] = a]
    BY DEF ServeList
<1>2. /\ service_call[c] = "none" /\ inbox' = Append(inbox, Reply(c))
      /\ UNCHANGED <<object, service, service_sources, app>>
    BY DEF ServeList
<1>3. service_call' \in [ServiceCall -> {"unmade", "create", "none", "ok", "failed",
                                        "cancelled"}]
      /\ service_call'[c] = a
      /\ \A d \in ServiceCall : d # c => service_call'[d] = service_call[d]
    BY <1>1 DEF ServiceInv, ServiceTypeOK
<1>4. ServiceTypeOK'
    BY <1>2, <1>3 DEF ServiceInv, ServiceTypeOK
<1>5. ServiceIsReferredTo'
    BY <1>2 DEF ServiceInv, ServiceIsReferredTo, OnlineUsers, Live, OpListRefs
<1>6. service # None /\ service.op # None
    BY <1>2 DEF ServiceInv, ServiceSourcesKnown
<1>7. ServiceSourcesKnown'
    BY <1>2, <1>6 DEF ServiceInv, ServiceSourcesKnown
<1>8. ServiceCallsAnswered'
  <2>1. inbox \in Seq(Message) /\ c \in AnyCall
      BY DEF CallsInv, CallsTypeOK, AnyCall
  <2>2. \A d : d # c => (Queued(inbox', d) <=> Queued(inbox, d))
      BY <1>2, <2>1, AppendReply
  <2>3. QED
      BY <1>3, <2>2 DEF ServiceInv, ServiceCallsAnswered
<1>9. QED
    BY <1>4, <1>5, <1>7, <1>8 DEF ServiceInv

\* The next message is taken: no reply comes in.
LEMMA TakenMessage ==
    ASSUME CallsInv, inbox # <<>>, inbox' = Tail(inbox)
    PROVE  NoListReply
<1>1. inbox \in Seq(Message)
    BY DEF CallsInv, CallsTypeOK
<1>2. QED
    BY <1>1, TakeMessage DEF NoListReply, Queued

\* The reply to a list call: the users are made, and the callback scheduled.
LEMMA OnGetUserListStep ==
    ASSUME CallsInv, ServiceInv, NEW c \in ServiceCall, inbox # <<>>, inbox' = Tail(inbox),
           Head(inbox) = Reply(c), OnGetUserListCb(c)
    PROVE  ServiceInv'
<1>1. /\ NoListReply /\ OnlineUsers' = OnlineUsers
      /\ UNCHANGED <<service_call, app>>
    BY TakenMessage DEF OnGetUserListCb, OnlineUsers, Live
<1>2. CASE service_call[c] = "cancelled"
    BY <1>1, <1>2, ServiceUntouched DEF OnGetUserListCb, serviceVars
<1>3. CASE service_call[c] # "cancelled"
  <2>1. PICK found \in BOOLEAN :
            LET s == IF found THEN ServiceDbusProxy(Constructor(FALSE), TRUE) ELSE service
                t == SetupServiceIdle(s, service_call[c] = "failed", "list")
            IN /\ service' = [t EXCEPT !.op.users = found]
               /\ service_sources' =
                     [service_sources EXCEPT !["trigger"] = IF found THEN @ + 1 ELSE @,
                                             !["list"] = @ + 1]
      BY <1>3 DEF OnGetUserListCb
  <2>2. service # None /\ service.op # None
    <3>1. inbox \in Seq(Message)
        BY DEF CallsInv, CallsTypeOK
    <3>2. Len(inbox) > 0 /\ inbox[1] = Reply(c)
        BY <3>1
    <3>3. Queued(inbox, c)
        BY <3>1, <3>2 DEF Queued
    <3>4. service_call[c] \in {"ok", "failed"}
        BY <1>3, <3>3 DEF ServiceInv, ServiceCallsAnswered
    <3>5. QED
        BY <3>4 DEF ServiceInv, ServiceSourcesKnown
  <2>3. service \in ServiceFields /\ service.refs \in Nat
      BY <2>2, ServiceRefsIsNat DEF ServiceInv, ServiceTypeOK
  <2>4. PICK s : s = IF found THEN ServiceDbusProxy(Constructor(FALSE), TRUE) ELSE service
      OBVIOUS
  <2>5. /\ s \in ServiceFields /\ s.op # None
        /\ s.refs = IF found THEN service.refs + 1 ELSE service.refs
        /\ s.proxy_cb => service.proxy_cb
    <3>1. CASE found
      <4>1. PICK n : n = Constructor(FALSE)
          OBVIOUS
      <4>2. n \in ServiceFields /\ n.refs = service.refs + 1 /\ n.op # None
          BY <2>2, <4>1, ConstructorFields DEF ServiceInv
      <4>3. s = ServiceDbusProxy(n, TRUE)
          BY <2>4, <3>1, <4>1
      <4>4. s \in ServiceFields /\ s.refs = n.refs /\ ~s.proxy_cb /\ s.op # None
          BY <4>2, <4>3, ServiceDbusProxyFields
      <4>5. QED
          BY <3>1, <4>2, <4>4
    <3>2. CASE ~found
        BY <2>2, <2>3, <2>4, <3>2
    <3>3. QED
        BY <3>1, <3>2
  <2>6. PICK failed \in BOOLEAN : failed = (service_call[c] = "failed")
      OBVIOUS
  <2>7. PICK r : r = SetupServiceIdle(s, failed, "list")
      OBVIOUS
  <2>8. /\ r \in ServiceFields /\ r.refs = s.refs /\ r.proxy_cb = s.proxy_cb
        /\ r.op # None /\ r.op.cb = "list"
      BY <2>5, <2>7, ListFields
  <2>9. r.op \in ServiceOp
      BY <2>8, ServiceOpFields
  <2>10. PICK op : op = [r.op EXCEPT !.users = found]
      OBVIOUS
  <2>11. op \in ServiceOp /\ op.cb = "list" /\ op.users = found
      BY <2>8, <2>9, <2>10 DEF ServiceOp
  <2>12. PICK t : t = service'
      OBVIOUS
  <2>13. t = [r EXCEPT !.op = op]
      BY <2>1, <2>4, <2>6, <2>7, <2>8, <2>10, <2>12 DEF ServiceFields
  <2>14. /\ t \in ServiceFields /\ t.op = op /\ t.refs = s.refs
         /\ t.proxy_cb => service.proxy_cb
      BY <2>5, <2>8, <2>11, <2>13 DEF ServiceFields
  <2>15. t # None /\ op # None
      BY <2>11, <2>14, UserServiceAssumption
  <2>16. service_sources \in [Kinds -> Nat]
      BY DEF ServiceInv, ServiceTypeOK, Kinds
  <2>17. /\ service_sources' \in [Kinds -> Nat]
         /\ service_sources'["list"] > 0
         /\ service_sources'["proxy"] = service_sources["proxy"]
      BY <2>1, <2>16 DEF Kinds
  <2>18. ServiceSourcesKnown'
    <3>1. t.proxy_cb => service_sources["proxy"] > 0
        BY <2>2, <2>14 DEF ServiceInv, ServiceSourcesKnown
    <3>2. QED
        BY <2>11, <2>12, <2>14, <2>15, <2>17, <3>1 DEF ServiceSourcesKnown
  <2>19. t.refs >= Refs' + OpListRefs(t) /\ t.refs > 0
    <3>1. service.refs >= Refs + OpListRefs(service) /\ service.refs > 0
        BY <2>2, ReferredToNow DEF ServiceInv
    <3>2. OpListRefs(service) \in {0, 1} /\ Refs \in Nat
        BY ListRefsIsNat, RefsIsNat DEF ServiceInv
    <3>3. OpListRefs(t) = IF found THEN 1 ELSE 0
        BY <2>11, <2>14, <2>15 DEF OpListRefs
    <3>4. Refs' = Refs
        BY <1>1 DEF Refs
    <3>5. t.refs = IF found THEN service.refs + 1 ELSE service.refs
        BY <2>5, <2>14
    <3>6. QED
        BY <2>3, <3>1, <3>2, <3>3, <3>4, <3>5
  <2>20. app' \subseteq {"service", "users"}
      BY <1>1 DEF ServiceInv, ServiceTypeOK
  <2>21. QED
      BY <1>1, <2>12, <2>14, <2>15, <2>17, <2>18, <2>19, <2>20, ServiceGoesOn
<1>4. QED
    BY <1>2, <1>3

\* The application drops a reference.
LEMMA AppUnrefStep ==
    ASSUME CallsInv, ServiceInv, NEW what \in {"service", "users"}, AppUnref(what)
    PROVE  ServiceInv'
<1>1. /\ what \in app /\ app' = app \ {what}
      /\ ServiceUnref(service)
      /\ OnlineUsers' = OnlineUsers /\ NoListReply
    BY DEF AppUnref, callVars, OnlineUsers, Live, NoListReply
<1>2. Refs = Refs' + 1 /\ Refs' \in Nat
    BY <1>1, OneLessOfApp DEF ServiceInv
<1>3. app' \subseteq {"service", "users"}
    BY <1>1 DEF ServiceInv, ServiceTypeOK
<1>4. QED
    BY <1>1, <1>2, <1>3, ServiceUnrefStep

\* The blocking call that makes the service.
LEMMA CreateServiceSyncStep ==
    ASSUME CallsInv, ServiceInv, NEW offline \in BOOLEAN, gum_user_service_create_sync(offline)
    PROVE  ServiceInv'
<1>1. /\ "service" \notin app /\ app' = app \cup {"service"}
      /\ OnlineUsers' = OnlineUsers /\ NoListReply
    BY DEF gum_user_service_create_sync, callVars, OnlineUsers, Live, NoListReply
<1>2. Refs' = Refs + 1 /\ Refs \in Nat
    BY <1>1, OneMoreOfApp, RefsIsNat DEF ServiceInv
<1>3. app' \subseteq {"service", "users"}
    BY <1>1 DEF ServiceInv, ServiceTypeOK
<1>4. CASE ~offline
  <2>1. PICK up \in BOOLEAN : ServiceUp(up)
      BY <1>4 DEF gum_user_service_create_sync
  <2>2. QED
      BY <1>1, <1>2, <1>3, <2>1, ServiceUpStep
<1>5. CASE offline
  <2>1. PICK t : t = service'
      OBVIOUS
  <2>2. t = Constructor(TRUE) /\ UNCHANGED <<service_sources, service_call>>
      BY <1>5, <2>1 DEF gum_user_service_create_sync
  <2>3. /\ t \in ServiceFields /\ t # None
        /\ service = None => t.refs = 1 /\ t.op = None
        /\ service # None => t.refs = service.refs + 1 /\ t.op = service.op
      BY <2>2, ConstructorFields DEF ServiceInv
  <2>4. /\ service = None => ~t.proxy_cb
        /\ service # None => t.proxy_cb = service.proxy_cb
      BY <2>2, ConstructorFields DEF ServiceInv
  <2>5. service_sources' \in [Kinds -> Nat]
      BY <2>2 DEF ServiceInv, ServiceTypeOK, Kinds
  <2>6. ServiceSourcesKnown'
    <3>1. CASE service = None
        BY <2>1, <2>2, <2>3, <2>4, <3>1 DEF ServiceInv, ServiceSourcesKnown
    <3>2. CASE service # None
        BY <2>1, <2>2, <2>3, <2>4, <3>2 DEF ServiceInv, ServiceSourcesKnown
    <3>3. QED
        BY <3>1, <3>2
  <2>7. t.refs >= Refs' + OpListRefs(t) /\ t.refs > 0
    <3>1. CASE service = None
      <4>1. Refs = 0
          BY <3>1 DEF ServiceInv, ServiceIsReferredTo, Refs
      <4>2. QED
          BY <1>2, <2>3, <3>1, <4>1, ListRefsIsNat
    <3>2. CASE service # None
      <4>1. service.refs >= Refs + OpListRefs(service) /\ service.refs > 0
          BY <3>2, ReferredToNow DEF ServiceInv
      <4>2. service.refs \in Nat
          BY <3>2, ServiceRefsIsNat DEF ServiceInv, ServiceTypeOK
      <4>3. OpListRefs(t) = OpListRefs(service) /\ OpListRefs(t) \in {0, 1}
          BY <2>3, <3>2, SameListRefs, ListRefsIsNat
      <4>4. QED
          BY <1>2, <2>3, <3>2, <4>1, <4>2, <4>3
    <3>3. QED
        BY <3>1, <3>2
  <2>8. QED
      BY <1>1, <1>3, <2>1, <2>2, <2>3, <2>5, <2>6, <2>7, ServiceGoesOn
<1>6. QED
    BY <1>4, <1>5

\* The blocking call for the list of users.
LEMMA GetUserListSyncStep ==
    ASSUME CallsInv, ServiceInv, gum_user_service_get_user_list_sync
    PROVE  ServiceInv'
<1>1. /\ "service" \in app /\ "users" \notin app
      /\ OnlineUsers' = OnlineUsers /\ NoListReply
    BY DEF gum_user_service_get_user_list_sync, callVars, OnlineUsers, Live, NoListReply
<1>2. CASE service.offline
  <2>1. UNCHANGED serviceVars
      BY <1>2 DEF gum_user_service_get_user_list_sync, serviceVars
  <2>2. QED
      BY <1>1, <2>1, ServiceUntouched
<1>3. CASE ~service.offline
  <2>1. ServiceUp(TRUE) /\ app' = app \cup {"users"}
      BY <1>3 DEF gum_user_service_get_user_list_sync
  <2>2. Refs' = Refs + 1
      BY <1>1, <2>1, OneMoreOfApp DEF ServiceInv
  <2>3. app' \subseteq {"service", "users"}
      BY <2>1 DEF ServiceInv, ServiceTypeOK
  <2>4. QED
      BY <1>1, <2>1, <2>2, <2>3, ServiceUpStep
<1>4. QED
    BY <1>2, <1>3

-----------------------------------------------------------------------------
(***************************************************************************)
(* The actions of the client                                               *)
(***************************************************************************)

\* The calls of objects and those of the service have different numbers.
LEMMA OtherCall ==
    ASSUME NEW c \in Call, NEW d \in ServiceCall
    PROVE  d # c /\ c \in AnyCall
  BY CallsAssumption DEF AnyCall

\* Only the reply to a call of an object comes in.
LEMMA ServeBringsNoList ==
    ASSUME CallsInv, NEW c \in Call, Serve(c)
    PROVE  NoListReply /\ OnlineUsers' = OnlineUsers
<1>1. OnlineUsers' = OnlineUsers
    BY DEF Serve, OnlineUsers, Live
<1>2. PICK o, kind : o = call[c].object /\ kind = call[c].kind
    OBVIOUS
<1>3. o \in ClientObject /\ inbox \in Seq(Message)
    BY <1>2 DEF Serve, CallsInv, CallsTypeOK, CallFields
<1>4. CASE inbox' = inbox
    BY <1>1, <1>4 DEF NoListReply
<1>5. CASE inbox' = Append(inbox, Reply(c))
    BY <1>1, <1>3, <1>5, AppendReply, OtherCall DEF NoListReply
<1>6. CASE inbox' = inbox \o ServedMessages(c, o, kind)
    BY <1>1, <1>3, <1>6, AddServed, OtherCall DEF NoListReply
<1>7. CASE inbox' = inbox \o Announce(o, kind)
    BY <1>1, <1>3, <1>7, AddAnnounced DEF NoListReply
<1>8. QED
    BY <1>2, <1>4, <1>5, <1>6, <1>7 DEF Serve

\* Nor does a timeout bring one.
LEMMA TimesOutBringsNoList ==
    ASSUME CallsInv, NEW c \in Call, TimesOut(c)
    PROVE  NoListReply /\ OnlineUsers' = OnlineUsers
<1>1. inbox \in Seq(Message) /\ inbox' = Append(inbox, Reply(c))
    BY DEF TimesOut, CallsInv, CallsTypeOK
<1>2. NoListReply
    BY <1>1, AppendReply, OtherCall DEF NoListReply
<1>3. QED
    BY <1>2 DEF TimesOut, OnlineUsers, Live

\* Nor does a D-Bus object that goes.
LEMMA AdapterGoesBringsNoList ==
    ASSUME CallsInv, NEW o \in ClientObject, AdapterGoes(o)
    PROVE  NoListReply /\ OnlineUsers' = OnlineUsers
<1>1. PICK m : m = Unregistered(o)
    OBVIOUS
<1>2. m \in Message /\ m.type # "reply"
    BY <1>1 DEF Unregistered, Message
<1>3. inbox \in Seq(Message) /\ inbox' = inbox \o Signal(o, m)
    BY <1>1 DEF AdapterGoes, CallsInv, CallsTypeOK
<1>4. NoListReply
    BY <1>2, <1>3, AddSignal DEF NoListReply
<1>5. QED
    BY <1>4 DEF AdapterGoes, OnlineUsers, Live

\* Nor does a blocking request.
LEMMA SyncRequestBringsNoList ==
    ASSUME CallsInv, NEW o \in ClientObject, NEW kind, NEW syncs, SyncRequest(o, kind, syncs)
    PROVE  NoListReply
<1>1. inbox \in Seq(Message)
    BY DEF CallsInv, CallsTypeOK
<1>2. CASE inbox' = inbox
    BY <1>2 DEF NoListReply
<1>3. CASE inbox' = inbox \o Announce(o, kind)
    BY <1>1, <1>3, AddAnnounced DEF NoListReply
<1>4. QED
    BY <1>2, <1>3 DEF SyncRequest

\* No user object changes.
LEMMA SameOnlineUsers ==
    ASSUME \A x \in UserObject : object'[x] = object[x]
    PROVE  OnlineUsers' = OnlineUsers
  BY DEF OnlineUsers, Live

\* gum_user_create, gum_user_get and gum_user_get_by_name
LEMMA UserMakesStep ==
    ASSUME CallsInv, ServiceInv, NEW u \in UserObject, NEW c \in Call, NEW kind \in Makers,
           UserMakes(u, c, kind)
    PROVE  CallsInv' /\ ServiceInv' /\ StatusMoves
<1>1. PICK up \in BOOLEAN : ServiceUp(up) /\ Made(u, c, kind, ServiceReached(up))
    BY DEF UserMakes
<1>2. u \in ClientObject
    BY DEF ClientObject
<1>3. ServiceReached(up) \in BOOLEAN
    BY DEF ServiceReached
<1>4. CallsInv' /\ StatusMoves
    BY <1>1, <1>2, <1>3, MadeStep
<1>5. PICK n : n = NewObject(FALSE, TRUE, NewOp(c))
    OBVIOUS
<1>6. NewOp(c) \in Op
    BY NewOpFields
<1>7. n # None /\ n.service
    BY <1>5, <1>6, NewObjectFields
<1>8. /\ object' = [object EXCEPT ![u] = n] /\ u \notin made
      /\ UNCHANGED <<inbox, app>>
    BY <1>1, <1>5 DEF UserMakes, Made, Unmade
<1>9. /\ object'[u] = n
      /\ \A x \in UserObject : x # u => object'[x] = object[x]
    BY <1>2, <1>8 DEF CallsInv, CallsTypeOK, ClientObject
<1>10. ~Live(u)
    BY <1>2, <1>8 DEF CallsInv, OperationsAreOfCalls
<1>11. Refs' = Refs + 1
    BY <1>7, <1>8, <1>9, <1>10, OneMoreUser DEF ServiceInv, Live
<1>12. NoListReply /\ app' \subseteq {"service", "users"}
    BY <1>8 DEF NoListReply, ServiceInv, ServiceTypeOK
<1>13. ServiceInv'
    BY <1>1, <1>11, <1>12, ServiceUpStep
<1>14. QED
    BY <1>4, <1>13

\* gum_user_create_sync and the others
LEMMA UserMadeSyncStep ==
    ASSUME CallsInv, ServiceInv, NEW u \in UserObject, NEW kind \in Makers,
           NEW offline \in BOOLEAN, UserMadeSync(u, kind, offline)
    PROVE  CallsInv' /\ ServiceInv' /\ StatusMoves
<1>1. u \in ClientObject
    BY DEF ClientObject
<1>2. /\ CallsTypeOK
      /\ u \notin made => ~Live(u)
    BY <1>1 DEF CallsInv, OperationsAreOfCalls
<1>3. ASSUME NEW off \in BOOLEAN, NEW has \in BOOLEAN, NEW reached \in BOOLEAN,
             SyncMade(u, kind, off, has, reached)
      PROVE  /\ CallsInv' /\ StatusMoves
             /\ Live(u)' => object'[u].service = has
             /\ ~Live(u)
             /\ \A x \in UserObject : x # u => object'[x] = object[x]
             /\ NoListReply
  <2>1. /\ CallsInv' /\ StatusMoves
        /\ Live(u)' => object'[u].service = has
      BY <1>1, <1>3, SyncMadeStep
  <2>2. ~Live(u) /\ inbox' = inbox
      BY <1>2, <1>3 DEF SyncMade, Unmade
  <2>3. \A x \in UserObject : x # u => object'[x] = object[x]
      BY <1>2, <1>3 DEF SyncMade, CallsTypeOK, ClientObject
  <2>4. QED
      BY <2>1, <2>2, <2>3 DEF NoListReply
<1>4. CASE offline
  <2>1. SyncMade(u, kind, TRUE, FALSE, FALSE) /\ UNCHANGED serviceVars
      BY <1>4 DEF UserMadeSync
  <2>2. /\ CallsInv' /\ StatusMoves /\ NoListReply
        /\ Live(u)' => object'[u].service = FALSE
        /\ ~Live(u)
        /\ \A x \in UserObject : x # u => object'[x] = object[x]
      BY <1>3, <2>1
  <2>3. OnlineUsers' = OnlineUsers
      BY <2>2 DEF OnlineUsers, Live
  <2>4. QED
      BY <2>1, <2>2, <2>3, ServiceUntouched
<1>5. CASE ~offline
  <2>1. PICK up \in BOOLEAN :
            /\ SyncMade(u, kind, FALSE, TRUE, ServiceReached(up))
            /\ IF object'[u] = None THEN ServiceUpAndDown(up) /\ UNCHANGED service_call
               ELSE ServiceUp(up)
            /\ UNCHANGED app
      BY <1>5 DEF UserMadeSync
  <2>2. ServiceReached(up) \in BOOLEAN
      BY DEF ServiceReached
  <2>3. /\ CallsInv' /\ StatusMoves /\ NoListReply
        /\ Live(u)' => object'[u].service = TRUE
        /\ ~Live(u)
        /\ \A x \in UserObject : x # u => object'[x] = object[x]
      BY <1>3, <2>1, <2>2
  <2>4. CASE object'[u] = None
    <3>1. OnlineUsers' = OnlineUsers
        BY <2>3, <2>4 DEF OnlineUsers, Live
    <3>2. QED
        BY <2>1, <2>3, <2>4, <3>1, ServiceUpAndDownStep
  <2>5. CASE object'[u] # None
    <3>1. Live(u)' /\ object'[u].service
        BY <2>3, <2>5 DEF Live
    <3>2. Refs' = Refs + 1
        BY <2>1, <2>3, <3>1, OneMoreUser DEF ServiceInv
    <3>3. app' \subseteq {"service", "users"}
        BY <2>1 DEF ServiceInv, ServiceTypeOK
    <3>4. QED
        BY <2>1, <2>3, <2>5, <3>2, <3>3, ServiceUpStep
  <2>6. QED
      BY <2>4, <2>5
<1>6. QED
    BY <1>4, <1>5

\* gum_user_add and the others
LEMMA UserRequestedStep ==
    ASSUME CallsInv, ServiceInv, NEW u \in UserObject, NEW c \in Call, NEW kind \in Requests,
           UserRequested(u, c, kind)
    PROVE  CallsInv' /\ ServiceInv' /\ StatusMoves
<1>1. u \in ClientObject
    BY DEF ClientObject
<1>2. Requested(u, c, kind) /\ RemoveSource(u) /\ UNCHANGED serviceVars
    BY DEF UserRequested
<1>3. CallsInv' /\ StatusMoves
    BY <1>1, <1>2, RequestedStep
<1>4. inbox' = inbox /\ object' = [object EXCEPT ![u].op = NewOp(c)] /\ Live(u)
    BY <1>2 DEF Requested
<1>5. /\ Live(u)' /\ object'[u].service = object[u].service
      /\ \A x \in UserObject : x # u => object'[x] = object[x]
  <2>1. object[u] \in ObjectFields /\ object \in [ClientObject -> ObjectFields \cup {None}]
      BY <1>1, <1>4, LiveObject DEF CallsInv, CallsTypeOK
  <2>2. PICK new : new = [object[u] EXCEPT !.op = NewOp(c)]
      OBVIOUS
  <2>3. new \in ObjectFields /\ new.service = object[u].service
      BY <2>1, <2>2, NewOpFields DEF ObjectFields
  <2>4. new # None
      BY <2>3, CallsAssumption
  <2>5. object' = [object EXCEPT ![u] = new]
      BY <1>4, <2>2
  <2>6. QED
      BY <1>1, <2>1, <2>3, <2>4, <2>5 DEF Live, ClientObject
<1>6. OnlineUsers' = OnlineUsers
    BY <1>4, <1>5 DEF OnlineUsers, Live
<1>7. NoListReply
    BY <1>4 DEF NoListReply
<1>8. QED
    BY <1>2, <1>3, <1>6, <1>7, ServiceUntouched

\* gum_user_add_sync and the others
LEMMA UserSyncRequestStep ==
    ASSUME CallsInv, ServiceInv, NEW u \in UserObject, NEW kind \in Requests,
           NEW syncs \in BOOLEAN, SyncRequest(u, kind, syncs), UNCHANGED serviceVars
    PROVE  CallsInv' /\ ServiceInv' /\ StatusMoves
<1>1. u \in ClientObject /\ \A x \in UserObject : x \in ClientObject
    BY DEF ClientObject
<1>2. /\ CallsInv' /\ StatusMoves
      /\ \A x \in ClientObject :
            (Live(x)' <=> Live(x)) /\ (Live(x) => object'[x].service = object[x].service)
    BY <1>1, SyncRequestStep
<1>3. OnlineUsers' = OnlineUsers
    BY <1>1, <1>2, SameUsers
<1>4. NoListReply
    BY <1>1, SyncRequestBringsNoList
<1>5. QED
    BY <1>2, <1>3, <1>4, ServiceUntouched

\* The application drops a user object (_dispose).
LEMMA UserDisposeStep ==
    ASSUME CallsInv, ServiceInv, NEW u \in UserObject, UserDispose(u)
    PROVE  CallsInv' /\ ServiceInv' /\ StatusMoves
<1>1. u \in ClientObject
    BY DEF ClientObject
<1>2. /\ Live(u) /\ object' = [object EXCEPT ![u] = None]
      /\ RemoveSource(u) /\ Cancel(u)
      /\ UNCHANGED <<made, remote, inbox, told, app>>
    BY DEF UserDispose
<1>3. CallsInv' /\ StatusMoves
    BY <1>1, <1>2, DisposeStep
<1>4. /\ object'[u] = None
      /\ \A x \in UserObject : x # u => object'[x] = object[x]
    BY <1>1, <1>2 DEF CallsInv, CallsTypeOK, ClientObject
<1>5. NoListReply /\ app' \subseteq {"service", "users"}
    BY <1>2 DEF NoListReply, ServiceInv, ServiceTypeOK
<1>6. CASE object[u].service
  <2>1. Refs = Refs' + 1 /\ Refs' \in Nat
      BY <1>2, <1>4, <1>6, OneUserLess DEF ServiceInv
  <2>2. ServiceUnref(service)
      BY <1>6 DEF UserDispose
  <2>3. QED
      BY <1>3, <1>5, <2>1, <2>2, ServiceUnrefStep
<1>7. CASE ~object[u].service
  <2>1. OnlineUsers' = OnlineUsers
      BY <1>4, <1>7 DEF OnlineUsers, Live
  <2>2. UNCHANGED serviceVars
      BY <1>2, <1>7 DEF UserDispose, serviceVars
  <2>3. QED
      BY <1>3, <1>5, <2>1, <2>2, ServiceUntouched
<1>8. QED
    BY <1>6, <1>7

\* Every call of a user object.
LEMMA UserCallsStep ==
    ASSUME CallsInv, ServiceInv, NEW u \in UserObject, UserCalls(u)
    PROVE  CallsInv' /\ ServiceInv' /\ StatusMoves
<1>1. NextOf(Call) \subseteq Call
    BY DEF NextOf
<1>2. CASE \E c \in NextOf(Call) : \E kind \in Makers : UserMakes(u, c, kind)
    BY <1>1, <1>2, UserMakesStep
<1>3. CASE \E c \in NextOf(Call) : \E kind \in Requests : UserRequested(u, c, kind)
    BY <1>1, <1>3, UserRequestedStep
<1>4. CASE \E offline \in BOOLEAN : \E kind \in Makers : UserMadeSync(u, kind, offline)
    BY <1>4, UserMadeSyncStep
<1>5. CASE \E kind \in Requests : \E syncs \in BOOLEAN :
              SyncRequest(u, kind, syncs) /\ UNCHANGED serviceVars
    BY <1>5, UserSyncRequestStep
<1>6. CASE UserDispose(u)
    BY <1>6, UserDisposeStep
<1>7. {"create", "get"} = Makers /\ {"add", "delete", "update"} = Requests
    BY DEF Makers, Requests
<1>8. QED
    BY <1>2, <1>3, <1>4, <1>5, <1>6, <1>7
    DEF UserCalls, gum_user_create, gum_user_get, gum_user_get_by_name,
        gum_user_add, gum_user_delete, gum_user_update,
        gum_user_create_sync, gum_user_get_sync, gum_user_get_by_name_sync,
        gum_user_add_sync, gum_user_delete_sync, gum_user_update_sync

\* The user service does not see a group.
LEMMA GroupUntouched ==
    ASSUME CallsInv, ServiceInv, CallsInv', StatusMoves, UNCHANGED serviceVars, NoListReply,
           NEW g \in GroupObject, \A x \in ClientObject : x # g => object'[x] = object[x]
    PROVE  CallsInv' /\ ServiceInv' /\ StatusMoves
<1>1. \A x \in UserObject : x \in ClientObject /\ x # g
    BY CallsAssumption DEF ClientObject
<1>2. OnlineUsers' = OnlineUsers
    BY <1>1, SameOnlineUsers
<1>3. QED
    BY <1>2, ServiceUntouched

\* gum_group_create, gum_group_get and gum_group_get_by_name
LEMMA GroupMakesStep ==
    ASSUME CallsInv, ServiceInv, NEW g \in GroupObject, NEW c \in Call, NEW kind \in Makers,
           GroupMakes(g, c, kind), UNCHANGED serviceVars
    PROVE  CallsInv' /\ ServiceInv' /\ StatusMoves
<1>1. g \in ClientObject
    BY DEF ClientObject
<1>2. Made(g, c, kind, TRUE) \/ GroupUnmade(g)
    BY DEF GroupMakes
<1>3. CallsInv' /\ StatusMoves
    BY <1>1, <1>2, MadeStep, GroupUnmadeStep
<1>4. /\ NoListReply
      /\ \A x \in ClientObject : x # g => object'[x] = object[x]
    BY <1>2 DEF Made, GroupUnmade, NoListReply, CallsInv, CallsTypeOK
<1>5. QED
    BY <1>3, <1>4, GroupUntouched

\* gum_group_create_sync, gum_group_get_sync and gum_group_get_by_name_sync
LEMMA GroupSyncMadeStep ==
    ASSUME CallsInv, ServiceInv, NEW g \in GroupObject, NEW kind \in Makers,
           NEW offline \in BOOLEAN, NEW has \in BOOLEAN, NEW reached \in BOOLEAN,
           SyncMade(g, kind, offline, has, reached) \/ GroupUnmade(g), UNCHANGED serviceVars
    PROVE  CallsInv' /\ ServiceInv' /\ StatusMoves
<1>1. g \in ClientObject
    BY DEF ClientObject
<1>2. CallsInv' /\ StatusMoves
    BY <1>1, SyncMadeStep, GroupUnmadeStep
<1>3. /\ NoListReply
      /\ \A x \in ClientObject : x # g => object'[x] = object[x]
    BY DEF SyncMade, GroupUnmade, NoListReply, CallsInv, CallsTypeOK
<1>4. QED
    BY <1>2, <1>3, GroupUntouched

\* gum_group_add and the others
LEMMA GroupRequestedStep ==
    ASSUME CallsInv, ServiceInv, NEW g \in GroupObject, NEW c \in Call, NEW kind \in Requests,
           GroupRequested(g, c, kind), UNCHANGED serviceVars
    PROVE  CallsInv' /\ ServiceInv' /\ StatusMoves
<1>1. g \in ClientObject
    BY DEF ClientObject
<1>2. Requested(g, c, kind) /\ UNCHANGED sources
    BY DEF GroupRequested
<1>3. CallsInv' /\ StatusMoves
    BY <1>1, <1>2, RequestedStep
<1>4. /\ NoListReply
      /\ \A x \in ClientObject : x # g => object'[x] = object[x]
    BY <1>2 DEF Requested, NoListReply, CallsInv, CallsTypeOK
<1>5. QED
    BY <1>3, <1>4, GroupUntouched

\* gum_group_add_sync and the others
LEMMA GroupSyncRequestStep ==
    ASSUME CallsInv, ServiceInv, NEW g \in GroupObject, NEW kind \in Requests,
           NEW syncs \in BOOLEAN, SyncRequest(g, kind, syncs), UNCHANGED serviceVars
    PROVE  CallsInv' /\ ServiceInv' /\ StatusMoves
<1>1. g \in ClientObject
    BY DEF ClientObject
<1>2. CallsInv' /\ StatusMoves
    BY <1>1, SyncRequestStep
<1>3. NoListReply
    BY <1>1, SyncRequestBringsNoList
<1>4. \A x \in ClientObject : x # g => object'[x] = object[x]
    BY DEF SyncRequest, CallsInv, CallsTypeOK
<1>5. QED
    BY <1>2, <1>3, <1>4, GroupUntouched

\* The application drops a group object (_dispose).
LEMMA GroupDisposeStep ==
    ASSUME CallsInv, ServiceInv, NEW g \in GroupObject, GroupDispose(g), UNCHANGED serviceVars
    PROVE  CallsInv' /\ ServiceInv' /\ StatusMoves
<1>1. g \in ClientObject
    BY DEF ClientObject
<1>2. /\ Live(g) /\ object' = [object EXCEPT ![g] = None]
      /\ RemoveSource(g) /\ Cancel(g)
      /\ UNCHANGED <<made, remote, inbox, told>>
    BY DEF GroupDispose
<1>3. CallsInv' /\ StatusMoves
    BY <1>1, <1>2, DisposeStep
<1>4. /\ NoListReply
      /\ \A x \in ClientObject : x # g => object'[x] = object[x]
    BY <1>2 DEF NoListReply, CallsInv, CallsTypeOK
<1>5. QED
    BY <1>3, <1>4, GroupUntouched

\* Every call of a group object.
LEMMA GroupCallsStep ==
    ASSUME CallsInv, ServiceInv, NEW g \in GroupObject, GroupCalls(g)
    PROVE  CallsInv' /\ ServiceInv' /\ StatusMoves
<1>1. NextOf(Call) \subseteq Call
    BY DEF NextOf
<1>2. UNCHANGED serviceVars
    BY DEF GroupCalls
<1>3. CASE \E c \in NextOf(Call) : \E kind \in Makers : GroupMakes(g, c, kind)
    BY <1>1, <1>2, <1>3, GroupMakesStep
<1>4. CASE \E c \in NextOf(Call) : \E kind \in Requests : GroupRequested(g, c, kind)
    BY <1>1, <1>2, <1>4, GroupRequestedStep
<1>5. CASE \E offline \in BOOLEAN :
              \/ gum_group_create_sync(g, offline)
              \/ gum_group_get_sync(g, offline)
              \/ gum_group_get_by_name_sync(g, offline)
  <2>1. PICK offline \in BOOLEAN : \/ gum_group_create_sync(g, offline)
                                  \/ gum_group_get_sync(g, offline)
                                  \/ gum_group_get_by_name_sync(g, offline)
      BY <1>5
  <2>2. CASE gum_group_create_sync(g, offline)
    <3>1. SyncMade(g, "create", offline, ~offline, ~offline) \/ GroupUnmade(g)
        BY <2>2 DEF gum_group_create_sync
    <3>2. "create" \in Makers /\ (~offline) \in BOOLEAN
        BY DEF Makers
    <3>3. QED
        BY <1>2, <3>1, <3>2, GroupSyncMadeStep
  <2>3. CASE GroupMadeSync(g, "get", offline)
    <3>1. PICK up \in BOOLEAN :
              LET reached == ~offline /\ GroupServiceReached(g, up)
              IN SyncMade(g, "get", offline, reached, reached)
        BY <2>3 DEF GroupMadeSync
    <3>2. PICK reached \in BOOLEAN : reached = (~offline /\ GroupServiceReached(g, up))
        OBVIOUS
    <3>3. SyncMade(g, "get", offline, reached, reached)
        BY <3>1, <3>2
    <3>4. "get" \in Makers
        BY DEF Makers
    <3>5. QED
        BY <1>2, <3>3, <3>4, GroupSyncMadeStep
  <2>4. QED
      BY <2>1, <2>2, <2>3 DEF gum_group_get_sync, gum_group_get_by_name_sync
<1>6. CASE \E kind \in Requests : \E syncs \in BOOLEAN : SyncRequest(g, kind, syncs)
    BY <1>2, <1>6, GroupSyncRequestStep
<1>7. CASE GroupDispose(g)
    BY <1>2, <1>7, GroupDisposeStep
<1>8. {"create", "get"} = Makers /\ {"add", "delete", "update"} = Requests
    BY DEF Makers, Requests
<1>9. QED
    BY <1>3, <1>4, <1>5, <1>6, <1>7, <1>8
    DEF GroupCalls, gum_group_create, gum_group_get, gum_group_get_by_name,
        gum_group_add, gum_group_delete, gum_group_update, gum_group_add_member,
        gum_group_delete_member, gum_group_add_sync, gum_group_delete_sync,
        gum_group_update_sync, gum_group_add_member_sync, gum_group_delete_member_sync

\* What the application does with the service.
LEMMA ServiceCallsStep ==
    ASSUME CallsInv, ServiceInv, ServiceCalls
    PROVE  CallsInv' /\ ServiceInv' /\ StatusMoves
<1>1. NextOf(ServiceCall) \subseteq ServiceCall
    BY DEF NextOf
<1>2. UNCHANGED callVars
    BY DEF ServiceCalls, gum_user_service_create, gum_user_service_get_user_list,
           gum_user_service_create_sync, gum_user_service_get_user_list_sync, AppUnref
<1>3. CallsInv' /\ StatusMoves
  <2>1. /\ UNCHANGED <<object, made, sources, remote, call>>
        /\ told' = told /\ inbox' = inbox
      BY <1>2 DEF callVars
  <2>2. QED
      BY <2>1, ServiceCallStep
<1>4. ServiceInv'
    BY <1>1, CreateServiceStep, GetUserListStep, CreateServiceSyncStep, GetUserListSyncStep,
       AppUnrefStep DEF ServiceCalls
<1>5. QED
    BY <1>3, <1>4

\* The main loop takes a message.
LEMMA DeliverStep ==
    ASSUME CallsInv, ServiceInv, Deliver
    PROVE  CallsInv' /\ ServiceInv' /\ StatusMoves
<1>1. PICK m : m = Head(inbox)
    OBVIOUS
<1>2. inbox # <<>> /\ inbox' = Tail(inbox) /\ inbox \in Seq(Message)
    BY DEF Deliver, CallsInv, CallsTypeOK
<1>3. m \in Message
    BY <1>1, <1>2, TakeMessage
<1>4. NoListReply
    BY <1>2, TakenMessage
<1>5. KeepsServices => OnlineUsers' = OnlineUsers
    BY SameUsers DEF KeepsServices, ClientObject
<1>6. CASE m.type # "reply" /\ DeliverSignal(m) /\ UNCHANGED serviceVars
  <2>1. CallsInv' /\ StatusMoves /\ KeepsServices
      BY <1>1, <1>2, <1>6, DeliverSignalStep
  <2>2. QED
      BY <1>4, <1>5, <1>6, <2>1, ServiceUntouched
<1>7. CASE m.type = "reply" /\ m.call \in ServiceCall /\ OnGetUserListCb(m.call)
  <2>1. Head(inbox) = Reply(m.call)
      BY <1>1, <1>3, <1>7, ReplyMessage
  <2>2. UNCHANGED <<object, made, sources, remote, call, told>>
      BY <1>7 DEF OnGetUserListCb
  <2>3. CallsInv' /\ StatusMoves
      BY <1>2, <1>7, <2>1, <2>2, ServiceCallStep
  <2>4. ServiceInv'
      BY <1>2, <1>7, <2>1, OnGetUserListStep
  <2>5. QED
      BY <2>3, <2>4
<1>8. CASE /\ m.type = "reply" /\ m.call \in Call
           /\ OnMade(call[m.call].object, m.call) \/ OnRequested(call[m.call].object, m.call)
           /\ UNCHANGED serviceVars
  <2>1. Head(inbox) = Reply(m.call)
      BY <1>1, <1>3, <1>8, ReplyMessage
  <2>2. CallsInv' /\ StatusMoves /\ KeepsServices
      BY <1>2, <1>8, <2>1, OnMadeStep, OnRequestedStep
  <2>3. QED
      BY <1>4, <1>5, <1>8, <2>2, ServiceUntouched
<1>9. QED
    BY <1>1, <1>6, <1>7, <1>8
    DEF Deliver, OnMakeUserCb, OnUserRequestCb, OnMakeGroupCb, OnGroupRequestCb

\* The idle source of an object runs its callback.
LEMMA ObjectCallbackStep ==
    ASSUME CallsInv, ServiceInv, NEW o \in ClientObject, ObjectCallback(o)
    PROVE  CallsInv' /\ ServiceInv' /\ StatusMoves
<1>1. /\ Live(o) /\ sources[o] > 0
      /\ sources' = [sources EXCEPT ![o] = @ - 1]
      /\ Tell(object[o].op.call, object[o].op.error)
      /\ object' = [object EXCEPT ![o].op.cb_id = FALSE]
      /\ UNCHANGED <<made, remote, call, inbox>>
      /\ UNCHANGED serviceVars
    BY DEF ObjectCallback, UserTriggerCallback, GroupTriggerCallback
<1>2. CallsInv' /\ StatusMoves
    BY <1>1, TriggerStep
<1>3. OnlineUsers' = OnlineUsers
  <2>1. /\ object[o] \in ObjectFields /\ object[o].op \in Op
        /\ object \in [ClientObject -> ObjectFields \cup {None}]
    <3>1. object[o].op # None
        BY <1>1 DEF CallsInv, SourcesAreKnown
    <3>2. QED
        BY <1>1, <3>1, LiveObject DEF CallsInv, CallsTypeOK
  <2>2. PICK op : op = [object[o].op EXCEPT !.cb_id = FALSE]
      OBVIOUS
  <2>3. op \in Op
      BY <2>1, <2>2 DEF Op
  <2>4. PICK new : new = [object[o] EXCEPT !.op = op]
      OBVIOUS
  <2>5. new \in ObjectFields /\ new.service = object[o].service
      BY <2>1, <2>3, <2>4 DEF ObjectFields
  <2>6. object' = [object EXCEPT ![o] = new]
      BY <1>1, <2>2, <2>4
  <2>7. new # None
      BY <2>5, CallsAssumption
  <2>8. \A x \in UserObject : (Live(x)' <=> Live(x)) /\
                              (Live(x) => object'[x].service = object[x].service)
      BY <1>1, <2>1, <2>5, <2>6, <2>7 DEF Live, ClientObject
  <2>9. QED
      BY <2>8, SameUsers
<1>4. NoListReply
    BY <1>1 DEF NoListReply
<1>5. QED
    BY <1>1, <1>2, <1>3, <1>4, ServiceUntouched

\* The idle sources of the service.
LEMMA ServiceCallbacksStep ==
    ASSUME CallsInv, ServiceInv, ServiceCallbacks
    PROVE  CallsInv' /\ ServiceInv' /\ StatusMoves
<1>1. ServiceInv'
    BY ServiceDbusProxyCallbackStep, ServiceTriggerCallbackStep, TriggerUserListCallbackStep,
       FreedSourceRunsStep DEF ServiceCallbacks
<1>2. CASE ServiceDbusProxyCallback \/ FreedSourceRuns
  <2>1. UNCHANGED <<object, made, sources, remote, call, told, inbox>>
      BY <1>2 DEF ServiceDbusProxyCallback, FreedSourceRuns, callVars
  <2>2. QED
      BY <1>1, <2>1, ServiceCallStep
<1>3. CASE ServiceTriggerCallback \/ TriggerUserListCallback
  <2>1. /\ UNCHANGED <<object, made, sources, remote, call, inbox>>
        /\ Tell(service.op.call, service.op.error)
      BY <1>3 DEF ServiceTriggerCallback, TriggerUserListCallback
  <2>2. service.op.call \in ServiceCall
      BY <1>3, ServiceTriggerCallbackStep, TriggerUserListCallbackStep
  <2>3. QED
      BY <1>1, <2>1, <2>2, ServiceCallStep
<1>4. QED
    BY <1>2, <1>3 DEF ServiceCallbacks

-----------------------------------------------------------------------------
(***************************************************************************)
(* The id of an object that was added                                      *)
(***************************************************************************)

\* The change of an id is in the inbox, and the reply to the add behind it.
Announced(q, o, c) ==
    \E i, j \in 1 .. Len(q) : i < j /\ q[i] = Changed(o) /\ q[j] = Reply(c)

\* An add that was answered, of an operation that its object still has, made the
\* id known, or will before its reply is delivered.
AddIsAnnounced(c) ==
    LET o == call[c].object IN
    call[c] # None /\ call[c].kind = "add" /\ call[c].answer = "ok" /\ AtWork(c)
        /\ object[o].proxy => object[o].id \/ Announced(inbox, o, c)

AddInv == \A c \in Call : AddIsAnnounced(c)

\* A call with its object stays as it is, as far as AddIsAnnounced goes.
KeepsAdd(c) ==
    LET o == call[c].object IN
    /\ call'[c] = call[c]
    /\ AtWork(c)' /\ object'[o].proxy =>
          AtWork(c) /\ object[o].proxy /\ (object[o].id => object'[o].id)
    /\ Announced(inbox, o, c) => Announced(inbox', o, c) \/ object'[o].id

\* Such a call remains announced.
LEMMA StaysAnnounced ==
    ASSUME NEW c \in Call, AddIsAnnounced(c), KeepsAdd(c)
    PROVE  AddIsAnnounced(c)'
<1>1. CASE call[c] = None
    BY <1>1 DEF AddIsAnnounced, KeepsAdd
<1>2. CASE call[c] # None
  <2>1. PICK o : o = call[c].object
      OBVIOUS
  <2>2. /\ call'[c] = call[c]
        /\ AtWork(c)' /\ object'[o].proxy =>
              AtWork(c) /\ object[o].proxy /\ (object[o].id => object'[o].id)
        /\ Announced(inbox, o, c) => Announced(inbox', o, c) \/ object'[o].id
      BY <2>1 DEF KeepsAdd
  <2>3. call'[c].object = o
      BY <2>1, <2>2
  <2>4. SUFFICES ASSUME call[c].kind = "add", call[c].answer = "ok", AtWork(c)',
                        object'[o].proxy
                 PROVE  object'[o].id \/ Announced(inbox', o, c)
      BY <2>2, <2>3 DEF AddIsAnnounced
  <2>5. AtWork(c) /\ object[o].proxy /\ (object[o].id => object'[o].id)
      BY <2>2, <2>4
  <2>6. object[o].id \/ Announced(inbox, o, c)
      BY <1>2, <2>1, <2>4, <2>5 DEF AddIsAnnounced
  <2>7. QED
      BY <2>2, <2>5, <2>6
<1>3. QED
    BY <1>1, <1>2

\* Messages behind the others change nothing.
LEMMA GrownAnnounced ==
    ASSUME NEW q \in Seq(Message), NEW r \in Seq(Message), NEW o, NEW c, Announced(q, o, c)
    PROVE  Announced(q \o r, o, c)
<1>1. PICK i, j \in 1 .. Len(q) : i < j /\ q[i] = Changed(o) /\ q[j] = Reply(c)
    BY DEF Announced
<1>2. PICK s : s = q \o r
    OBVIOUS
<1>3. /\ i \in 1 .. Len(s) /\ j \in 1 .. Len(s)
      /\ s[i] = q[i] /\ s[j] = q[j]
    BY <1>2
<1>4. QED
    BY <1>1, <1>2, <1>3 DEF Announced

\* The first message goes, which is not the change.
LEMMA TakenAnnounced ==
    ASSUME NEW q \in Seq(Message), q # <<>>, NEW o, NEW c, Announced(q, o, c),
           Head(q) # Changed(o)
    PROVE  Announced(Tail(q), o, c)
<1>1. PICK i, j \in 1 .. Len(q) : i < j /\ q[i] = Changed(o) /\ q[j] = Reply(c)
    BY DEF Announced
<1>2. PICK r : r = Tail(q)
    OBVIOUS
<1>3. i # 1
    BY <1>1
<1>4. /\ i - 1 \in 1 .. Len(r) /\ j - 1 \in 1 .. Len(r) /\ i - 1 < j - 1
      /\ r[i - 1] = q[i] /\ r[j - 1] = q[j]
    BY <1>1, <1>2, <1>3
<1>5. QED
    BY <1>1, <1>2, <1>4 DEF Announced

\* The daemon sends the change, and then the reply (_handle_add_user).
LEMMA ServedAnnounced ==
    ASSUME NEW q \in Seq(Message), NEW o \in ClientObject, NEW c \in Call,
           Live(o), object[o].proxy
    PROVE  Announced(q \o ServedMessages(c, o, "add"), o, c)
<1>1. PICK m, n : m = Changed(o) /\ n = Reply(c)
    OBVIOUS
<1>2. m \in Message /\ n \in Message
    BY <1>1, ReplyIsMessage DEF Changed, Message, AnyCall
<1>3. ServedMessages(c, o, "add") = <<m>> \o <<n>>
    BY <1>1 DEF ServedMessages, Announce, Signal
<1>4. PICK s : s = q \o (<<m>> \o <<n>>)
    OBVIOUS
<1>5. Len(s) = Len(q) + 2 /\ s[Len(q) + 1] = m /\ s[Len(q) + 2] = n /\ Len(q) \in Nat
    BY <1>2, <1>4
<1>6. Announced(s, o, c)
    BY <1>1, <1>5 DEF Announced
<1>7. QED
    BY <1>3, <1>4, <1>6

\* What the daemon sends are messages.
LEMMA AnnounceMessages ==
    ASSUME NEW o \in ClientObject, NEW kind
    PROVE  Announce(o, kind) \in Seq(Message)
<1>1. PICK m : m = Changed(o)
    OBVIOUS
<1>2. m \in Message
    BY <1>1 DEF Changed, Message
<1>3. Announce(o, kind) \in {<<>>, <<m>>}
    BY <1>1 DEF Announce, Signal
<1>4. <<>> \in Seq(Message) /\ <<m>> \in Seq(Message)
    BY <1>2
<1>5. QED
    BY <1>3, <1>4

\* So is what it answers with.
LEMMA ServeMessages ==
    ASSUME NEW o \in ClientObject, NEW c \in Call, NEW kind
    PROVE  ServedMessages(c, o, kind) \in Seq(Message) /\ <<Reply(c)>> \in Seq(Message)
<1>1. Reply(c) \in Message
    BY ReplyIsMessage DEF AnyCall
<1>2. Announce(o, kind) \in Seq(Message)
    BY AnnounceMessages
<1>3. QED
    BY <1>1, <1>2 DEF ServedMessages

\* A call of which AddIsAnnounced asks nothing.
NoAdd(c) ==
    \/ call'[c] = None \/ call'[c].kind # "add" \/ call'[c].answer # "ok"
    \/ ~AtWork(c)' \/ ~object'[call'[c].object].proxy

\* Every call is one of the two.
LEMMA AddsStay ==
    ASSUME AddInv, \A c \in Call : KeepsAdd(c) \/ NoAdd(c)
    PROVE  AddInv'
<1>1. ASSUME NEW c \in Call
      PROVE  AddIsAnnounced(c)'
  <2>1. CASE KeepsAdd(c)
      BY <2>1, StaysAnnounced DEF AddInv
  <2>2. CASE NoAdd(c)
      BY <2>2 DEF NoAdd, AddIsAnnounced
  <2>3. QED
      BY <2>1, <2>2
<1>2. QED
    BY <1>1 DEF AddInv

\* No change that was announced is lost.
KeepsAnnounced == \A o, c : Announced(inbox, o, c) => Announced(inbox', o, c)

\* It is not lost when messages are added.
LEMMA GrownInbox ==
    ASSUME CallsInv,
           inbox' = inbox \/ \E r \in Seq(Message) : inbox' = inbox \o r
    PROVE  KeepsAnnounced
<1>1. inbox \in Seq(Message)
    BY DEF CallsInv, CallsTypeOK
<1>2. CASE inbox' = inbox
    BY <1>2 DEF KeepsAnnounced
<1>3. CASE \E r \in Seq(Message) : inbox' = inbox \o r
    BY <1>1, <1>3, GrownAnnounced DEF KeepsAnnounced
<1>4. QED
    BY <1>2, <1>3

\* Nor when one is taken that is not a change.
LEMMA TakenInbox ==
    ASSUME CallsInv, inbox # <<>>, inbox' = Tail(inbox),
           \A o : Head(inbox) # Changed(o)
    PROVE  KeepsAnnounced
<1>1. inbox \in Seq(Message)
    BY DEF CallsInv, CallsTypeOK
<1>2. QED
    BY <1>1, TakenAnnounced DEF KeepsAnnounced

\* An object keeps its operation's call and what AddIsAnnounced asks of it.
KeepsId(x) ==
    /\ Live(x)' => Live(x)
    /\ Live(x)' /\ object'[x].op # None =>
          object[x].op # None /\ object'[x].op.call = object[x].op.call
    /\ Live(x)' /\ object'[x].proxy => object[x].proxy /\ (object[x].id => object'[x].id)

\* A call whose object does so.
LEMMA ObjectKeepsAdd ==
    ASSUME CallsInv, KeepsAnnounced, NEW c \in Call, call'[c] = call[c],
           call[c] # None => KeepsId(call[c].object)
    PROVE  KeepsAdd(c) \/ NoAdd(c)
<1>1. CASE call[c] = None
    BY <1>1 DEF NoAdd
<1>2. CASE call[c] # None
  <2>1. PICK o : o = call[c].object
      OBVIOUS
  <2>2. KeepsId(o) /\ call'[c].object = o
      BY <1>2, <2>1
  <2>3. AtWork(c)' /\ object'[o].proxy =>
            AtWork(c) /\ object[o].proxy /\ (object[o].id => object'[o].id)
      BY <2>1, <2>2 DEF KeepsId, AtWork
  <2>4. Announced(inbox, o, c) => Announced(inbox', o, c)
      BY DEF KeepsAnnounced
  <2>5. QED
      BY <2>1, <2>3, <2>4 DEF KeepsAdd
<1>3. QED
    BY <1>1, <1>2

\* No object changes, and at most one call, which was not done.
LEMMA ObjectsStay ==
    ASSUME CallsInv, AddInv, KeepsAnnounced, UNCHANGED object,
           \A c \in Call : call'[c] = call[c] \/ NoAdd(c)
    PROVE  AddInv'
<1>1. \A x : KeepsId(x)
    BY DEF KeepsId, Live
<1>2. QED
    BY <1>1, ObjectKeepsAdd, AddsStay

\* One object gets another operation, or none, or goes.
LEMMA OperationGoes ==
    ASSUME CallsInv, AddInv, inbox' = inbox, NEW o \in ClientObject, NEW c,
           \A x \in ClientObject : x # o => object'[x] = object[x],
           Live(o)' /\ object'[o].op # None => object'[o].op.call = c,
           c \in Call => NoAdd(c),
           \A d \in Call : d # c =>
              \/ call'[d] = call[d]
              \/ call'[d] # None /\ call'[d].object = o
    PROVE  AddInv'
<1>1. KeepsAnnounced
    BY DEF KeepsAnnounced
<1>2. ASSUME NEW d \in Call, d # c
      PROVE  KeepsAdd(d) \/ NoAdd(d)
  <2>1. CASE call'[d] # None /\ call'[d].object = o
      BY <1>2, <2>1 DEF NoAdd, AtWork
  <2>2. CASE call'[d] = call[d] /\ (call[d] # None => call[d].object # o)
    <3>1. call[d] # None => call[d].object \in ClientObject
        BY DEF CallsInv, CallsTypeOK, CallFields
    <3>2. call[d] # None => KeepsId(call[d].object)
        BY <2>2, <3>1 DEF KeepsId, Live
    <3>3. QED
        BY <1>1, <2>2, <3>2, ObjectKeepsAdd
  <2>3. QED
      BY <1>2, <2>1, <2>2
<1>3. QED
    BY <1>2, AddsStay

\* A call that makes an object is not an add, and an add that was just made is
\* not answered.
LEMMA NewCallAdds ==
    ASSUME CallsInv, AddInv, NEW o \in ClientObject, NEW c \in Call,
           NEW new \in ObjectFields, object' = [object EXCEPT ![o] = new], new.op.call = c,
           NEW rec, call' = [call EXCEPT ![c] = rec], rec.kind # "add" \/ rec.answer # "ok",
           inbox' = inbox
    PROVE  AddInv'
<1>1. /\ object'[o] = new /\ \A x \in ClientObject : x # o => object'[x] = object[x]
      /\ call'[c] = rec /\ \A d \in Call : d # c => call'[d] = call[d]
    BY DEF CallsInv, CallsTypeOK
<1>2. NoAdd(c)
    BY <1>1 DEF NoAdd
<1>3. QED
    BY <1>1, <1>2, OperationGoes

\* gum_user_create, gum_group_get and the others
LEMMA MadeAdds ==
    ASSUME CallsInv, AddInv, NEW o \in ClientObject, NEW c \in Call, NEW kind \in Makers,
           NEW sent \in BOOLEAN, Made(o, c, kind, sent)
    PROVE  AddInv'
<1>1. PICK new : new = NewObject(FALSE, TRUE, NewOp(c))
    OBVIOUS
<1>2. new \in ObjectFields /\ new.op = NewOp(c)
    BY <1>1, NewOpFields, NewObjectFields
<1>3. PICK rec : rec = [object |-> o, kind |-> kind, served |-> ~sent,
                        answer |-> IF sent THEN "none" ELSE "unsent"]
    OBVIOUS
<1>4. rec.answer # "ok"
    BY <1>3
<1>5. /\ object' = [object EXCEPT ![o] = new]
      /\ call' = [call EXCEPT ![c] = rec]
      /\ inbox' = inbox
    BY <1>1, <1>3 DEF Made
<1>6. new.op.call = c
    BY <1>2, NewOpFields
<1>7. QED
    BY <1>2, <1>4, <1>5, <1>6, NewCallAdds

\* gum_user_add and the others
LEMMA RequestedAdds ==
    ASSUME CallsInv, AddInv, NEW o \in ClientObject, NEW c \in Call, NEW kind,
           Requested(o, c, kind)
    PROVE  AddInv'
<1>1. object[o] \in ObjectFields
    BY LiveObject DEF Requested
<1>2. PICK new : new = [object[o] EXCEPT !.op = NewOp(c)]
    OBVIOUS
<1>3. new \in ObjectFields /\ new.op = NewOp(c)
    BY <1>1, <1>2, NewOpFields DEF ObjectFields
<1>4. PICK rec : rec = [object |-> o, kind |-> kind, served |-> FALSE, answer |-> "none"]
    OBVIOUS
<1>5. rec.answer # "ok"
    BY <1>4
<1>6. /\ object' = [object EXCEPT ![o] = new]
      /\ call' = [call EXCEPT ![c] = rec]
      /\ inbox' = inbox
    BY <1>2, <1>4 DEF Requested
<1>7. new.op.call = c
    BY <1>3, NewOpFields
<1>8. QED
    BY <1>3, <1>5, <1>6, <1>7, NewCallAdds

\* The calls of an object that is dropped were cancelled.
LEMMA DisposeAdds ==
    ASSUME CallsInv, AddInv, NEW o \in ClientObject,
           object' = [object EXCEPT ![o] = None], Cancel(o), inbox' = inbox
    PROVE  AddInv'
<1>1. object'[o] = None /\ \A x \in ClientObject : x # o => object'[x] = object[x]
    BY DEF CallsInv, CallsTypeOK
<1>2. ASSUME NEW d \in Call
      PROVE  \/ call'[d] = call[d]
             \/ call'[d] # None /\ call'[d].object = o
  <2>1. CASE call[d] = None \/ call[d].object # o
      BY <2>1 DEF Cancel
  <2>2. CASE call[d] # None /\ call[d].object = o
    <3>1. PICK rec : rec = [call[d] EXCEPT !.answer = "cancelled", !.served = TRUE]
        OBVIOUS
    <3>2. call[d] \in CallFields
        BY <2>2 DEF CallsInv, CallsTypeOK
    <3>3. rec \in CallFields /\ rec.object = o
        BY <2>2, <3>1, <3>2 DEF CallFields
    <3>4. rec # None
        BY <3>3, CallsAssumption
    <3>5. call'[d] = rec
        BY <2>2, <3>1 DEF Cancel
    <3>6. QED
        BY <3>3, <3>4, <3>5
  <2>3. QED
      BY <2>1, <2>2
<1>3. PICK c : c \notin Call
    BY NoSetContainsEverything
<1>4. ~Live(o)'
    BY <1>1 DEF Live
<1>5. QED
    BY <1>1, <1>2, <1>3, <1>4, OperationGoes

\* An object that was made by a blocking call has no operation.
LEMMA SyncMadeAdds ==
    ASSUME CallsInv, AddInv, NEW o \in ClientObject, NEW kind \in Makers,
           NEW offline \in BOOLEAN, NEW has \in BOOLEAN, NEW reached,
           SyncMade(o, kind, offline, has, reached)
    PROVE  AddInv'
<1>1. UNCHANGED <<call, inbox>>
    BY DEF SyncMade
<1>2. ~Live(o)
    BY DEF SyncMade, Unmade, CallsInv, OperationsAreOfCalls
<1>3. /\ \A x \in ClientObject : x # o => object'[x] = object[x]
      /\ object'[o] # None => object'[o].op = None
  <2>1. CASE UNCHANGED object
      BY <1>2, <2>1 DEF Live
  <2>2. CASE object' = [object EXCEPT ![o] = NewObject(FALSE, has, None)]
      BY <2>2, NewObjectFields DEF CallsInv, CallsTypeOK
  <2>3. CASE \E s \in Outcomes(kind, "none"), proxy \in BOOLEAN :
                object' = [object EXCEPT ![o] =
                   [NewObject(offline, has, None) EXCEPT
                       !.proxy = ~offline /\ proxy,
                       !.id = s = "added" /\ (offline \/ proxy)]]
    <3>1. PICK s \in Outcomes(kind, "none"), proxy \in BOOLEAN :
                object' = [object EXCEPT ![o] =
                   [NewObject(offline, has, None) EXCEPT
                       !.proxy = ~offline /\ proxy,
                       !.id = s = "added" /\ (offline \/ proxy)]]
        BY <2>3
    <3>2. PICK n : n = NewObject(offline, has, None)
        OBVIOUS
    <3>3. n \in ObjectFields /\ n.op = None
        BY <3>2 DEF NewObject, ObjectFields
    <3>4. PICK new : new = [n EXCEPT !.proxy = ~offline /\ proxy,
                                     !.id = s = "added" /\ (offline \/ proxy)]
        OBVIOUS
    <3>5. new.op = None
        BY <3>3, <3>4 DEF ObjectFields
    <3>6. object' = [object EXCEPT ![o] = new]
        BY <3>1, <3>2, <3>4
    <3>7. QED
        BY <3>5, <3>6 DEF CallsInv, CallsTypeOK
  <2>4. QED
      BY <2>1, <2>2, <2>3 DEF SyncMade
<1>4. PICK c : c \notin Call
    BY NoSetContainsEverything
<1>5. ~(Live(o)' /\ object'[o].op # None)
    BY <1>3 DEF Live
<1>6. \A d \in Call : call'[d] = call[d]
    BY <1>1
<1>7. inbox' = inbox
    BY <1>1
<1>8. QED
    BY <1>3, <1>4, <1>5, <1>6, <1>7, OperationGoes

\* A blocking request may learn the id, and never forgets it.
LEMMA SyncRequestAdds ==
    ASSUME CallsInv, AddInv, NEW o \in ClientObject, NEW kind, NEW syncs \in BOOLEAN,
           SyncRequest(o, kind, syncs)
    PROVE  AddInv'
<1>1. PICK sync \in BOOLEAN :
          object' = [object EXCEPT ![o].id = @ \/ object[o].offline \/ (sync /\ syncs)]
    BY DEF SyncRequest
<1>2. Live(o) /\ object[o] \in ObjectFields
    BY LiveObject DEF SyncRequest
<1>3. PICK new : new = [object[o] EXCEPT !.id =
                           object[o].id \/ object[o].offline \/ (sync /\ syncs)]
    OBVIOUS
<1>4. new.op = object[o].op /\ new.proxy = object[o].proxy
    BY <1>2, <1>3 DEF ObjectFields
<1>5. object[o].id => new.id
    BY <1>2, <1>3 DEF ObjectFields
<1>6. object' = [object EXCEPT ![o] = new]
    BY <1>1, <1>3
<1>7. object'[o] = new /\ \A x \in ClientObject : x # o => object'[x] = object[x]
    BY <1>6 DEF CallsInv, CallsTypeOK
<1>8. \A x \in ClientObject : KeepsId(x)
    BY <1>2, <1>4, <1>5, <1>7 DEF KeepsId, Live
<1>9. KeepsAnnounced
  <2>1. CASE inbox' = inbox
      BY <2>1, GrownInbox
  <2>2. CASE inbox' = inbox \o Announce(o, kind)
      BY <2>2, AnnounceMessages, GrownInbox
  <2>3. QED
      BY <2>1, <2>2 DEF SyncRequest
<1>10. UNCHANGED call
    BY DEF SyncRequest
<1>11. ASSUME NEW c \in Call
       PROVE  KeepsAdd(c) \/ NoAdd(c)
  <2>1. call[c] # None => call[c].object \in ClientObject
      BY DEF CallsInv, CallsTypeOK, CallFields
  <2>2. QED
      BY <1>8, <1>9, <1>10, <2>1, ObjectKeepsAdd
<1>12. QED
    BY <1>11, AddsStay

\* The daemon does not answer a call once more.
LEMMA ServedLate ==
    ASSUME CallsInv, NEW c \in Call, Serve(c), call[c] \in CallFields,
           call[c].answer # "none"
    PROVE  call'[c].answer = call[c].answer
<1>1. call' = [call EXCEPT ![c].served = TRUE, ![c].answer = call[c].answer]
    BY DEF Serve
<1>2. QED
    BY <1>1 DEF CallFields, CallsInv, CallsTypeOK

\* The daemon answers an add behind the change, which waits in the inbox.
LEMMA ServeAdds ==
    ASSUME CallsInv, AddInv, NEW c \in Call, Serve(c)
    PROVE  AddInv'
<1>1. call[c] # None /\ call[c] \in CallFields
    BY DEF Serve, CallsInv, CallsTypeOK
<1>2. PICK o, kind : o = call[c].object /\ kind = call[c].kind
    OBVIOUS
<1>3. o \in ClientObject /\ inbox \in Seq(Message)
    BY <1>1, <1>2 DEF CallFields, CallsInv, CallsTypeOK
<1>4. UNCHANGED object
    BY DEF Serve
<1>5. \A x : KeepsId(x)
    BY <1>4 DEF KeepsId, Live
<1>6. Announce(o, kind) \in Seq(Message) /\ ServedMessages(c, o, kind) \in Seq(Message)
      /\ <<Reply(c)>> \in Seq(Message)
    BY <1>3, AnnounceMessages, ServeMessages
<1>7. KeepsAnnounced
  <2>1. \/ inbox' = inbox \o ServedMessages(c, o, kind)
        \/ inbox' = inbox \o Announce(o, kind)
        \/ inbox' = inbox
        \/ inbox' = Append(inbox, Reply(c))
      BY <1>2 DEF Serve
  <2>2. Append(inbox, Reply(c)) = inbox \o <<Reply(c)>>
      BY <1>3, ReplyIsMessage DEF AnyCall
  <2>3. QED
      BY <1>6, <2>1, <2>2, GrownInbox
<1>8. \A d \in Call : d # c => call'[d] = call[d]
    BY DEF Serve, CallsInv, CallsTypeOK
<1>9. ASSUME NEW d \in Call, d # c
      PROVE  AddIsAnnounced(d)'
  <2>1. KeepsAdd(d) \/ NoAdd(d)
      BY <1>5, <1>7, <1>8, <1>9, ObjectKeepsAdd
  <2>2. QED
      BY <2>1, StaysAnnounced DEF NoAdd, AddIsAnnounced, AddInv
<1>10. AddIsAnnounced(c)'
  <2>1. PICK a : call' = [call EXCEPT ![c].served = TRUE, ![c].answer = a]
      BY DEF Serve
  <2>2. PICK rec : rec = [call[c] EXCEPT !.served = TRUE, !.answer = a]
      OBVIOUS
  <2>3. rec.object = o /\ rec.kind = kind /\ rec.answer = a
      BY <1>1, <1>2, <2>2 DEF CallFields
  <2>4. call'[c] = rec
      BY <2>1, <2>2 DEF CallsInv, CallsTypeOK
  <2>5. SUFFICES ASSUME kind = "add", a = "ok", AtWork(c)', object'[o].proxy
                 PROVE  object'[o].id \/ Announced(inbox', o, c)
      BY <2>3, <2>4 DEF AddIsAnnounced
  <2>6. AtWork(c) /\ object[o].proxy /\ Live(o)
      BY <1>2, <1>4, <2>3, <2>4, <2>5 DEF AtWork, Live
  <2>7. CASE call[c].answer = "none"
    <3>1. \/ inbox' = inbox \o ServedMessages(c, o, "add")
          \/ call' = [call EXCEPT ![c].served = TRUE, ![c].answer = "failed"]
        BY <1>2, <2>5, <2>7 DEF Serve
    <3>2. call' # [call EXCEPT ![c].served = TRUE, ![c].answer = "failed"]
        BY <1>1, <2>3, <2>4, <2>5 DEF CallFields, CallsInv, CallsTypeOK
    <3>3. inbox' = inbox \o ServedMessages(c, o, "add")
        BY <3>1, <3>2
    <3>4. QED
        BY <1>3, <2>6, <3>3, ServedAnnounced
  <2>8. CASE call[c].answer = "ok"
    <3>1. object[o].id \/ Announced(inbox, o, c)
        BY <1>1, <1>2, <2>5, <2>6, <2>8 DEF AddInv, AddIsAnnounced
    <3>2. QED
        BY <1>4, <1>7, <3>1 DEF KeepsAnnounced
  <2>9. CASE call[c].answer # "none" /\ call[c].answer # "ok"
    <3>1. call'[c].answer = call[c].answer
        BY <1>1, <2>9, ServedLate
    <3>2. QED
        BY <2>3, <2>4, <2>5, <2>9, <3>1
  <2>10. QED
      BY <2>7, <2>8, <2>9
<1>11. QED
    BY <1>9, <1>10 DEF AddInv

\* A call that timed out was not done.
LEMMA TimesOutAdds ==
    ASSUME CallsInv, AddInv, NEW c \in Call, TimesOut(c)
    PROVE  AddInv'
<1>1. call[c] \in CallFields /\ inbox \in Seq(Message)
    BY DEF TimesOut, CallsInv, CallsTypeOK
<1>2. call' = [call EXCEPT ![c].answer = "failed"] /\ inbox' = Append(inbox, Reply(c))
      /\ UNCHANGED object
    BY DEF TimesOut
<1>3. call'[c].answer = "failed" /\ \A d \in Call : d # c => call'[d] = call[d]
    BY <1>1, <1>2 DEF CallFields, CallsInv, CallsTypeOK
<1>4. Append(inbox, Reply(c)) = inbox \o <<Reply(c)>> /\ <<Reply(c)>> \in Seq(Message)
    BY <1>1, ReplyIsMessage DEF AnyCall
<1>5. KeepsAnnounced
    BY <1>2, <1>4, GrownInbox
<1>6. NoAdd(c)
    BY <1>3 DEF NoAdd
<1>7. QED
    BY <1>2, <1>3, <1>5, <1>6, ObjectsStay

\* The D-Bus object goes behind what was announced.
LEMMA AdapterGoesAdds ==
    ASSUME CallsInv, AddInv, NEW o \in ClientObject, AdapterGoes(o)
    PROVE  AddInv'
<1>1. PICK m : m = Unregistered(o)
    OBVIOUS
<1>2. m \in Message
    BY <1>1 DEF Unregistered, Message
<1>3. Signal(o, m) \in {<<>>, <<m>>}
    BY DEF Signal
<1>4. Signal(o, m) \in Seq(Message)
  <2>1. <<>> \in Seq(Message) /\ <<m>> \in Seq(Message)
      BY <1>2
  <2>2. QED
      BY <1>3, <2>1
<1>5. inbox' = inbox \o Signal(o, m) /\ UNCHANGED <<object, call>>
    BY <1>1 DEF AdapterGoes
<1>6. KeepsAnnounced
    BY <1>4, <1>5, GrownInbox
<1>7. QED
    BY <1>5, <1>6, ObjectsStay

\* A callback that is run leaves the object with the same operation.
LEMMA TriggerAdds ==
    ASSUME CallsInv, AddInv, NEW o \in ClientObject, Live(o), sources[o] > 0,
           object' = [object EXCEPT ![o].op.cb_id = FALSE], UNCHANGED <<call, inbox>>
    PROVE  AddInv'
<1>1. object[o] \in ObjectFields /\ object[o].op \in Op /\ object[o].op # None
    BY LiveObject DEF CallsInv, SourcesAreKnown
<1>2. PICK op : op = [object[o].op EXCEPT !.cb_id = FALSE]
    OBVIOUS
<1>3. op.call = object[o].op.call
    BY <1>1, <1>2 DEF Op
<1>4. PICK new : new = [object[o] EXCEPT !.op = op]
    OBVIOUS
<1>5. new.op = op /\ new.proxy = object[o].proxy
    BY <1>1, <1>4 DEF ObjectFields
<1>6. object[o].id => new.id
    BY <1>1, <1>4 DEF ObjectFields
<1>7. object' = [object EXCEPT ![o] = new]
    BY <1>2, <1>4
<1>8. object'[o] = new /\ \A x \in ClientObject : x # o => object'[x] = object[x]
    BY <1>7 DEF CallsInv, CallsTypeOK
<1>9. \A x \in ClientObject : KeepsId(x)
    BY <1>1, <1>3, <1>5, <1>6, <1>8 DEF KeepsId, Live
<1>10. KeepsAnnounced
    BY GrownInbox
<1>11. ASSUME NEW c \in Call
       PROVE  KeepsAdd(c) \/ NoAdd(c)
  <2>1. call[c] # None => call[c].object \in ClientObject
      BY DEF CallsInv, CallsTypeOK, CallFields
  <2>2. QED
      BY <1>9, <1>10, <2>1, ObjectKeepsAdd
<1>12. QED
    BY <1>11, AddsStay

\* A reply that is taken is no announcement; the object gets no proxy for an
\* operation that is an add.
LEMMA ReplyAdds ==
    ASSUME CallsInv, AddInv, inbox # <<>>, inbox' = Tail(inbox), NEW c \in Call,
           Head(inbox) = Reply(c), NEW o, o = call[c].object, UNCHANGED call,
           \/ UNCHANGED object
           \/ /\ call[c].answer # "cancelled"
              /\ \E new \in ObjectFields : /\ object' = [object EXCEPT ![o] = new]
                                          /\ new.op = SetupIdle(object[o].op,
                                                               call[c].answer = "failed")
                                          /\ \/ call[c].kind # "add"
                                             \/ new.proxy = object[o].proxy /\ (object[o].id => new.id)
    PROVE  AddInv'
<1>1. KeepsAnnounced
  <2>1. \A x : Head(inbox) # Changed(x)
      BY DEF Reply, Changed
  <2>2. QED
      BY <2>1, TakenInbox
<1>2. CASE UNCHANGED object
    BY <1>1, <1>2, ObjectsStay
<1>3. CASE call[c].answer # "cancelled" /\ ~UNCHANGED object
  <2>1. PICK new \in ObjectFields :
           /\ object' = [object EXCEPT ![o] = new]
           /\ new.op = SetupIdle(object[o].op, call[c].answer = "failed")
           /\ \/ call[c].kind # "add"
              \/ new.proxy = object[o].proxy /\ (object[o].id => new.id)
      BY <1>3
  <2>2. o \in ClientObject /\ Live(o) /\ object[o].op # None /\ object[o].op.call = c
    <3>1. CallIsSomewhere(c) /\ call[c] \in CallFields \cup {None} /\ inbox \in Seq(Message)
        BY DEF CallsInv, CallsTypeOK
    <3>2. Queued(inbox, c)
        BY <3>1, TakeMessage
    <3>3. call[c] # None /\ call[c] \in CallFields
        BY <3>1, <3>2 DEF CallIsSomewhere
    <3>4. QED
        BY <1>3, <3>1, <3>2, <3>3 DEF CallIsSomewhere, AtWork, CallFields
  <2>3. object[o].op \in Op
      BY <2>2, LiveObject
  <2>4. new.op.call = c
      BY <2>1, <2>2, <2>3 DEF SetupIdle, Op
  <2>5. object'[o] = new /\ \A x \in ClientObject : x # o => object'[x] = object[x]
      BY <2>1, <2>2 DEF CallsInv, CallsTypeOK
  <2>6. ASSUME NEW d \in Call
        PROVE  KeepsAdd(d) \/ NoAdd(d)
    <3>1. call[d] # None => call[d].object \in ClientObject
        BY DEF CallsInv, CallsTypeOK, CallFields
    <3>2. CASE call[d] = None \/ call[d].object # o
      <4>1. call[d] # None => KeepsId(call[d].object)
          BY <2>5, <3>1, <3>2 DEF KeepsId, Live
      <4>2. QED
          BY <1>1, <4>1, ObjectKeepsAdd
    <3>3. CASE call[d] # None /\ call[d].object = o /\ d # c
        BY <2>4, <2>5, <3>3 DEF NoAdd, AtWork
    <3>4. CASE d = c /\ call[c].kind # "add"
        BY <3>4 DEF NoAdd
    <3>5. CASE d = c /\ call[c].kind = "add"
      <4>1. KeepsId(o)
          BY <2>1, <2>2, <2>4, <2>5, <3>5 DEF KeepsId
      <4>2. QED
          BY <1>1, <3>5, <4>1, ObjectKeepsAdd
    <3>6. QED
        BY <3>2, <3>3, <3>4, <3>5
  <2>7. QED
      BY <2>6, AddsStay
<1>4. QED
    BY <1>2, <1>3

\* The object whose reply is delivered, unless it was cancelled.
LEMMA ReplyObject ==
    ASSUME CallsInv, inbox # <<>>, NEW c \in Call, Head(inbox) = Reply(c),
           NEW o, o = call[c].object, call[c].answer # "cancelled"
    PROVE  /\ o \in ClientObject /\ object[o] \in ObjectFields
           /\ SetupIdle(object[o].op, call[c].answer = "failed") \in Op
<1>1. CallIsSomewhere(c) /\ call[c] \in CallFields \cup {None} /\ inbox \in Seq(Message)
    BY DEF CallsInv, CallsTypeOK
<1>2. Queued(inbox, c)
    BY <1>1, TakeMessage
<1>3. call[c] # None /\ call[c] \in CallFields
    BY <1>1, <1>2 DEF CallIsSomewhere
<1>4. o \in ClientObject /\ Live(o) /\ object[o].op # None
    BY <1>1, <1>2, <1>3 DEF CallIsSomewhere, AtWork, CallFields
<1>5. object[o].op \in Op /\ object[o] \in ObjectFields
    BY <1>4, LiveObject
<1>6. QED
    BY <1>4, <1>5 DEF SetupIdle, Op

\* The reply to a constructor call (_on_new_user_cb and the others).
LEMMA OnMadeAdds ==
    ASSUME CallsInv, AddInv, inbox # <<>>, inbox' = Tail(inbox), NEW c \in Call,
           Head(inbox) = Reply(c), NEW o, o = call[c].object, call[c].kind \in Makers,
           OnMade(o, c)
    PROVE  AddInv'
<1>1. UNCHANGED call
    BY DEF OnMade
<1>2. CASE call[c].answer = "cancelled"
    BY <1>1, <1>2, ReplyAdds DEF OnMade
<1>3. CASE call[c].answer # "cancelled"
  <2>1. PICK proxy \in BOOLEAN :
            object' = [object EXCEPT ![o] =
               [object[o] EXCEPT !.proxy = proxy,
                         !.id = proxy /\ remote[o] = "added",
                         !.op = SetupIdle(@, call[c].answer = "failed")]]
      BY <1>3 DEF OnMade
  <2>2. PICK op : op = SetupIdle(object[o].op, call[c].answer = "failed")
      OBVIOUS
  <2>3. object[o] \in ObjectFields /\ op \in Op
      BY <1>3, <2>2, ReplyObject
  <2>4. PICK new : new = [object[o] EXCEPT !.proxy = proxy,
                                           !.id = proxy /\ remote[o] = "added",
                                           !.op = op]
      OBVIOUS
  <2>5. new \in ObjectFields /\ new.op = op
      BY <2>3, <2>4 DEF ObjectFields
  <2>6. object' = [object EXCEPT ![o] = new]
      BY <2>1, <2>2, <2>4
  <2>7. call[c].kind # "add"
      BY DEF Makers
  <2>8. QED
      BY <1>1, <1>3, <2>2, <2>5, <2>6, <2>7, ReplyAdds
<1>4. QED
    BY <1>2, <1>3

\* The reply to a request (_on_user_add_cb and the others).
LEMMA OnRequestedAdds ==
    ASSUME CallsInv, AddInv, inbox # <<>>, inbox' = Tail(inbox), NEW c \in Call,
           Head(inbox) = Reply(c), NEW o, o = call[c].object, OnRequested(o, c)
    PROVE  AddInv'
<1>1. UNCHANGED call
    BY DEF OnRequested
<1>2. CASE call[c].answer = "cancelled"
    BY <1>1, <1>2, ReplyAdds DEF OnRequested
<1>3. CASE call[c].answer # "cancelled"
  <2>1. PICK op : op = SetupIdle(object[o].op, call[c].answer = "failed")
      OBVIOUS
  <2>2. object[o] \in ObjectFields /\ op \in Op
      BY <1>3, <2>1, ReplyObject
  <2>3. PICK new : new = [object[o] EXCEPT !.op = op]
      OBVIOUS
  <2>4. new \in ObjectFields /\ new.op = op /\ new.proxy = object[o].proxy
      BY <2>2, <2>3 DEF ObjectFields
  <2>5. object[o].id => new.id
      BY <2>2, <2>3 DEF ObjectFields
  <2>6. object' = [object EXCEPT ![o] = new]
      BY <1>3, <2>1, <2>3 DEF OnRequested
  <2>7. QED
      BY <1>1, <1>3, <2>1, <2>4, <2>5, <2>6, ReplyAdds
<1>4. QED
    BY <1>2, <1>3

\* The object takes the change, or loses its proxy; another one keeps what was
\* announced to it.
LEMMA DeliverSignalAdds ==
    ASSUME CallsInv, AddInv, inbox # <<>>, inbox' = Tail(inbox), Head(inbox).type # "reply",
           DeliverSignal(Head(inbox))
    PROVE  AddInv'
<1>1. PICK m, o : m = Head(inbox) /\ o = m.object
    OBVIOUS
<1>2. inbox \in Seq(Message) /\ m \in Message
    BY <1>1, TakeMessage DEF CallsInv, CallsTypeOK
<1>3. o \in ClientObject /\ (m = Changed(o) \/ m = Unregistered(o))
    BY <1>1, <1>2 DEF Message, Changed, Unregistered
<1>4. UNCHANGED call
    BY DEF DeliverSignal
<1>5. \A x \in ClientObject : x # o => object'[x] = object[x]
    BY <1>1, <1>3 DEF DeliverSignal, CallsInv, CallsTypeOK
<1>6. KeepsId(o) /\ (Live(o)' /\ object'[o].proxy => m = Unregistered(o) \/ object'[o].id)
  <2>1. CASE ~Live(o) \/ ~object[o].proxy
    <3>1. object' = object
        BY <1>1, <2>1 DEF DeliverSignal
    <3>2. QED
        BY <2>1, <3>1 DEF KeepsId, Live
  <2>2. CASE Live(o) /\ object[o].proxy
    <3>1. object[o] \in ObjectFields
        BY <1>3, <2>2, LiveObject
    <3>2. CASE m.type = "changed"
      <4>1. PICK new : new = [object[o] EXCEPT !.id = TRUE]
          OBVIOUS
      <4>2. new.id /\ new.op = object[o].op /\ new.proxy = object[o].proxy
          BY <3>1, <4>1 DEF ObjectFields
      <4>3. object' = [object EXCEPT ![o] = new]
          BY <1>1, <2>2, <3>2, <4>1 DEF DeliverSignal
      <4>4. object'[o] = new
          BY <1>3, <4>3 DEF CallsInv, CallsTypeOK
      <4>5. QED
          BY <2>2, <4>2, <4>4 DEF KeepsId
    <3>3. CASE m.type # "changed"
      <4>1. PICK new : new = [object[o] EXCEPT !.proxy = FALSE, !.id = FALSE]
          OBVIOUS
      <4>2. ~new.proxy /\ new.op = object[o].op
          BY <3>1, <4>1 DEF ObjectFields
      <4>3. object' = [object EXCEPT ![o] = new]
          BY <1>1, <2>2, <3>3, <4>1 DEF DeliverSignal
      <4>4. object'[o] = new
          BY <1>3, <4>3 DEF CallsInv, CallsTypeOK
      <4>5. QED
          BY <2>2, <4>2, <4>4 DEF KeepsId
    <3>4. QED
        BY <3>2, <3>3
  <2>3. QED
      BY <2>1, <2>2
<1>7. ASSUME NEW d \in Call
      PROVE  KeepsAdd(d) \/ NoAdd(d)
  <2>1. PICK x : x = call[d].object
      OBVIOUS
  <2>2. CASE call[d] = None
      BY <1>4, <2>2 DEF NoAdd
  <2>3. CASE call[d] # None
    <3>1. x \in ClientObject
        BY <2>1, <2>3 DEF CallsInv, CallsTypeOK, CallFields
    <3>2. KeepsId(x)
        BY <1>5, <1>6, <3>1 DEF KeepsId, Live
    <3>3. AtWork(d)' /\ object'[x].proxy =>
              AtWork(d) /\ object[x].proxy /\ (object[x].id => object'[x].id)
        BY <1>4, <2>1, <3>2 DEF KeepsId, AtWork
    <3>4. CASE m = Changed(x) /\ Live(x)' /\ object'[x].proxy
      <4>1. object'[x].id
          BY <1>3, <1>6, <3>4 DEF Changed, Unregistered
      <4>2. QED
          BY <1>4, <2>1, <3>3, <4>1 DEF KeepsAdd
    <3>5. CASE m # Changed(x)
      <4>1. Announced(inbox, x, d) => Announced(inbox', x, d)
          BY <1>1, <1>2, <3>5, TakenAnnounced
      <4>2. QED
          BY <1>4, <2>1, <3>3, <4>1 DEF KeepsAdd
    <3>6. CASE ~(Live(x)' /\ object'[x].proxy)
      <4>1. call'[d].object = x
          BY <1>4, <2>1
      <4>2. AtWork(d)' => Live(x)'
          BY <4>1 DEF AtWork, Live
      <4>3. QED
          BY <3>6, <4>1, <4>2 DEF NoAdd
    <3>7. QED
        BY <3>4, <3>5, <3>6
  <2>4. QED
      BY <2>2, <2>3
<1>8. QED
    BY <1>7, AddsStay

\* Every call of a user object.
LEMMA UserCallsAdds ==
    ASSUME CallsInv, AddInv, NEW u \in UserObject, UserCalls(u)
    PROVE  AddInv'
<1>1. NextOf(Call) \subseteq Call /\ u \in ClientObject
    BY DEF NextOf, ClientObject
<1>2. ASSUME NEW c \in Call, NEW kind \in Makers, UserMakes(u, c, kind)
      PROVE  AddInv'
  <2>1. PICK up \in BOOLEAN : Made(u, c, kind, ServiceReached(up))
      BY <1>2 DEF UserMakes
  <2>2. ServiceReached(up) \in BOOLEAN
      BY DEF ServiceReached
  <2>3. QED
      BY <1>1, <2>1, <2>2, MadeAdds
<1>3. ASSUME NEW c \in Call, NEW kind, UserRequested(u, c, kind)
      PROVE  AddInv'
    BY <1>1, <1>3, RequestedAdds DEF UserRequested
<1>4. ASSUME NEW offline \in BOOLEAN, NEW kind \in Makers, UserMadeSync(u, kind, offline)
      PROVE  AddInv'
  <2>1. CASE offline
    <3>1. SyncMade(u, kind, TRUE, FALSE, FALSE)
        BY <1>4, <2>1 DEF UserMadeSync
    <3>2. QED
        BY <1>1, <3>1, SyncMadeAdds
  <2>2. CASE ~offline
    <3>1. PICK up \in BOOLEAN : SyncMade(u, kind, FALSE, TRUE, ServiceReached(up))
        BY <1>4, <2>2 DEF UserMadeSync
    <3>2. QED
        BY <1>1, <3>1, SyncMadeAdds
  <2>3. QED
      BY <2>1, <2>2
<1>5. ASSUME NEW kind, NEW syncs \in BOOLEAN, SyncRequest(u, kind, syncs)
      PROVE  AddInv'
    BY <1>1, <1>5, SyncRequestAdds
<1>6. CASE UserDispose(u)
    BY <1>1, <1>6, DisposeAdds DEF UserDispose
<1>7. "create" \in Makers /\ "get" \in Makers
    BY DEF Makers
<1>8. QED
    BY <1>1, <1>2, <1>3, <1>4, <1>5, <1>6, <1>7
    DEF UserCalls, gum_user_create, gum_user_get, gum_user_get_by_name, gum_user_add,
        gum_user_delete, gum_user_update, gum_user_create_sync, gum_user_get_sync,
        gum_user_get_by_name_sync, gum_user_add_sync, gum_user_delete_sync,
        gum_user_update_sync

\* Every call of a group object.
LEMMA GroupCallsAdds ==
    ASSUME CallsInv, AddInv, NEW g \in GroupObject, GroupCalls(g)
    PROVE  AddInv'
<1>1. NextOf(Call) \subseteq Call /\ g \in ClientObject
    BY DEF NextOf, ClientObject
<1>2. CASE GroupUnmade(g)
  <2>1. UNCHANGED <<object, call, inbox>>
      BY <1>2 DEF GroupUnmade
  <2>2. KeepsAnnounced
      BY <2>1, GrownInbox
  <2>3. QED
      BY <2>1, <2>2, ObjectsStay
<1>3. ASSUME NEW c \in Call, NEW kind \in Makers, GroupMakes(g, c, kind)
      PROVE  AddInv'
  <2>1. Made(g, c, kind, TRUE) \/ GroupUnmade(g)
      BY <1>3 DEF GroupMakes
  <2>2. QED
      BY <1>1, <1>2, <2>1, MadeAdds
<1>4. ASSUME NEW c \in Call, NEW kind, GroupRequested(g, c, kind)
      PROVE  AddInv'
    BY <1>1, <1>4, RequestedAdds DEF GroupRequested
<1>5. ASSUME NEW offline \in BOOLEAN, GroupMadeSync(g, "get", offline)
      PROVE  AddInv'
  <2>1. PICK has : SyncMade(g, "get", offline, has, has) /\ has \in BOOLEAN
      BY <1>5 DEF GroupMadeSync
  <2>2. "get" \in Makers
      BY DEF Makers
  <2>3. QED
      BY <1>1, <2>1, <2>2, SyncMadeAdds
<1>6. ASSUME NEW offline \in BOOLEAN, gum_group_create_sync(g, offline)
      PROVE  AddInv'
  <2>1. SyncMade(g, "create", offline, ~offline, ~offline) \/ GroupUnmade(g)
      BY <1>6 DEF gum_group_create_sync
  <2>2. "create" \in Makers /\ (~offline) \in BOOLEAN
      BY DEF Makers
  <2>3. QED
      BY <1>1, <1>2, <2>1, <2>2, SyncMadeAdds
<1>7. ASSUME NEW kind, NEW syncs \in BOOLEAN, SyncRequest(g, kind, syncs)
      PROVE  AddInv'
    BY <1>1, <1>7, SyncRequestAdds
<1>8. CASE GroupDispose(g)
    BY <1>1, <1>8, DisposeAdds DEF GroupDispose
<1>9. "create" \in Makers /\ "get" \in Makers
    BY DEF Makers
<1>10. QED
    BY <1>1, <1>3, <1>4, <1>5, <1>6, <1>7, <1>8, <1>9
    DEF GroupCalls, gum_group_create, gum_group_get, gum_group_get_by_name,
        gum_group_add, gum_group_delete, gum_group_update, gum_group_add_member,
        gum_group_delete_member, gum_group_get_sync,
        gum_group_get_by_name_sync, gum_group_add_sync, gum_group_delete_sync,
        gum_group_update_sync, gum_group_add_member_sync, gum_group_delete_member_sync

\* What the service does is of no concern to the objects.
LEMMA ServiceAdds ==
    ASSUME CallsInv, AddInv, ServiceCalls \/ ServiceCallbacks \/ UNCHANGED callVars
    PROVE  AddInv'
<1>1. UNCHANGED <<object, call, inbox>>
    BY DEF callVars, ServiceCalls, gum_user_service_create, gum_user_service_get_user_list,
           gum_user_service_create_sync, gum_user_service_get_user_list_sync, AppUnref,
           ServiceCallbacks, ServiceDbusProxyCallback, ServiceTriggerCallback,
           TriggerUserListCallback, FreedSourceRuns
<1>2. KeepsAnnounced
    BY <1>1, GrownInbox
<1>3. QED
    BY <1>1, <1>2, ObjectsStay

\* The reply to a list is sent.
LEMMA ServeListAdds ==
    ASSUME CallsInv, AddInv, NEW c \in ServiceCall, ServeList(c)
    PROVE  AddInv'
<1>1. inbox' = Append(inbox, Reply(c)) /\ UNCHANGED <<object, call>> /\ inbox \in Seq(Message)
    BY DEF ServeList, CallsInv, CallsTypeOK
<1>2. Append(inbox, Reply(c)) = inbox \o <<Reply(c)>> /\ <<Reply(c)>> \in Seq(Message)
    BY <1>1, ReplyIsMessage DEF AnyCall
<1>3. KeepsAnnounced
    BY <1>1, <1>2, GrownInbox
<1>4. QED
    BY <1>1, <1>3, ObjectsStay

\* The main loop takes a message.
LEMMA DeliverAdds ==
    ASSUME CallsInv, AddInv, Deliver
    PROVE  AddInv'
<1>1. PICK m : m = Head(inbox)
    OBVIOUS
<1>2. inbox # <<>> /\ inbox' = Tail(inbox) /\ inbox \in Seq(Message) /\ m \in Message
    BY <1>1, TakeMessage DEF Deliver, CallsInv, CallsTypeOK
<1>3. CASE m.type # "reply" /\ DeliverSignal(m)
    BY <1>1, <1>2, <1>3, DeliverSignalAdds
<1>4. CASE m.type = "reply" /\ m.call \in ServiceCall /\ OnGetUserListCb(m.call)
  <2>1. UNCHANGED <<object, call>>
      BY <1>4 DEF OnGetUserListCb
  <2>2. KeepsAnnounced
    <3>1. \A x : Head(inbox) # Changed(x)
        BY <1>1, <1>4 DEF Changed
    <3>2. QED
        BY <1>2, <3>1, TakenInbox
  <2>3. QED
      BY <2>1, <2>2, ObjectsStay
<1>5. CASE /\ m.type = "reply" /\ m.call \in Call
           /\ \/ call[m.call].kind \in Makers /\ OnMade(call[m.call].object, m.call)
              \/ OnRequested(call[m.call].object, m.call)
  <2>1. Head(inbox) = Reply(m.call)
      BY <1>1, <1>2, <1>5, ReplyMessage
  <2>2. QED
      BY <1>2, <1>5, <2>1, OnMadeAdds, OnRequestedAdds
<1>6. QED
    BY <1>1, <1>3, <1>4, <1>5
    DEF Deliver, OnMakeUserCb, OnUserRequestCb, OnMakeGroupCb, OnGroupRequestCb

\* Every step.
LEMMA NextAdds ==
    ASSUME CallsInv, AddInv, [Next]_vars
    PROVE  AddInv'
<1>1. ASSUME NEW o \in ClientObject, ObjectCallback(o)
      PROVE  AddInv'
  <2>1. /\ Live(o) /\ sources[o] > 0
        /\ object' = [object EXCEPT ![o].op.cb_id = FALSE]
        /\ UNCHANGED <<call, inbox>>
      BY <1>1 DEF ObjectCallback, UserTriggerCallback, GroupTriggerCallback
  <2>2. QED
      BY <2>1, TriggerAdds
<1>2. CASE Next
    BY <1>1, <1>2, UserCallsAdds, GroupCallsAdds, ServiceAdds, DeliverAdds, ServeAdds,
       TimesOutAdds, AdapterGoesAdds, ServeListAdds DEF Next, Answered
<1>3. CASE UNCHANGED vars
    BY <1>3, ServiceAdds DEF vars
<1>4. QED
    BY <1>2, <1>3

\* A callback that was told of an add finds the id: its operation was answered,
\* and the reply is not in the inbox any more, nor is the change before it.
LEMMA AddsAreKnown ==
    ASSUME CallsInv, AddInv
    PROVE  AddedIsKnown
<1>1. SUFFICES ASSUME NEW c \in Call, NEW o, o = call[c].object,
                      told[c] = "ok", call[c].kind = "add",
                      Live(o), object[o].proxy, object[o].op # None, object[o].op.call = c
               PROVE  object[o].id
    BY DEF AddedIsKnown
<1>2. CallIsSomewhere(c) /\ AddIsAnnounced(c)
    BY DEF CallsInv, AddInv
<1>3. call[c] # None /\ call[c] \in CallFields
    BY <1>1, <1>2 DEF CallIsSomewhere, CallsInv, CallsTypeOK
<1>4. call[c].answer # "cancelled"
    BY <1>1, <1>3 DEF CallsInv, OperationsAreOfCalls, CallFields
<1>5. call[c].answer = "ok" /\ ~Queued(inbox, c)
    BY <1>1, <1>2, <1>3, <1>4 DEF CallIsSomewhere, CallFields
<1>6. ~Announced(inbox, o, c)
    BY <1>5 DEF Announced, Queued
<1>7. AtWork(c)
    BY <1>1 DEF AtWork
<1>8. QED
    BY <1>1, <1>2, <1>3, <1>5, <1>6, <1>7 DEF AddIsAnnounced


-----------------------------------------------------------------------------
(***************************************************************************)
(* Theorems                                                                *)
(***************************************************************************)

\* A client begins without objects and calls.
LEMMA InitCalls ==
    ASSUME Init
    PROVE  CallsInv
<1>1. CallsTypeOK /\ IsFiniteSet(made)
    BY FS_EmptySet DEF Init, CallsInit, CallsTypeOK
<1>2. SourcesAreKnown /\ OperationsAreOfCalls
    BY DEF Init, CallsInit, SourcesAreKnown, OperationsAreOfCalls, Live
<1>3. \A c \in Call : CallIsSomewhere(c)
    BY DEF Init, CallsInit, CallIsSomewhere, Once, Queued
<1>4. QED
    BY <1>1, <1>2, <1>3 DEF CallsInv

\* A client begins without the service.
LEMMA InitService ==
    ASSUME Init
    PROVE  ServiceInv
<1>1. ServiceTypeOK /\ ServiceSourcesKnown /\ service = None /\ app = {} /\ inbox = <<>>
    BY DEF Init, ServiceInit, CallsInit, ServiceTypeOK, ServiceSourcesKnown
<1>2. OnlineUsers = {}
    BY DEF Init, CallsInit, OnlineUsers, Live, ClientObject
<1>3. ServiceIsReferredTo
    BY <1>1, <1>2, FS_EmptySet DEF ServiceIsReferredTo
<1>4. ServiceCallsAnswered
    BY <1>1 DEF ServiceCallsAnswered, Queued
<1>5. QED
    BY <1>1, <1>3, <1>4 DEF ServiceInv

\* The calls are new at first.
LEMMA InitStatus ==
    ASSUME Init
    PROVE  Calls!Init
<1>1. \A c \in Call : CallStatus(c) = "new"
    BY DEF Init, CallsInit, CallStatus
<1>2. QED
    BY <1>1 DEF Calls!Init

\* One step of the client.
LEMMA NextStep ==
    ASSUME ClientInv, Next
    PROVE  ClientInv' /\ StatusMoves
<1>1. CallsInv /\ ServiceInv
    BY DEF ClientInv
<1>2. CASE \E u \in UserObject : UserCalls(u)
    BY <1>1, <1>2, UserCallsStep DEF ClientInv
<1>3. CASE \E g \in GroupObject : GroupCalls(g)
    BY <1>1, <1>3, GroupCallsStep DEF ClientInv
<1>4. CASE ServiceCalls
    BY <1>1, <1>4, ServiceCallsStep DEF ClientInv
<1>5. CASE Deliver
    BY <1>1, <1>5, DeliverStep DEF ClientInv
<1>6. CASE \E o \in ClientObject : ObjectCallback(o)
    BY <1>1, <1>6, ObjectCallbackStep DEF ClientInv
<1>7. CASE ServiceCallbacks
    BY <1>1, <1>7, ServiceCallbacksStep DEF ClientInv
<1>8. CASE \E c \in Call : Answered(c)
  <2>1. PICK c \in Call : (Serve(c) \/ TimesOut(c)) /\ UNCHANGED serviceVars
      BY <1>8 DEF Answered
  <2>2. CallsInv' /\ StatusMoves
      BY <1>1, <2>1, ServeStep, TimesOutStep
  <2>3. NoListReply /\ OnlineUsers' = OnlineUsers
      BY <1>1, <2>1, ServeBringsNoList, TimesOutBringsNoList
  <2>4. QED
      BY <1>1, <2>1, <2>2, <2>3, ServiceUntouched DEF ClientInv
<1>9. CASE \E o \in ClientObject : AdapterGoes(o) /\ UNCHANGED serviceVars
    BY <1>1, <1>9, AdapterGoesStep, AdapterGoesBringsNoList, ServiceUntouched DEF ClientInv
<1>10. CASE \E c \in ServiceCall : ServeList(c)
  <2>1. PICK c \in ServiceCall : ServeList(c)
      BY <1>10
  <2>2. /\ UNCHANGED <<object, made, sources, remote, call, told>>
        /\ inbox' = Append(inbox, Reply(c))
      BY <2>1 DEF ServeList
  <2>3. CallsInv' /\ StatusMoves
      BY <1>1, <2>2, ServiceCallStep
  <2>4. QED
      BY <1>1, <2>1, <2>3, ServeListStep DEF ClientInv
<1>11. QED
    BY <1>2, <1>3, <1>4, <1>5, <1>6, <1>7, <1>8, <1>9, <1>10 DEF Next

\* A step that changes nothing.
LEMMA StutterStep ==
    ASSUME ClientInv, UNCHANGED vars
    PROVE  ClientInv' /\ StatusMoves
<1>1. UNCHANGED callVars /\ UNCHANGED serviceVars
    BY DEF vars
<1>2. /\ UNCHANGED <<object, made, sources, remote, call>>
      /\ told' = told /\ inbox' = inbox
    BY <1>1 DEF callVars
<1>3. CallsInv' /\ StatusMoves
    BY <1>2, ServiceCallStep DEF ClientInv
<1>4. OnlineUsers' = OnlineUsers /\ NoListReply
    BY <1>2 DEF OnlineUsers, Live, NoListReply
<1>5. QED
    BY <1>1, <1>3, <1>4, ServiceUntouched DEF ClientInv

\* A move of one call is a step of AsyncCalls.
LEMMA StatusStep ==
    ASSUME StatusMoves
    PROVE  [Calls!Next]_[c \in Call |-> CallStatus(c)]
<1>1. PICK s, t : s = [c \in Call |-> CallStatus(c)] /\ t = [c \in Call |-> CallStatus(c)']
    OBVIOUS
<1>2. CASE \A c \in Call : ~Moves(c)
  <2>1. s = t
      BY <1>1, <1>2 DEF Moves
  <2>2. QED
      BY <1>1, <2>1
<1>3. CASE \E c \in Call : Moves(c)
  <2>1. PICK c \in Call : Moves(c)
      BY <1>3
  <2>2. \A d \in Call : d # c => CallStatus(d)' = CallStatus(d)
      BY <2>1 DEF StatusMoves, Moves
  <2>3. PICK a, b : a = CallStatus(c) /\ b = CallStatus(c)'
      OBVIOUS
  <2>4. s[c] = a /\ t = [s EXCEPT ![c] = b]
      BY <1>1, <2>2, <2>3
  <2>5. MayBecome(a, b)
      BY <2>1, <2>3 DEF StatusMoves
  <2>6. CASE a = "new" /\ b = "pending"
      BY <1>1, <2>4, <2>6 DEF Calls!Next, Calls!Make
  <2>7. CASE a = "pending" /\ b \in {"ok", "failed"}
      BY <1>1, <2>4, <2>7 DEF Calls!Next, Calls!Answer, Calls!Answers
  <2>8. CASE \/ a = "ok" /\ b = "told_ok"
             \/ a = "failed" /\ b = "told_failed"
    <3>1. s[c] \in Calls!Answers /\ b = Calls!Told[s[c]]
        BY <2>4, <2>8 DEF Calls!Answers, Calls!Told
    <3>2. Calls!Tell(c)
        BY <1>1, <2>4, <3>1 DEF Calls!Tell
    <3>3. QED
        BY <3>2 DEF Calls!Next
  <2>9. CASE a \in {"new", "pending", "ok", "failed"} /\ b = "dropped"
      BY <1>1, <2>4, <2>9 DEF Calls!Next, Calls!Drop, Calls!Undecided, Calls!Answers
  <2>10. QED
      BY <2>5, <2>6, <2>7, <2>8, <2>9 DEF MayBecome
<1>4. QED
    BY <1>2, <1>3

\* The invariant behind the theorems of the client: where every call is.
THEOREM ClientInvariant == Spec => []ClientInv
<1>1. Init => ClientInv
    BY InitCalls, InitService DEF ClientInv
<1>2. ClientInv /\ [Next]_vars => ClientInv'
    BY NextStep, StutterStep
<1>3. QED
    BY <1>1, <1>2, PTL DEF Spec

\* Type correctness of the client library.
THEOREM ClientTypeCorrect == Spec => []ClientTypeOK
<1>1. ClientInv => ClientTypeOK
    BY DEF ClientInv, CallsInv, ServiceInv, ClientTypeOK
<1>2. QED
    BY <1>1, ClientInvariant, PTL

\* The one idle source an object can have in the main loop is the one that its
\* operation knows and its disposal removes (_free_op, _dispose).
THEOREM SourcesAlwaysKnown == Spec => []SourcesAreKnown
<1>1. ClientInv => SourcesAreKnown
    BY DEF ClientInv, CallsInv
<1>2. QED
    BY <1>1, ClientInvariant, PTL

\* The singleton service is there while an application, an online user object
\* or a list refers to it (_constructor, _dispose).
THEOREM ServiceAlwaysReferredTo == Spec => []ServiceIsReferredTo
<1>1. ClientInv => ServiceIsReferredTo
    BY DEF ClientInv, ServiceInv
<1>2. QED
    BY <1>1, ClientInvariant, PTL

\* The client library implements AsyncCalls: the callback of a call on an object
\* is told its own answer, at most once, and not after the object was dropped.
THEOREM ClientImplementsAsyncCalls == Spec => CallsAreTold
<1>1. Init => Calls!Init
    BY InitStatus
<1>2. ClientInv /\ [Next]_vars => [Calls!Next]_[c \in Call |-> CallStatus(c)]
    BY NextStep, StutterStep, StatusStep
<1>3. QED
    BY <1>1, <1>2, ClientInvariant, PTL DEF Spec, CallsAreTold, Calls!Spec
\* When the callback of an add is told that it was done, the new id can be read:
\* the change of the properties was sent before the reply (_handle_add_user),
\* and the callback waits for its idle source (_setup_idle_callback).
THEOREM AddedAlwaysKnown == Spec => []AddedIsKnown
<1>1. Init => AddInv
    BY DEF Init, CallsInit, AddInv, AddIsAnnounced
<1>2. ClientInv /\ AddInv /\ [Next]_vars => AddInv'
    BY NextAdds DEF ClientInv
<1>3. ClientInv /\ AddInv => AddedIsKnown
    BY AddsAreKnown DEF ClientInv
<1>4. QED
    BY <1>1, <1>2, <1>3, ClientInvariant, PTL DEF Spec
=============================================================================
