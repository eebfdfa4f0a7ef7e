-------------------------- MODULE VpnDnsRequests_proofs --------------------------
(***************************************************************************)
(* VpnDnsMode implements VpnDnsRequests.  The argument is one total order:  *)
(* the answers not read yet, the request in progress, the queue and the     *)
(* requests on their way are, in this sequence, in the order the requests   *)
(* were made.                                                               *)
(*                                                                         *)
(* On this order rest the other facts of requests that follow: what waits   *)
(* in the queue, how generations compare, and what is left of a connection  *)
(* that is gone.                                                            *)
(***************************************************************************)
EXTENDS VpnDnsMode_proofs

-----------------------------------------------------------------------------
(* What a channel holds *)

LEMMA QueuedAppend ==
  ASSUME NEW S, NEW s \in Seq(S), NEW x \in S
  PROVE  QueuedIn(Append(s, x)) = QueuedIn(s) \cup {x}
  BY DEF QueuedIn

LEMMA QueuedTail ==
  ASSUME NEW S, NEW s \in Seq(S), s # <<>>
  PROVE  QueuedIn(s) = QueuedIn(Tail(s)) \cup {Head(s)}
  <1>1. Len(Tail(s)) = Len(s) - 1 /\ Len(s) \in Nat \ {0}
    OBVIOUS
  <1>2. \A i \in 1..Len(Tail(s)) : Tail(s)[i] = s[i + 1]
    OBVIOUS
  <1>3. ASSUME NEW i \in 1..Len(s) PROVE s[i] \in QueuedIn(Tail(s)) \cup {Head(s)}
    <2>1. CASE i = 1
      BY <2>1
    <2>2. CASE i # 1
      <3>1. i - 1 \in 1..Len(Tail(s)) /\ Tail(s)[i - 1] = s[i]
        BY <1>1, <1>2, <2>2
      <3>2. QED
        BY <3>1 DEF QueuedIn
    <2>3. QED
      BY <2>1, <2>2
  <1>4. ASSUME NEW i \in 1..Len(Tail(s)) PROVE Tail(s)[i] \in QueuedIn(s)
    <2>1. i + 1 \in 1..Len(s)
      BY <1>1
    <2>2. QED
      BY <2>1, <1>2 DEF QueuedIn
  <1>5. Head(s) \in QueuedIn(s)
    BY <1>1 DEF QueuedIn
  <1>6. QED
    BY <1>3, <1>4, <1>5 DEF QueuedIn

\* The three orders a channel keeps.
AnswersInOrder(channel) ==
  \A i, j \in 1..Len(channel) : i < j => channel[i].sn < channel[j].sn

AppliesInOrder(channel) ==
  \A i, j \in 1..Len(channel) :
    i < j /\ channel[i].kind = "apply" /\ channel[j].kind = "apply"
      => channel[i].req.sn < channel[j].req.sn

StopIsLast(channel) ==
  \A i \in 1..Len(channel) : channel[i].kind = "stop" => i = Len(channel)

LEMMA InOrderTail ==
  ASSUME NEW S, NEW s \in Seq(S), s # <<>>
  PROVE  /\ AnswersInOrder(s) => AnswersInOrder(Tail(s))
         /\ AppliesInOrder(s) => AppliesInOrder(Tail(s))
         /\ StopIsLast(s) => StopIsLast(Tail(s))
  <1>1. /\ Len(Tail(s)) = Len(s) - 1 /\ Len(s) \in Nat \ {0}
        /\ \A i \in 1..Len(Tail(s)) : i + 1 \in 1..Len(s) /\ Tail(s)[i] = s[i + 1]
    OBVIOUS
  <1>2. AnswersInOrder(s) => AnswersInOrder(Tail(s))
    BY <1>1 DEF AnswersInOrder
  <1>3. AppliesInOrder(s) => AppliesInOrder(Tail(s))
    <2> SUFFICES ASSUME AppliesInOrder(s), NEW i \in 1..Len(Tail(s)), NEW j \in 1..Len(Tail(s)),
                        i < j, Tail(s)[i].kind = "apply", Tail(s)[j].kind = "apply"
                 PROVE  Tail(s)[i].req.sn < Tail(s)[j].req.sn
      BY DEF AppliesInOrder
    <2>1. i + 1 \in 1..Len(s) /\ j + 1 \in 1..Len(s) /\ i + 1 < j + 1
      BY <1>1
    <2>2. s[i + 1] = Tail(s)[i] /\ s[j + 1] = Tail(s)[j]
      BY <1>1
    <2>3. QED
      BY <2>1, <2>2 DEF AppliesInOrder
  <1>4. StopIsLast(s) => StopIsLast(Tail(s))
    <2> SUFFICES ASSUME StopIsLast(s), NEW i \in 1..Len(Tail(s)), Tail(s)[i].kind = "stop"
                 PROVE  i = Len(Tail(s))
      BY DEF StopIsLast
    <2>1. i + 1 \in 1..Len(s) /\ s[i + 1] = Tail(s)[i]
      BY <1>1
    <2>2. i + 1 = Len(s)
      BY <2>1 DEF StopIsLast
    <2>3. Len(Tail(s)) = Len(s) - 1 /\ i \in Int /\ Len(s) \in Int
      BY <1>1
    <2>4. QED
      BY <2>2, <2>3
  <1>5. QED
    BY <1>2, <1>3, <1>4

\* The head comes before everything else.
LEMMA AnswersHead ==
  ASSUME NEW s \in Seq(Answer), s # <<>>, AnswersInOrder(s)
  PROVE  \A m \in QueuedIn(Tail(s)) : Head(s).sn < m.sn
  <1>1. /\ Len(Tail(s)) = Len(s) - 1 /\ Len(s) \in Nat \ {0}
        /\ \A i \in 1..Len(Tail(s)) : i + 1 \in 1..Len(s) /\ Tail(s)[i] = s[i + 1]
    OBVIOUS
  <1>2. \A i \in 1..Len(Tail(s)) : s[1].sn < s[i + 1].sn
    BY <1>1 DEF AnswersInOrder
  <1>3. QED
    BY <1>1, <1>2 DEF QueuedIn

LEMMA AppliesHead ==
  ASSUME NEW s \in Seq(Message), s # <<>>, AppliesInOrder(s), Head(s).kind = "apply"
  PROVE  \A r \in AppliesIn(Tail(s)) : Head(s).req.sn < r.sn
  <1>1. /\ Len(Tail(s)) = Len(s) - 1 /\ Len(s) \in Nat \ {0}
        /\ \A i \in 1..Len(Tail(s)) : i + 1 \in 1..Len(s) /\ Tail(s)[i] = s[i + 1]
    OBVIOUS
  <1>2. \A i \in 1..Len(Tail(s)) : s[i + 1].kind = "apply" => s[1].req.sn < s[i + 1].req.sn
    BY <1>1 DEF AppliesInOrder
  <1>3. QED
    BY <1>1, <1>2 DEF AppliesIn, QueuedIn

\* What Append adds to a channel that is in order.
LEMMA AnswersAppend ==
  ASSUME NEW s \in Seq(Answer), NEW m \in Answer, AnswersInOrder(s),
         \A x \in QueuedIn(s) : x.sn < m.sn
  PROVE  AnswersInOrder(Append(s, m))
  BY DEF AnswersInOrder, QueuedIn

LEMMA MessageAppend ==
  ASSUME NEW s \in Seq(Message), NEW m \in Message, AppliesInOrder(s), StopIsLast(s),
         m.kind = "apply" => \A r \in AppliesIn(s) : r.sn < m.req.sn,
         \A x \in QueuedIn(s) : x.kind # "stop"
  PROVE  AppliesInOrder(Append(s, m)) /\ StopIsLast(Append(s, m))
  <1>1. \A i \in 1..Len(s) : s[i] \in QueuedIn(s) /\ (s[i].kind = "apply" => s[i].req \in AppliesIn(s))
    BY DEF QueuedIn, AppliesIn
  <1>2. /\ Len(Append(s, m)) = Len(s) + 1 /\ Append(s, m)[Len(s) + 1] = m /\ Len(s) \in Nat
        /\ \A i \in 1..Len(s) : Append(s, m)[i] = s[i]
    OBVIOUS
  <1>3. AppliesInOrder(Append(s, m))
    BY <1>1, <1>2 DEF AppliesInOrder
  <1>4. StopIsLast(Append(s, m))
    BY <1>1, <1>2 DEF StopIsLast
  <1>5. QED
    BY <1>3, <1>4

LEMMA AppliesTail ==
  ASSUME NEW s \in Seq(Message), s # <<>>
  PROVE  /\ Head(s).kind = "apply" => AppliesIn(s) = AppliesIn(Tail(s)) \cup {Head(s).req}
         /\ Head(s).kind # "apply" => AppliesIn(s) = AppliesIn(Tail(s))
  BY QueuedTail DEF AppliesIn

LEMMA AppliesAppend ==
  ASSUME NEW s \in Seq(Message), NEW m \in Message
  PROVE  /\ m.kind = "apply" => AppliesIn(Append(s, m)) = AppliesIn(s) \cup {m.req}
         /\ m.kind # "apply" => AppliesIn(Append(s, m)) = AppliesIn(s)
  BY QueuedAppend DEF AppliesIn

LEMMA AppliesType ==
  ASSUME NEW s \in Seq(Message)
  PROVE  AppliesIn(s) \subseteq Request
  BY DEF AppliesIn, QueuedIn, Message

-----------------------------------------------------------------------------
(* The inductive invariant *)

Below(S, T) == \A m \in S, n \in T : m.sn < n.sn

Pipeline ==
  /\ AnswersInOrder(toHandler) /\ AppliesInOrder(toWorker) /\ StopIsLast(toWorker)
  /\ alive => \A m \in QueuedIn(toWorker) : m.kind # "stop"
  /\ Below(QueuedIn(toHandler), active \cup pending \cup Applies)
  /\ Below(active, pending \cup Applies)
  /\ Below(pending, Applies)
  /\ \A q, r \in pending : q.sn = r.sn => q = r
  /\ \A r \in QueuedIn(toHandler) \cup active \cup pending \cup Applies : r.sn <= issued
  /\ invalidated => active # {}

LEMMA InitPipeline == Init => Pipeline
  BY DEF Init, WorkerInit, Pipeline, AnswersInOrder, AppliesInOrder, StopIsLast, Below,
         Applies, AppliesIn, QueuedIn

\* Taking a message out of the channel to the worker.
LEMMA ReceiveOrder ==
  ASSUME TypeOK, Pipeline, NEW kind, WorkerReceive(kind)
  PROVE  /\ AppliesInOrder(toWorker') /\ StopIsLast(toWorker')
         /\ alive' => \A m \in QueuedIn(toWorker') : m.kind # "stop"
         /\ kind = "apply" => /\ Applies = AppliesIn(toWorker') \cup {Head(toWorker).req}
                              /\ \A r \in AppliesIn(toWorker') : Head(toWorker).req.sn < r.sn
         /\ kind # "apply" => AppliesIn(toWorker') = Applies
         /\ kind = "stop" => Applies = {}
         /\ UNCHANGED <<toHandler, alive>>
  <1>1. /\ toWorker \in Seq(Message) /\ toWorker # <<>> /\ toWorker' = Tail(toWorker)
        /\ Head(toWorker).kind = kind /\ UNCHANGED <<toHandler, alive>>
    BY DEF WorkerReceive, TypeOK
  <1>2. AppliesInOrder(toWorker') /\ StopIsLast(toWorker')
    BY <1>1, InOrderTail DEF Pipeline
  <1>3. alive' => \A m \in QueuedIn(toWorker') : m.kind # "stop"
    BY <1>1, QueuedTail DEF Pipeline
  <1>4. kind = "apply" => /\ Applies = AppliesIn(toWorker') \cup {Head(toWorker).req}
                          /\ \A r \in AppliesIn(toWorker') : Head(toWorker).req.sn < r.sn
    BY <1>1, AppliesTail, AppliesHead DEF Pipeline, Applies
  <1>5. kind # "apply" => AppliesIn(toWorker') = Applies
    BY <1>1, AppliesTail DEF Applies
  <1>6. ASSUME kind = "stop" PROVE Applies = {}
    <2>1. Len(toWorker) = 1
      <3>1. 1 \in 1..Len(toWorker) /\ toWorker[1] = Head(toWorker)
        BY <1>1
      <3>2. QED
        BY <1>1, <1>6, <3>1 DEF Pipeline, StopIsLast
    <2>2. Tail(toWorker) = <<>>
      BY <1>1, <2>1
    <2>3. AppliesIn(<<>>) = {}
      BY DEF AppliesIn, QueuedIn
    <2>4. QED
      BY <1>1, <1>5, <1>6, <2>2, <2>3
  <1>7. QED
    BY <1>1, <1>2, <1>3, <1>4, <1>5, <1>6

\* Reporting the result of a request that comes after every answer not read yet.
LEMMA ReportOrder ==
  ASSUME TypeOK, AnswersInOrder(toHandler), NEW r \in Request, NEW result \in Results,
         Finish(r, result), \A m \in QueuedIn(toHandler) : m.sn < r.sn
  PROVE  /\ AnswersInOrder(toHandler')
         /\ \A m \in QueuedIn(toHandler') : m \in QueuedIn(toHandler) \/ m.sn = r.sn
         /\ Sns(QueuedIn(toHandler')) \in {Sns(QueuedIn(toHandler)), Sns(QueuedIn(toHandler)) \cup {r.sn}}
  <1> DEFINE m == [profile |-> r.profile, gen |-> r.gen, prio |-> r.prio, sn |-> r.sn, result |-> result]
  <1>1. m \in Answer /\ m.sn = r.sn
    BY DEF Request, Answer
  <1>2. CASE UNCHANGED toHandler
    BY <1>2
  <1>3. CASE toHandler' = Append(toHandler, m)
    <2>1. QueuedIn(toHandler') = QueuedIn(toHandler) \cup {m}
      BY <1>1, <1>3, QueuedAppend DEF TypeOK
    <2>2. AnswersInOrder(toHandler')
      BY <1>1, <1>3, AnswersAppend DEF TypeOK
    <2>3. Sns(QueuedIn(toHandler')) = Sns(QueuedIn(toHandler)) \cup {r.sn}
      BY <1>1, <2>1 DEF Sns
    <2>4. QED
      BY <1>1, <2>1, <2>2, <2>3
  <1>4. QED
    BY <1>2, <1>3 DEF Finish, Report

-----------------------------------------------------------------------------
(* Every step of the worker keeps the order and is a step of the abstract   *)
(* specification.                                                          *)

RNext == [Requests!Next]_(Requests!vars)

\* The serial number of a request is its own in the queue, so taking a request
\* out of the queue takes its number out of those waiting.
LEMMA TakeOut ==
  ASSUME TypeOK, Pipeline, NEW r \in pending
  PROVE  /\ Sns(Applies \cup (pending \ {r})) = Sns(Applies \cup pending) \ {r.sn}
         /\ r \in Request
  <1>1. r \in Request /\ Applies \subseteq Request /\ pending \subseteq Request
    BY AppliesType DEF TypeOK, Applies
  <1>2. \A q \in Applies : q.sn # r.sn
    BY <1>1 DEF Pipeline, Below, Request
  <1>3. \A q \in pending : q.sn = r.sn => q = r
    BY DEF Pipeline
  <1>4. QED
    BY <1>1, <1>2, <1>3 DEF Sns

LEMMA ReceiveStep ==
  ASSUME TypeOK, Pipeline, OnApplyDnsMode \/ RemoveConnection \/ RemoveActiveConnection,
         UNCHANGED issued
  PROVE  Pipeline' /\ RNext
  <1>1. PICK kind \in {"apply", "removeConnection", "removeActiveConnection"} : WorkerReceive(kind)
    BY DEF OnApplyDnsMode, RemoveConnection, RemoveActiveConnection
  <1>2. /\ AppliesInOrder(toWorker') /\ StopIsLast(toWorker')
        /\ alive' => \A m \in QueuedIn(toWorker') : m.kind # "stop"
        /\ UNCHANGED <<toHandler, active>>
    BY <1>1, ReceiveOrder DEF OnApplyDnsMode, RemoveConnection, RemoveActiveConnection
  <1>3. /\ Applies' \cup pending' \subseteq Applies \cup pending
        /\ Applies' \subseteq Applies
        /\ Below(pending', Applies')
        /\ \A q, r \in pending' : q.sn = r.sn => q = r
    <2>1. CASE OnApplyDnsMode
      <3>1. /\ Applies = Applies' \cup {Head(toWorker).req}
            /\ \A r \in Applies' : Head(toWorker).req.sn < r.sn
        BY <2>1, ReceiveOrder DEF OnApplyDnsMode, Applies
      <3>2. pending' \subseteq pending \cup {Head(toWorker).req}
        BY <2>1 DEF OnApplyDnsMode, Enqueue
      <3>3. Applies \cup pending \subseteq Request
        BY AppliesType DEF TypeOK, Applies
      <3>4. \A q \in pending : q.sn < Head(toWorker).req.sn
        BY <3>1 DEF Pipeline, Below
      <3>5. \A q, r \in pending' : q.sn = r.sn => q = r
        BY <3>1, <3>2, <3>3, <3>4 DEF Pipeline, Request
      <3>6. QED
        BY <3>1, <3>2, <3>5 DEF Pipeline, Below
    <2>2. CASE RemoveConnection \/ RemoveActiveConnection
      <3>1. Applies' = Applies
        BY <2>2, ReceiveOrder DEF RemoveConnection, RemoveActiveConnection, Applies
      <3>2. pending' \subseteq pending
        BY <2>2 DEF RemoveConnection, RemoveActiveConnection
      <3>3. QED
        BY <3>1, <3>2 DEF Pipeline, Below
    <2>3. QED
      BY <2>1, <2>2
  <1>4. invalidated' = invalidated \/ (invalidated' = TRUE /\ active # {})
    BY DEF OnApplyDnsMode, RemoveConnection, RemoveActiveConnection, TypeOK
  <1>5. Pipeline'
    BY <1>2, <1>3, <1>4 DEF Pipeline, Below, TypeOK
  <1>6. Requests!Drop
    <2>1. Sns(Applies \cup pending)' \subseteq Sns(Applies \cup pending)
      BY <1>3 DEF Sns
    <2>2. invalidated' = invalidated \/ invalidated' = (Sns(active) # {})
      BY <1>4 DEF Sns
    <2>3. UNCHANGED <<issued, Sns(active), Sns(QueuedIn(toHandler))>>
      BY <1>2 DEF Sns, QueuedIn
    <2>4. QED
      BY <2>1, <2>2, <2>3 DEF Requests!Drop
  <1>7. QED
    BY <1>5, <1>6 DEF RNext, Requests!Next

LEMMA StopStep ==
  ASSUME TypeOK, Pipeline, OnStop, UNCHANGED issued
  PROVE  Pipeline' /\ RNext
  <1>1. /\ AppliesInOrder(toWorker') /\ StopIsLast(toWorker')
        /\ alive' => \A m \in QueuedIn(toWorker') : m.kind # "stop"
        /\ Applies = {} /\ Applies' = {} /\ UNCHANGED toHandler
    BY ReceiveOrder DEF OnStop, Applies
  <1>2. active' = {} /\ pending' = {} /\ invalidated' = FALSE
    BY Zenon DEF OnStop
  <1>3. Pipeline'
    BY <1>1, <1>2 DEF Pipeline, Below
  <1>4. /\ Sns(Applies \cup pending)' = {} /\ Sns(active)' = {}
        /\ UNCHANGED <<issued, Sns(QueuedIn(toHandler))>>
    BY <1>1, <1>2 DEF Sns, QueuedIn
  <1>5. Requests!Stop
    BY <1>2, <1>4, Zenon DEF Requests!Stop
  <1>6. QED
    BY <1>3, <1>5 DEF RNext, Requests!Next

\* A request that ends, whether or not it had started: what is left waiting is
\* newer, so its answer goes to the end of those not read.
LEMMA EndOrder ==
  ASSUME TypeOK, Pipeline, NEW r \in Request, NEW result \in Results, Finish(r, result),
         \A m \in QueuedIn(toHandler) : m.sn < r.sn,
         \A q \in pending' \cup Applies : r.sn < q.sn,
         r.sn <= issued, pending' \subseteq pending,
         UNCHANGED <<toWorker, alive, issued>>
  PROVE  /\ Pipeline'
         /\ Sns(QueuedIn(toHandler))'
              \in {Sns(QueuedIn(toHandler)), Sns(QueuedIn(toHandler)) \cup {r.sn}}
  <1>1. /\ AnswersInOrder(toHandler')
        /\ \A m \in QueuedIn(toHandler') : m \in QueuedIn(toHandler) \/ m.sn = r.sn
        /\ Sns(QueuedIn(toHandler'))
             \in {Sns(QueuedIn(toHandler)), Sns(QueuedIn(toHandler)) \cup {r.sn}}
    BY ReportOrder DEF Pipeline
  <1>2. active' = {} /\ invalidated' = FALSE
    BY Zenon DEF Finish, ClearActive
  <1>3. Applies' = Applies
    BY DEF Applies
  <1>4. Below(QueuedIn(toHandler'), active' \cup pending' \cup Applies')
    BY <1>1, <1>2, <1>3 DEF Below, Pipeline
  <1>5. \A m \in QueuedIn(toHandler') \cup active' \cup pending' \cup Applies' : m.sn <= issued'
    BY <1>1, <1>2, <1>3 DEF Pipeline
  <1>6. Pipeline'
    BY <1>1, <1>2, <1>3, <1>4, <1>5 DEF Pipeline, Below
  <1>7. QED
    BY <1>1, <1>6

LEMMA StartStep ==
  ASSUME TypeOK, Pipeline, StartNextRequest, UNCHANGED issued
  PROVE  Pipeline' /\ RNext
  <1>1. PICK r \in pending :
          /\ NextRequest(r)
          /\ pending' = pending \ {r}
          /\ \/ /\ active' = {r} /\ invalidated' = FALSE
                /\ UNCHANGED toHandler
             \/ Finish(r, "ServiceUnavailable")
    BY DEF StartNextRequest
  <1>2. active = {} /\ UNCHANGED <<toWorker, alive>> /\ Applies' = Applies
    BY DEF StartNextRequest, Applies
  <1>3. /\ r \in Request /\ pending \subseteq Request /\ Applies \subseteq Request
        /\ Sns(Applies \cup pending)' = Sns(Applies \cup pending) \ {r.sn}
    BY <1>1, <1>2, TakeOut, AppliesType DEF TypeOK, Applies
  <1>4. \A q \in pending' \cup Applies : r.sn < q.sn
    <2>1. \A q \in pending : q # r => q.sn # r.sn /\ r.sn <= q.sn
      BY <1>1 DEF NextRequest, Pipeline
    <2>2. QED
      BY <1>1, <1>3, <2>1 DEF Pipeline, Below, Request
  <1>5. Requests!Oldest(r.sn, Sns(Applies \cup pending))
    BY <1>1, <1>3, <1>4 DEF Requests!Oldest, Sns, Request
  <1>6. Sns(active) = {} /\ r.sn \in Sns(Applies \cup pending)
    BY <1>1, <1>2 DEF Sns
  <1>7. CASE active' = {r} /\ invalidated' = FALSE /\ UNCHANGED toHandler
    <2>1. Pipeline'
      <3>1. Below(QueuedIn(toHandler'), active' \cup pending' \cup Applies')
        BY <1>1, <1>2, <1>7 DEF Pipeline, Below
      <3>2. Below(active', pending' \cup Applies') /\ Below(pending', Applies')
        BY <1>1, <1>2, <1>4, <1>7 DEF Pipeline, Below
      <3>3. \A m \in QueuedIn(toHandler') \cup active' \cup pending' \cup Applies' : m.sn <= issued'
        BY <1>1, <1>2, <1>7 DEF Pipeline
      <3>4. QED
        BY <1>1, <1>2, <1>7, <3>1, <3>2, <3>3 DEF Pipeline
    <2>2. Sns(active)' = {r.sn} /\ UNCHANGED <<issued, Sns(QueuedIn(toHandler))>>
      BY <1>7 DEF Sns, QueuedIn
    <2>3. Requests!Start
      BY <1>3, <1>5, <1>6, <1>7, <2>2, Zenon DEF Requests!Start
    <2>4. QED
      BY <2>1, <2>3 DEF RNext, Requests!Next
  <1>8. CASE Finish(r, "ServiceUnavailable")
    <2>1. /\ Pipeline'
          /\ Sns(QueuedIn(toHandler))'
               \in {Sns(QueuedIn(toHandler)), Sns(QueuedIn(toHandler)) \cup {r.sn}}
      <3>1. \A m \in QueuedIn(toHandler) : m.sn < r.sn
        BY <1>1 DEF Pipeline, Below
      <3>2. r.sn <= issued
        BY <1>1 DEF Pipeline
      <3>3. QED
        BY <1>1, <1>2, <1>3, <1>4, <1>8, <3>1, <3>2, EndOrder DEF Results, Failures
    <2>2. active' = {} /\ invalidated' = FALSE
      BY <1>8, Zenon DEF Finish, ClearActive
    <2>3. invalidated = FALSE
      BY <1>2 DEF Pipeline, TypeOK
    <2>4. UNCHANGED <<issued, Sns(active), invalidated>>
      BY <1>2, <2>2, <2>3 DEF Sns
    <2>5. Requests!Refuse
      BY <1>3, <1>5, <1>6, <2>1, <2>4, Zenon DEF Requests!Refuse
    <2>6. QED
      BY <2>1, <2>5 DEF RNext, Requests!Next
  <1>9. QED
    BY <1>1, <1>7, <1>8

\* A step that moves no request is a stutter of the abstract specification.
LEMMA KeepStep ==
  ASSUME Pipeline, UNCHANGED <<toHandler, alive, active, pending, invalidated, issued>>,
         AppliesInOrder(toWorker'), StopIsLast(toWorker'),
         alive => \A m \in QueuedIn(toWorker') : m.kind # "stop",
         AppliesIn(toWorker') = Applies
  PROVE  Pipeline' /\ RNext
  <1>1. Applies' = Applies
    BY DEF Applies
  <1>2. Pipeline'
    BY <1>1 DEF Pipeline, Below
  <1>3. UNCHANGED <<issued, Sns(Applies \cup pending), Sns(active), invalidated,
                    Sns(QueuedIn(toHandler))>>
    BY <1>1 DEF Sns, QueuedIn
  <1>4. UNCHANGED Requests!vars
    BY <1>3 DEF Requests!vars
  <1>5. QED
    BY <1>2, <1>4 DEF RNext

LEMMA StayStep ==
  ASSUME Pipeline, UNCHANGED <<toWorker, toHandler, alive, active, pending, invalidated, issued>>
  PROVE  Pipeline' /\ RNext
  <1>1. /\ AppliesInOrder(toWorker') /\ StopIsLast(toWorker')
        /\ alive => \A m \in QueuedIn(toWorker') : m.kind # "stop"
        /\ AppliesIn(toWorker') = Applies
    BY DEF Pipeline, Applies
  <1>2. QED
    BY <1>1, KeepStep

\* The answer of a call to polkit or systemd-resolved ends the request in
\* progress, or leaves it in progress.
LEMMA CallStep ==
  ASSUME TypeOK, Pipeline, NEW r \in active,
         UNCHANGED <<toWorker, alive, pending, issued>>,
         \/ invalidated /\ FinishSilently
         \/ ~invalidated /\ \E result \in Results : Finish(r, result)
         \/ UNCHANGED <<toHandler, active, invalidated>>
  PROVE  Pipeline' /\ RNext
  <1>1. r \in Request /\ active = {r}
    BY DEF TypeOK
  <1>2. Applies' = Applies
    BY DEF Applies
  <1>3. CASE invalidated /\ FinishSilently
    <2>1. active' = {} /\ invalidated' = FALSE /\ UNCHANGED toHandler
      BY <1>3, Zenon DEF FinishSilently, ClearActive
    <2>2. Pipeline'
      BY <1>2, <2>1 DEF Pipeline, Below
    <2>3. /\ Sns(active) # {} /\ Sns(active)' = {}
          /\ UNCHANGED <<issued, Sns(Applies \cup pending), Sns(QueuedIn(toHandler))>>
      BY <1>1, <1>2, <2>1 DEF Sns, QueuedIn
    <2>4. Requests!End
      BY <1>3, <2>1, <2>3, Zenon DEF Requests!End
    <2>5. QED
      BY <2>2, <2>4 DEF RNext, Requests!Next
  <1>4. ASSUME ~invalidated, NEW result \in Results, Finish(r, result)
        PROVE  Pipeline' /\ RNext
    <2>1. \A m \in QueuedIn(toHandler) : m.sn < r.sn
      BY DEF Pipeline, Below
    <2>2. \A q \in pending' \cup Applies : r.sn < q.sn
      BY DEF Pipeline, Below
    <2>3. r.sn <= issued
      BY DEF Pipeline
    <2>4. /\ Pipeline'
          /\ Sns(QueuedIn(toHandler))'
               \in {Sns(QueuedIn(toHandler)), Sns(QueuedIn(toHandler)) \cup {r.sn}}
      BY <1>1, <1>4, <2>1, <2>2, <2>3, EndOrder
    <2>5. active' = {} /\ invalidated' = FALSE
      BY <1>4, Zenon DEF Finish, ClearActive
    <2>6. /\ Sns(active) = {r.sn} /\ Sns(active)' = {}
          /\ UNCHANGED <<issued, Sns(Applies \cup pending)>>
      BY <1>1, <1>2, <2>5 DEF Sns
    <2>7. Requests!End
      <3>1. Sns(active) # {}
        BY <2>6
      <3>2. Sns(QueuedIn(toHandler))'
              \in {Sns(QueuedIn(toHandler))} \cup {Sns(QueuedIn(toHandler)) \cup Sns(active)}
        BY <2>4, <2>6
      <3>3. QED
        BY <1>4, <2>5, <2>6, <3>1, <3>2, Zenon DEF Requests!End
    <2>8. QED
      BY <2>4, <2>7 DEF RNext, Requests!Next
  <1>5. CASE UNCHANGED <<toHandler, active, invalidated>>
    BY <1>5, StayStep
  <1>6. QED
    BY <1>3, <1>4, <1>5

LEMMA WorkerPipeline ==
  ASSUME TypeOK, Pipeline, WorkerNext, UNCHANGED issued
  PROVE  Pipeline' /\ RNext
  <1>1. CASE OnApplyDnsMode \/ RemoveConnection \/ RemoveActiveConnection
    BY <1>1, ReceiveStep
  <1>2. CASE OnStop
    BY <1>2, StopStep
  <1>3. CASE StartNextRequest
    BY <1>3, StartStep
  <1>4. ASSUME NEW reply, OnPolkitCheckFinished(reply)
        PROVE  Pipeline' /\ RNext
    <2>1. PICK r \in active :
            \/ invalidated /\ FinishSilently
            \/ ~invalidated /\ Finish(r, "AuthorizationError")
            \/ ~invalidated /\ Finish(r, "AuthorizationDenied")
            \/ UNCHANGED <<toHandler, active, invalidated>>
      BY <1>4 DEF OnPolkitCheckFinished
    <2>2. UNCHANGED <<toWorker, alive, pending>>
      BY <1>4 DEF OnPolkitCheckFinished
    <2>3. QED
      BY <2>1, <2>2, CallStep DEF Results, Failures
  <1>5. ASSUME NEW reply \in Replies, OnResolvedCallFinished(reply)
        PROVE  Pipeline' /\ RNext
    <2>1. PICK r \in active :
            \/ invalidated /\ FinishSilently
            \/ ~invalidated /\ reply # "ok" /\ Finish(r, Complete(reply))
            \/ ~invalidated /\ Finish(r, "Success")
            \/ ~invalidated /\ Finish(r, Complete("Success"))
            \/ UNCHANGED <<toHandler, active, invalidated>>
      BY <1>5 DEF OnResolvedCallFinished
    <2>2. (reply # "ok" => Complete(reply) \in Results) /\ Complete("Success") \in Results
      BY RepliesAssumption DEF Complete, Failures, Results, TypeOK
    <2>3. UNCHANGED <<toWorker, alive, pending>>
      BY <1>5 DEF OnResolvedCallFinished
    <2>4. QED
      BY <2>1, <2>2, <2>3, CallStep DEF Results
  <1>6. QED
    BY <1>1, <1>2, <1>3, <1>4, <1>5 DEF WorkerNext

-----------------------------------------------------------------------------
(* The handler's own steps *)

LEMMA PostStep ==
  ASSUME TypeOK, Pipeline, alive, NEW m \in Message, m.kind \notin {"apply", "stop"}, Post(m),
         UNCHANGED <<toHandler, alive, active, pending, invalidated, issued>>
  PROVE  Pipeline' /\ RNext
  <1>1. CASE ~workerUp
    BY <1>1, StayStep DEF Post
  <1>2. CASE workerUp
    <2>1. toWorker' = Append(toWorker, m) /\ toWorker \in Seq(Message)
      BY <1>2 DEF Post, TypeOK
    <2>2. AppliesInOrder(toWorker') /\ StopIsLast(toWorker')
      BY <2>1, MessageAppend DEF Pipeline
    <2>3. alive => \A x \in QueuedIn(toWorker') : x.kind # "stop"
      BY <2>1, QueuedAppend DEF Pipeline
    <2>4. AppliesIn(toWorker') = Applies
      BY <2>1, AppliesAppend DEF Applies
    <2>5. QED
      BY <2>2, <2>3, <2>4, KeepStep
  <1>3. QED
    BY <1>1, <1>2

\* A new request is the youngest, and goes to the end of the channel.
LEMMA RequestStep ==
  ASSUME TypeOK, TypeOK', Pipeline, alive, NEW p \in Profiles, NEW a \in ActiveConns,
         NEW s \in DnsSettings, NEW isCompare \in BOOLEAN,
         RequestApplyDnsModeIfChanged(p, a, s, isCompare),
         UNCHANGED <<toHandler, alive, active, pending, invalidated>>
  PROVE  Pipeline' /\ RNext
  <1>1. CASE UNCHANGED <<toWorker, issued>>
    BY <1>1, StayStep
  <1>2. ASSUME NEW m, m.kind = "apply", m.req.sn = issued + 1,
               toWorker' = Append(toWorker, m), issued' = issued + 1
        PROVE  Pipeline' /\ RNext
    <2>1. m \in Message /\ m.req \in Request /\ toWorker \in Seq(Message) /\ issued \in Nat
      <3>1. toWorker' \in Seq(Message) /\ toWorker \in Seq(Message) /\ issued \in Nat
        BY DEF TypeOK
      <3>2. Len(toWorker) + 1 \in 1..Len(toWorker')
        BY <1>2, <3>1
      <3>3. toWorker'[Len(toWorker) + 1] = m
        BY <1>2, <3>1
      <3>4. m \in Message
        BY <3>1, <3>2, <3>3
      <3>5. QED
        BY <1>2, <3>1, <3>4 DEF Message
    <2>2. Applies' = Applies \cup {m.req} /\ Applies \subseteq Request
      BY <1>2, <2>1, AppliesAppend, AppliesType DEF Applies
    <2>3. \A r \in Applies : r.sn < m.req.sn
      BY <1>2, <2>1, <2>2 DEF Pipeline, Request
    <2>4. AppliesInOrder(toWorker') /\ StopIsLast(toWorker')
      BY <1>2, <2>1, <2>3, MessageAppend DEF Pipeline, Applies
    <2>5. \A x \in QueuedIn(toWorker') : x.kind # "stop"
      BY <1>2, <2>1, QueuedAppend DEF Pipeline
    <2>6. \A r \in QueuedIn(toHandler) \cup active \cup pending : r.sn <= issued /\ r.sn \in Nat
      <3>1. QueuedIn(toHandler) \subseteq Answer
        BY DEF QueuedIn, TypeOK
      <3>2. QED
        BY <3>1 DEF Pipeline, TypeOK, Request, Answer
    <2>7. \A r \in QueuedIn(toHandler) \cup active \cup pending : r.sn < m.req.sn
      BY <1>2, <2>1, <2>6
    <2>8. /\ Below(QueuedIn(toHandler), active \cup pending \cup Applies')
          /\ Below(active, pending \cup Applies') /\ Below(pending, Applies')
      BY <2>2, <2>7 DEF Pipeline, Below
    <2>9. \A r \in QueuedIn(toHandler) \cup active \cup pending \cup Applies' : r.sn <= issued'
      <3>1. \A r \in Applies : r.sn <= issued /\ r.sn \in Nat
        BY <2>2 DEF Pipeline, Request
      <3>2. QED
        BY <1>2, <2>1, <2>2, <2>6, <3>1
    <2>10. Pipeline'
      BY <2>4, <2>5, <2>8, <2>9 DEF Pipeline
    <2>11. /\ Sns(Applies \cup pending)' = Sns(Applies \cup pending) \cup {issued + 1}
           /\ UNCHANGED <<Sns(active), invalidated, Sns(QueuedIn(toHandler))>>
      BY <1>2, <2>2 DEF Sns, QueuedIn
    <2>12. Requests!Make
      BY <1>2, <2>11, Zenon DEF Requests!Make
    <2>13. QED
      BY <2>10, <2>12 DEF RNext, Requests!Next
  <1>3. CASE ~UNCHANGED <<toWorker, issued>>
    <2> DEFINE request == [profile |-> p, ac |-> a,
                           gen |-> BeginRequest([state[p] EXCEPT !.rolledBack = FALSE]).gen,
                           prio |-> EffectivePriority(s), sn |-> issued + 1]
               m == [kind |-> "apply", req |-> request]
    <2>1. toWorker' = Append(toWorker, m) /\ issued' = issued + 1
      BY <1>3 DEF RequestApplyDnsModeIfChanged
    <2>2. m.kind = "apply" /\ m.req.sn = issued + 1
      OBVIOUS
    <2>3. QED
      BY <1>2, <2>1, <2>2
  <1>4. QED
    BY <1>1, <1>3

LEMMA ReadStep ==
  ASSUME TypeOK, Pipeline, OnApplyFinished
  PROVE  Pipeline' /\ RNext
  <1>1. /\ toHandler \in Seq(Answer) /\ toHandler # <<>> /\ toHandler' = Tail(toHandler)
        /\ UNCHANGED <<toWorker, alive, active, pending, invalidated, issued>>
    BY DEF OnApplyFinished, TypeOK, workerVars
  <1>2. QueuedIn(toHandler) = QueuedIn(toHandler') \cup {Head(toHandler)}
    BY <1>1, QueuedTail
  <1>3. \A m \in QueuedIn(toHandler') : Head(toHandler).sn < m.sn
    BY <1>1, AnswersHead DEF Pipeline
  <1>4. AnswersInOrder(toHandler')
    BY <1>1, InOrderTail DEF Pipeline
  <1>5. Applies' = Applies
    BY <1>1 DEF Applies
  <1>6. Pipeline'
    BY <1>1, <1>2, <1>4, <1>5 DEF Pipeline, Below
  <1>7. QueuedIn(toHandler) \subseteq Answer
    BY <1>1 DEF QueuedIn
  <1>8. /\ Requests!Oldest(Head(toHandler).sn, Sns(QueuedIn(toHandler)))
        /\ Sns(QueuedIn(toHandler))' = Sns(QueuedIn(toHandler)) \ {Head(toHandler).sn}
    BY <1>2, <1>3, <1>7 DEF Requests!Oldest, Sns, Answer
  <1>9. UNCHANGED <<issued, Sns(Applies \cup pending), Sns(active), invalidated>>
    BY <1>1, <1>5 DEF Sns
  <1>10. Requests!Read
    <2>1. Head(toHandler).sn \in Sns(QueuedIn(toHandler))
      BY <1>2 DEF Sns
    <2>2. QED
      BY <1>8, <1>9, <2>1, Zenon DEF Requests!Read
  <1>11. QED
    BY <1>6, <1>10 DEF RNext, Requests!Next

LEMMA DestroyStep ==
  ASSUME TypeOK, Pipeline, Destroy
  PROVE  Pipeline' /\ RNext
  <1> DEFINE m == [kind |-> "stop"]
  <1>1. /\ alive' = FALSE /\ toHandler' = <<>> /\ Post(m) /\ alive
        /\ UNCHANGED <<active, pending, invalidated, issued>>
    BY Zenon DEF Destroy, workerVars, handlerVars
  <1>2. m \in Message /\ toWorker \in Seq(Message)
    BY DEF Message, TypeOK
  <1>3. /\ AppliesInOrder(toWorker') /\ StopIsLast(toWorker')
        /\ Applies' = Applies
    <2>1. CASE ~workerUp
      BY <1>1, <2>1 DEF Post, Pipeline, Applies
    <2>2. CASE workerUp
      <3>1. toWorker' = Append(toWorker, m)
        BY <1>1, <2>2 DEF Post
      <3>2. \A x \in QueuedIn(toWorker) : x.kind # "stop"
        BY <1>1 DEF Pipeline
      <3>3. QED
        BY <1>2, <3>1, <3>2, MessageAppend, AppliesAppend DEF Pipeline, Applies
    <2>3. QED
      BY <2>1, <2>2
  <1>4. QueuedIn(toHandler') = {} /\ AnswersInOrder(toHandler')
    BY <1>1 DEF QueuedIn, AnswersInOrder
  <1>5. Pipeline'
    <2>1. ~alive'
      BY <1>1, Zenon
    <2>2. QED
      BY <1>1, <1>3, <1>4, <2>1 DEF Pipeline, Below
  <1>6. /\ Sns(QueuedIn(toHandler))' = {}
        /\ UNCHANGED <<issued, Sns(Applies \cup pending), Sns(active), invalidated>>
    BY <1>1, <1>3, <1>4 DEF Sns
  <1>7. Requests!Disconnect
    BY <1>6, Zenon DEF Requests!Disconnect
  <1>8. QED
    BY <1>5, <1>7 DEF RNext, Requests!Next

LEMMA StepPipeline == TypeOK /\ TypeOK' /\ Pipeline /\ [Next]_vars => Pipeline' /\ RNext
  <1> SUFFICES ASSUME TypeOK, TypeOK', Pipeline, [Next]_vars PROVE Pipeline' /\ RNext
    OBVIOUS
  <1> USE DEF workerVars, handlerVars
  <1>1. CASE WorkerStep
    BY <1>1, WorkerPipeline DEF WorkerStep
  <1>2. CASE OnApplyFinished
    BY <1>2, ReadStep
  <1>3. CASE Destroy
    BY <1>3, DestroyStep
  <1>4. ASSUME NEW p \in Profiles, OnConnectionAdded(p) PROVE Pipeline' /\ RNext
    BY <1>4, StayStep DEF OnConnectionAdded
  <1>5. ASSUME NEW p \in Profiles, OnConnectionRemoved(p) PROVE Pipeline' /\ RNext
    <2>1. [kind |-> "removeConnection", profile |-> p] \in Message
      BY DEF Message
    <2>2. QED
      BY <1>5, <2>1, PostStep DEF OnConnectionRemoved
  <1>6. ASSUME NEW p \in Profiles, OnConnectionUpdated(p) PROVE Pipeline' /\ RNext
    <2>1. stored[p] \in DnsSettings
      BY DEF TypeOK
    <2>2. alive /\ UNCHANGED <<toHandler, alive, active, pending, invalidated>>
      BY <1>6 DEF OnConnectionUpdated
    <2>3. CASE UNCHANGED <<toWorker, issued>>
      BY <2>2, <2>3, StayStep
    <2>4. ASSUME NEW a \in ActiveConns, RequestApplyDnsModeIfChanged(p, a, stored[p], TRUE)
          PROVE  Pipeline' /\ RNext
      BY <2>1, <2>2, <2>4, RequestStep
    <2>5. QED
      BY <1>6, <2>3, <2>4 DEF OnConnectionUpdated
  <1>7. ASSUME NEW p \in Profiles, UpdateAnswered(p) PROVE Pipeline' /\ RNext
    BY <1>7, StayStep DEF UpdateAnswered
  <1>8. ASSUME NEW p \in Profiles, NEW s \in Settings, EditProfile(p, s)
        PROVE  Pipeline' /\ RNext
    BY <1>8, StayStep DEF EditProfile
  <1>9. ASSUME NEW a \in ActiveConns, OnActiveConnectionAdded(a) PROVE Pipeline' /\ RNext
    BY <1>9, StayStep DEF OnActiveConnectionAdded
  <1>10. ASSUME NEW a \in ActiveConns, Activated(a) PROVE Pipeline' /\ RNext
    BY <1>10, StayStep DEF Activated
  <1>11. ASSUME NEW a \in ActiveConns, OnVpnIp4ConfigChanged(a) PROVE Pipeline' /\ RNext
    <2>1. Owner[a] \in Profiles /\ seen[Owner[a]] \in DnsSettings
      BY OwnerAssumption DEF TypeOK
    <2>2. QED
      BY <1>11, <2>1, RequestStep DEF OnVpnIp4ConfigChanged
  <1>12. ASSUME NEW a \in ActiveConns, OnActiveConnectionRemoved(a) PROVE Pipeline' /\ RNext
    <2>1. [kind |-> "removeActiveConnection", ac |-> a] \in Message
      BY DEF Message
    <2>2. CASE a \in tracked
      BY <1>12, <2>1, <2>2, PostStep DEF OnActiveConnectionRemoved
    <2>3. CASE a \notin tracked
      BY <1>12, <2>3, StayStep DEF OnActiveConnectionRemoved
    <2>4. QED
      BY <2>2, <2>3
  <1>13. CASE UNCHANGED vars
    BY <1>13, StayStep DEF vars
  <1>14. QED
    BY <1>1, <1>2, <1>3, <1>4, <1>5, <1>6, <1>7, <1>8, <1>9, <1>10, <1>11, <1>12, <1>13 DEF Next

LEMMA InitRequests == Init => Requests!Init
  BY DEF Init, WorkerInit, Requests!Init, Applies, AppliesIn, QueuedIn, Sns

\* The order of the pipeline holds for ever ...
THEOREM PipelineHolds == Spec => []Pipeline
  BY InitTypeOK, StepTypeOK, InitPipeline, StepPipeline, PTL DEF Spec

\* ... and so every request is carried out at most once and alone, in the order
\* requests were made, and ends with at most one answer; none once it is called
\* off.
THEOREM Implements == Spec => ImplementsRequests
  <1>1. TypeOK /\ TypeOK' /\ Pipeline /\ [Next]_vars => [Requests!Next]_(Requests!vars)
    BY StepPipeline DEF RNext
  <1>2. QED
    BY <1>1, TypeCorrect, PipelineHolds, InitRequests, PTL
       DEF Spec, ImplementsRequests, Requests!Spec

-----------------------------------------------------------------------------
(* The queue *)

\* A request that waits is the one of its profile the worker has seen last.
LatestWaits ==
  \A r \in pending : /\ r.gen = latest[r.profile]
                     /\ \A q \in pending : q.profile = r.profile => q = r

LEMMA QueueStep ==
  ASSUME TypeOK, LatestWaits, [Next]_vars
  PROVE  LatestWaits'
  <1>1. CASE pending' \subseteq pending /\ UNCHANGED latest
    BY <1>1 DEF LatestWaits
  <1>2. CASE OnApplyDnsMode
    <2>1. Head(toWorker).req \in Request /\ Enqueue(Head(toWorker).req)
      <3>1. Head(toWorker) \in Message /\ Head(toWorker).kind = "apply"
        BY <1>2, TakeHead DEF OnApplyDnsMode, WorkerReceive, TypeOK
      <3> QED
        BY <1>2, <3>1 DEF OnApplyDnsMode, Message
    <2> DEFINE r == Head(toWorker).req
    <2>2. CASE r.gen > latest[r.profile]
      <3>1. /\ pending' = {q \in pending : q.profile # r.profile} \cup {r}
            /\ latest' = [latest EXCEPT ![r.profile] = r.gen]
        BY <2>1, <2>2 DEF Enqueue
      <3>2. \A q \in pending : q.profile # r.profile => latest'[q.profile] = latest[q.profile]
        BY <3>1 DEF TypeOK, Request
      <3>3. latest'[r.profile] = r.gen
        BY <2>1, <3>1 DEF TypeOK, Request
      <3> QED
        BY <3>1, <3>2, <3>3 DEF LatestWaits
    <2>3. CASE ~(r.gen > latest[r.profile])
      BY <1>1, <2>1, <2>3 DEF Enqueue
    <2> QED
      BY <2>2, <2>3
  <1>3. CASE RemoveConnection
    <2>1. PICK p : /\ pending' = {r \in pending : r.profile # p}
                   /\ latest' = [latest EXCEPT ![p] = 0]
      BY <1>3 DEF RemoveConnection
    <2>2. \A r \in pending' : latest'[r.profile] = latest[r.profile]
      BY <2>1 DEF TypeOK, Request
    <2> QED
      BY <2>1, <2>2 DEF LatestWaits
  <1>4. CASE OnStop
    BY <1>4 DEF OnStop, LatestWaits
  <1>5. CASE WorkerStep
    <2>1. CASE RemoveActiveConnection \/ StartNextRequest
      BY <1>1, <2>1 DEF RemoveActiveConnection, StartNextRequest
    <2>2. ASSUME NEW reply, OnPolkitCheckFinished(reply) \/ OnResolvedCallFinished(reply)
          PROVE  LatestWaits'
      BY <1>1, <2>2 DEF OnPolkitCheckFinished, OnResolvedCallFinished
    <2> QED
      BY <1>2, <1>3, <1>4, <1>5, <2>1, <2>2 DEF WorkerStep, WorkerNext
  <1>6. CASE UNCHANGED <<pending, latest>>
    BY <1>1, <1>6
  <1> QED
    BY <1>5, <1>6, Zenon
       DEF Next, vars, workerVars, OnApplyFinished, Destroy, OnConnectionAdded, OnConnectionRemoved,
           OnConnectionUpdated, UpdateAnswered, EditProfile, OnActiveConnectionAdded, Activated,
           OnVpnIp4ConfigChanged, OnActiveConnectionRemoved

\* Requests of a profile merge in the queue to the newest, which no request of the
\* profile in progress is newer than: for any number of profiles and removals.
THEOREM NewestWaits == Spec => []PendingIsNewest
  <1>1. Init => LatestWaits
    BY DEF Init, WorkerInit, LatestWaits
  <1>2. TypeOK /\ LatestWaits /\ [Next]_vars => LatestWaits'
    BY QueueStep
  <1>3. Pipeline /\ LatestWaits => PendingIsNewest
    BY DEF Pipeline, Below, LatestWaits, PendingIsNewest
  <1> QED
    BY <1>1, <1>2, <1>3, TypeCorrect, PipelineHolds, PTL DEF Spec

-----------------------------------------------------------------------------
(* Generations *)

\* Everything that carries the generation of a request.
Live == QueuedIn(toHandler) \cup active \cup pending \cup Applies

Same(x, y) == x.profile = y.profile /\ x.gen = y.gen /\ x.sn = y.sn

\* Whatever the worker does, it makes up no generation.
MovedOnly == \A x \in Live' : \E y \in Live : Same(x, y)

LEMMA LiveType ==
  ASSUME TypeOK
  PROVE  \A x \in Live : x.profile \in Profiles /\ x.gen \in Nat /\ x.sn \in Nat
  <1>1. QueuedIn(toHandler) \subseteq Answer
    BY DEF TypeOK, QueuedIn
  <1>2. Applies \subseteq Request
    BY AppliesType DEF TypeOK, Applies
  <1> QED
    BY <1>1, <1>2 DEF Live, TypeOK, Request, Answer

\* The answer to a request carries its generation.
LEMMA ReportMoves ==
  ASSUME TypeOK, NEW r \in Live, NEW result, Report(r, result), r \in Request
  PROVE  \A x \in QueuedIn(toHandler') : x \in QueuedIn(toHandler) \/ Same(x, r)
  <1> DEFINE m == [profile |-> r.profile, gen |-> r.gen, prio |-> r.prio, sn |-> r.sn, result |-> result]
  <1>1. CASE toHandler' = toHandler
    BY <1>1
  <1>2. CASE toHandler' = Append(toHandler, m)
    <2>1. toHandler \in Seq(Answer)
      BY DEF TypeOK
    <2>2. ASSUME NEW i \in 1..Len(toHandler')
          PROVE  toHandler'[i] = m \/ toHandler'[i] \in QueuedIn(toHandler)
      BY <1>2, <2>1 DEF QueuedIn
    <2>3. \A x \in QueuedIn(toHandler') : x = m \/ x \in QueuedIn(toHandler)
      BY <2>2 DEF QueuedIn
    <2> QED
      BY <2>3 DEF Same
  <1> QED
    BY <1>1, <1>2 DEF Report

\* What is in progress ends, or goes on.
LEMMA CallMoves ==
  ASSUME TypeOK, NEW r \in active, UNCHANGED <<toWorker, pending>>,
         \/ FinishSilently
         \/ \E result : Finish(r, result)
         \/ UNCHANGED <<toHandler, active>>
  PROVE  MovedOnly
  <1>1. r \in Live /\ r \in Request /\ Applies' = Applies
    BY DEF Live, TypeOK, Applies
  <1>2. \A x \in QueuedIn(toHandler') : x \in QueuedIn(toHandler) \/ Same(x, r)
    <2>1. CASE UNCHANGED toHandler
      BY <2>1
    <2>2. ASSUME NEW result, Finish(r, result)
          PROVE  \A x \in QueuedIn(toHandler') : x \in QueuedIn(toHandler) \/ Same(x, r)
      BY <1>1, <2>2, ReportMoves DEF Finish
    <2> QED
      BY <2>1, <2>2 DEF FinishSilently
  <1>3. active' = {} \/ active' = active
    BY DEF FinishSilently, Finish, ClearActive
  <1> QED
    BY <1>1, <1>2, <1>3 DEF MovedOnly, Live, Same

LEMMA WorkerMoves ==
  ASSUME TypeOK, Pipeline, WorkerNext
  PROVE  MovedOnly
  <1>1. CASE OnApplyDnsMode
    <2>1. /\ Applies = AppliesIn(toWorker') \cup {Head(toWorker).req} /\ UNCHANGED <<toHandler, active>>
          /\ Enqueue(Head(toWorker).req)
      BY <1>1, ReceiveOrder DEF OnApplyDnsMode
    <2>2. pending' \subseteq pending \cup {Head(toWorker).req}
      BY <2>1 DEF Enqueue
    <2> QED
      BY <2>1, <2>2 DEF MovedOnly, Live, Same, Applies
  <1>2. CASE RemoveConnection \/ RemoveActiveConnection
    <2>1. /\ AppliesIn(toWorker') = Applies /\ UNCHANGED <<toHandler, active>>
          /\ pending' \subseteq pending
      BY <1>2, ReceiveOrder DEF RemoveConnection, RemoveActiveConnection
    <2> QED
      BY <2>1 DEF MovedOnly, Live, Same, Applies
  <1>3. CASE OnStop
    <2>1. AppliesIn(toWorker') = Applies /\ UNCHANGED toHandler /\ active' = {} /\ pending' = {}
      BY <1>3, ReceiveOrder DEF OnStop
    <2> QED
      BY <2>1 DEF MovedOnly, Live, Same, Applies
  <1>4. CASE StartNextRequest
    <2>1. PICK r \in pending :
            /\ pending' = pending \ {r}
            /\ \/ active' = {r} /\ UNCHANGED toHandler
               \/ Finish(r, "ServiceUnavailable")
      BY <1>4 DEF StartNextRequest
    <2>2. r \in Live /\ r \in Request /\ Applies' = Applies
      BY <1>4 DEF Live, TypeOK, Applies, StartNextRequest
    <2>3. \A x \in QueuedIn(toHandler') : x \in QueuedIn(toHandler) \/ Same(x, r)
      BY <2>1, <2>2, ReportMoves DEF Finish
    <2>4. active' \subseteq {r}
      BY <2>1 DEF Finish, ClearActive
    <2> QED
      BY <2>1, <2>2, <2>3, <2>4 DEF MovedOnly, Live, Same
  <1>5. ASSUME NEW reply, OnPolkitCheckFinished(reply)
        PROVE  MovedOnly
    BY <1>5, CallMoves DEF OnPolkitCheckFinished
  <1>6. ASSUME NEW reply, OnResolvedCallFinished(reply)
        PROVE  MovedOnly
    BY <1>6, CallMoves DEF OnResolvedCallFinished
  <1> QED
    BY <1>1, <1>2, <1>3, <1>4, <1>5, <1>6 DEF WorkerNext


\* Of a profile that exists: the counter of the handler is ahead of every request,
\* and of what the worker has seen, which every request on its way is newer than.
GensInOrder(channel) ==
  \A i, j \in 1..Len(channel) :
    (/\ i < j /\ channel[i].kind = "apply" /\ channel[j].kind = "apply"
     /\ channel[i].req.profile = channel[j].req.profile
     /\ channel[i].req.profile \notin removed)
    => channel[i].req.gen < channel[j].req.gen

LiveCounted ==
  \A x \in Live :
    /\ x.gen >= 1
    /\ x.profile \notin removed => x.gen <= state[x.profile].gen /\ x.sn <= newest[x.profile]

LatestBehind ==
  /\ \A p \in Profiles \ removed : latest[p] <= state[p].gen
  /\ \A r \in Applies : r.profile \notin removed => latest[r.profile] < r.gen

Counted == watched \cap removed = {} /\ LiveCounted /\ LatestBehind /\ GensInOrder(toWorker)

LEMMA InitCounted == Init => Counted
  BY DEF Init, WorkerInit, Counted, LiveCounted, LatestBehind, GensInOrder, Live, Applies,
         AppliesIn, QueuedIn, FreshState

\* The handler's table and counters after a step that makes no request.
SameCounts ==
  /\ removed \subseteq removed'
  /\ \A p \in Profiles : \/ state'[p].gen = state[p].gen /\ newest'[p] = newest[p]
                         \/ state'[p].gen = 0 /\ p \in removed'

LEMMA LiveStays ==
  ASSUME TypeOK, LiveCounted, MovedOnly, SameCounts
  PROVE  LiveCounted'
  <1> SUFFICES ASSUME NEW x \in Live'
               PROVE  /\ x.gen >= 1
                      /\ x.profile \notin removed'
                         => x.gen <= state'[x.profile].gen /\ x.sn <= newest'[x.profile]
    BY DEF LiveCounted
  <1>1. PICK y \in Live : Same(x, y)
    BY DEF MovedOnly
  <1>2. y.profile \in Profiles
    BY LiveType
  <1> QED
    BY <1>1, <1>2 DEF LiveCounted, SameCounts, Same

LEMMA GensTail ==
  ASSUME toWorker \in Seq(Message), toWorker # <<>>, GensInOrder(toWorker)
  PROVE  /\ GensInOrder(Tail(toWorker))
         /\ Head(toWorker).kind = "apply" =>
              \A r \in AppliesIn(Tail(toWorker)) :
                r.profile = Head(toWorker).req.profile /\ r.profile \notin removed
                => Head(toWorker).req.gen < r.gen
  <1> DEFINE s == toWorker
  <1>1. /\ Len(Tail(s)) = Len(s) - 1 /\ Len(s) \in Nat \ {0} /\ Head(s) = s[1]
        /\ \A i \in 1..Len(Tail(s)) : i + 1 \in 1..Len(s) /\ Tail(s)[i] = s[i + 1]
    OBVIOUS
  <1>2. GensInOrder(Tail(s))
    <2> SUFFICES ASSUME NEW i \in 1..Len(Tail(s)), NEW j \in 1..Len(Tail(s)), i < j,
                        Tail(s)[i].kind = "apply", Tail(s)[j].kind = "apply",
                        Tail(s)[i].req.profile = Tail(s)[j].req.profile,
                        Tail(s)[i].req.profile \notin removed
                 PROVE  Tail(s)[i].req.gen < Tail(s)[j].req.gen
      BY DEF GensInOrder
    <2>1. i + 1 \in 1..Len(s) /\ j + 1 \in 1..Len(s) /\ i + 1 < j + 1
      BY <1>1
    <2>2. s[i + 1] = Tail(s)[i] /\ s[j + 1] = Tail(s)[j]
      BY <1>1
    <2> QED
      BY <2>1, <2>2 DEF GensInOrder
  <1>3. ASSUME Head(s).kind = "apply", NEW r \in AppliesIn(Tail(s)),
               r.profile = Head(s).req.profile, r.profile \notin removed
        PROVE  Head(s).req.gen < r.gen
    <2>1. PICK i \in 1..Len(Tail(s)) : Tail(s)[i].kind = "apply" /\ Tail(s)[i].req = r
      BY DEF AppliesIn, QueuedIn
    <2>2. i + 1 \in 1..Len(s) /\ s[i + 1] = Tail(s)[i] /\ 1 \in 1..Len(s) /\ 1 < i + 1
      BY <1>1
    <2> QED
      BY <1>1, <1>3, <2>1, <2>2 DEF GensInOrder
  <1> QED
    BY <1>2, <1>3

\* A message that is no request, and the one the worker has read, disturb no order.
LEMMA GensAppend ==
  ASSUME toWorker \in Seq(Message), NEW m \in Message, GensInOrder(toWorker),
         m.kind = "apply" => \A r \in Applies : r.profile = m.req.profile /\ r.profile \notin removed
                                                => r.gen < m.req.gen
  PROVE  GensInOrder(Append(toWorker, m))
  <1> DEFINE s == toWorker
             t == Append(s, m)
  <1>1. /\ Len(t) = Len(s) + 1 /\ t[Len(s) + 1] = m /\ Len(s) \in Nat
        /\ \A i \in 1..Len(s) : t[i] = s[i]
    OBVIOUS
  <1>2. \A i \in 1..Len(s) : s[i].kind = "apply" => s[i].req \in Applies
    BY DEF Applies, AppliesIn, QueuedIn
  <1> SUFFICES ASSUME NEW i \in 1..Len(t), NEW j \in 1..Len(t), i < j,
                      t[i].kind = "apply", t[j].kind = "apply",
                      t[i].req.profile = t[j].req.profile, t[i].req.profile \notin removed
               PROVE  t[i].req.gen < t[j].req.gen
    BY DEF GensInOrder
  <1>3. i \in 1..Len(s)
    BY <1>1
  <1>4. CASE j \in 1..Len(s)
    BY <1>1, <1>3, <1>4 DEF GensInOrder
  <1>5. CASE j = Len(s) + 1
    BY <1>1, <1>2, <1>3, <1>5
  <1> QED
    BY <1>1, <1>4, <1>5

\* The worker only takes messages out.
LEMMA WorkerCounted ==
  ASSUME TypeOK, TypeOK', Pipeline, Counted, WorkerStep
  PROVE  Counted'
  <1>1. WorkerNext /\ UNCHANGED <<watched, removed, state, newest>>
    BY DEF WorkerStep, nmVars, handlerVars
  <1>2. LiveCounted'
    BY <1>1, WorkerMoves, LiveStays DEF Counted, SameCounts
  <1>3. CASE UNCHANGED <<toWorker, latest>>
    <2>1. Applies' = Applies
      BY <1>3 DEF Applies
    <2> QED
      BY <1>1, <1>2, <1>3, <2>1 DEF Counted, LatestBehind, GensInOrder
  <1>4. ASSUME NEW kind, WorkerReceive(kind)
        PROVE  GensInOrder(toWorker)'
    <2>1. toWorker \in Seq(Message) /\ toWorker # <<>> /\ toWorker' = Tail(toWorker)
      BY <1>4 DEF WorkerReceive, TypeOK
    <2>2. GensInOrder(Tail(toWorker))
      BY <2>1, GensTail DEF Counted
    <2> QED
      BY <1>1, <2>1, <2>2 DEF GensInOrder
  <1>5. ASSUME \A p \in Profiles : latest'[p] \in {latest[p], 0}, AppliesIn(toWorker') = Applies
        PROVE  LatestBehind'
    <2>1. \A r \in Applies : r.profile \in Profiles /\ r.gen \in Nat /\ r.gen >= 1
      BY LiveType DEF Live, Counted, LiveCounted
    <2>2. \A p \in Profiles : latest[p] \in Nat /\ state[p].gen \in Nat
      BY DEF TypeOK, ApplyState
    <2> QED
      BY <1>1, <1>5, <2>1, <2>2 DEF LatestBehind, Applies, Counted
  <1>6. CASE OnApplyDnsMode
    <2> DEFINE q == Head(toWorker).req
    <2>1. /\ Applies = AppliesIn(toWorker') \cup {q} /\ WorkerReceive("apply") /\ Enqueue(q)
          /\ toWorker \in Seq(Message) /\ toWorker # <<>> /\ toWorker' = Tail(toWorker)
          /\ Head(toWorker).kind = "apply"
      BY <1>6, ReceiveOrder DEF OnApplyDnsMode, WorkerReceive, TypeOK
    <2>2. \A r \in Applies : r.profile \in Profiles /\ r.gen \in Nat /\ r \in Live
      BY LiveType DEF Live
    <2>3. \A r \in AppliesIn(toWorker') : r.profile = q.profile /\ r.profile \notin removed => q.gen < r.gen
      BY <2>1, GensTail DEF Counted
    <2>4. q \in Live /\ q.profile \in Profiles /\ q.gen \in Nat
      BY <2>1, <2>2
    <2>5. latest' = latest \/ latest' = [latest EXCEPT ![q.profile] = q.gen]
      BY <2>1 DEF Enqueue
    <2>6. \A p \in Profiles : p # q.profile => latest'[p] = latest[p]
      BY <2>4, <2>5 DEF TypeOK
    <2>7. latest'[q.profile] \in {latest[q.profile], q.gen}
      BY <2>4, <2>5 DEF TypeOK
    <2>8. q.profile \notin removed => q.gen <= state[q.profile].gen
      BY <2>4 DEF Counted, LiveCounted
    <2>9. \A p \in Profiles \ removed' : latest'[p] <= state'[p].gen
      BY <1>1, <2>6, <2>7, <2>8 DEF Counted, LatestBehind
    <2>10. \A r \in AppliesIn(toWorker') : r.profile \notin removed' => latest'[r.profile] < r.gen
      <3> SUFFICES ASSUME NEW r \in AppliesIn(toWorker'), r.profile \notin removed
                   PROVE  latest'[r.profile] < r.gen
        BY <1>1
      <3>1. r \in Applies /\ r.profile \in Profiles
        BY <2>1, <2>2
      <3>2. latest[r.profile] < r.gen
        BY <3>1 DEF Counted, LatestBehind
      <3> QED
        BY <2>3, <2>6, <2>7, <3>1, <3>2
    <2>11. LatestBehind'
      BY <2>9, <2>10 DEF LatestBehind, Applies
    <2> QED
      BY <1>1, <1>2, <1>4, <2>1, <2>11 DEF Counted
  <1>7. CASE RemoveConnection
    <2>1. WorkerReceive("removeConnection") /\ AppliesIn(toWorker') = Applies
      BY <1>7, ReceiveOrder DEF RemoveConnection
    <2>2. \A p \in Profiles : latest'[p] \in {latest[p], 0}
      BY <1>7 DEF RemoveConnection, TypeOK
    <2> QED
      BY <1>1, <1>2, <1>4, <1>5, <2>1, <2>2 DEF Counted
  <1>8. CASE RemoveActiveConnection
    <2>1. WorkerReceive("removeActiveConnection") /\ AppliesIn(toWorker') = Applies
      BY <1>8, ReceiveOrder DEF RemoveActiveConnection
    <2>2. \A p \in Profiles : latest'[p] \in {latest[p], 0}
      BY <1>8 DEF RemoveActiveConnection, TypeOK
    <2> QED
      BY <1>1, <1>2, <1>4, <1>5, <2>1, <2>2 DEF Counted
  <1>9. CASE OnStop
    <2>1. WorkerReceive("stop") /\ AppliesIn(toWorker') = Applies
      BY <1>9, ReceiveOrder DEF OnStop
    <2>2. \A p \in Profiles : latest'[p] \in {latest[p], 0}
      BY <1>9 DEF OnStop, TypeOK
    <2> QED
      BY <1>1, <1>2, <1>4, <1>5, <2>1, <2>2 DEF Counted
  <1>10. CASE StartNextRequest
    BY <1>3, <1>10 DEF StartNextRequest
  <1>11. ASSUME NEW reply, OnPolkitCheckFinished(reply) \/ OnResolvedCallFinished(reply)
         PROVE  Counted'
    BY <1>3, <1>11 DEF OnPolkitCheckFinished, OnResolvedCallFinished
  <1> QED
    BY <1>1, <1>6, <1>7, <1>8, <1>9, <1>10, <1>11 DEF WorkerNext

\* What a request is made of, and what making it leaves behind.
NewRequest(r) ==
  /\ toWorker' = Append(toWorker, [kind |-> "apply", req |-> r])
  /\ r \in Request /\ r.gen = state[r.profile].gen + 1 /\ r.sn = issued + 1
  /\ state'[r.profile].gen = r.gen /\ newest' = [newest EXCEPT ![r.profile] = r.sn]
  /\ \A p \in Profiles \ {r.profile} : state'[p] = state[p]
  /\ late' = (IF r.profile \in watched THEN late ELSE late \cup {r.sn})
  /\ workerUp'

LEMMA RequestParts ==
  ASSUME TypeOK, TypeOK', NEW p \in Profiles, NEW a \in ActiveConns,
         NEW s \in DnsSettings, NEW isCompare \in BOOLEAN,
         RequestApplyDnsModeIfChanged(p, a, s, isCompare)
  PROVE  \/ /\ UNCHANGED <<toWorker, workerUp, issued, newest, late>>
            /\ \A q \in Profiles : state'[q].gen = state[q].gen
         \/ \E r \in Request : NewRequest(r) /\ r.profile = p /\ r.ac = a
  <1> DEFINE cleared == [state[p] EXCEPT !.rolledBack = FALSE]
             begun   == BeginRequest(cleared)
             request == [profile |-> p, ac |-> a, gen |-> begun.gen,
                         prio |-> EffectivePriority(s), sn |-> issued + 1]
  <1>1. /\ state \in [Profiles -> ApplyState] /\ state[p] \in ApplyState
        /\ state[p].gen \in Nat /\ issued \in Nat
    BY DEF TypeOK, ApplyState
  <1>2. cleared \in ApplyState /\ cleared.gen = state[p].gen
    BY <1>1 DEF ApplyState
  <1>3. begun.gen = state[p].gen + 1
    BY <1>1, <1>2 DEF BeginRequest, ApplyState
  <1>4. CASE UNCHANGED <<state, toWorker, workerUp, issued, newest, late>>
    BY <1>4
  <1>5. CASE /\ state' = [state EXCEPT ![p] = cleared]
             /\ UNCHANGED <<toWorker, workerUp, issued, newest, late>>
    BY <1>1, <1>2, <1>5
  <1>6. CASE /\ state' = [state EXCEPT ![p] = begun]
             /\ workerUp' = TRUE
             /\ toWorker' = Append(toWorker, [kind |-> "apply", req |-> request])
             /\ issued' = issued + 1 /\ newest' = [newest EXCEPT ![p] = issued + 1]
             /\ late' = IF p \in watched THEN late ELSE late \cup {issued + 1}
    <2>1. EffectivePriority(s) \in Priorities
      BY PrioritiesAssumption DEF EffectivePriority, DnsSettings
    <2>2. request \in Request
      BY <1>1, <1>3, <2>1 DEF Request
    <2>3. \A q \in Profiles \ {p} : state'[q] = state[q]
      BY <1>1, <1>6
    <2>4. state'[p] = begun
      BY <1>1, <1>6
    <2> HIDE DEF begun, cleared
    <2>5. NewRequest(request)
      BY <1>3, <1>6, <2>2, <2>3, <2>4 DEF NewRequest
    <2> QED
      BY <2>2, <2>5
  <1> QED
    BY <1>4, <1>5, <1>6, Zenon DEF RequestApplyDnsModeIfChanged

\* A new request has the next generation of its profile.
LEMMA RequestCounted ==
  ASSUME TypeOK, TypeOK', Pipeline, Counted, NEW r \in Request, NewRequest(r),
         UNCHANGED <<toHandler, active, pending, latest, watched, removed>>
  PROVE  Counted'
  <1> DEFINE m == [kind |-> "apply", req |-> r]
  <1>1. /\ m \in Message /\ toWorker \in Seq(Message) /\ toWorker' = Append(toWorker, m)
        /\ r.profile \in Profiles /\ r.gen = state[r.profile].gen + 1 /\ r.sn = issued + 1
        /\ issued \in Nat /\ newest \in [Profiles -> Nat] /\ latest \in [Profiles -> Nat]
        /\ \A p \in Profiles : state[p].gen \in Nat /\ newest[p] \in Nat /\ latest[p] \in Nat
    BY DEF NewRequest, TypeOK, Message, Request, ApplyState
  <1>2. Applies' = Applies \cup {r} /\ Live' = Live \cup {r}
    <2>1. AppliesIn(toWorker') = AppliesIn(toWorker) \cup {m.req} /\ m.req = r
      BY <1>1, AppliesAppend
    <2> QED
      BY <2>1 DEF Applies, Live
  <1>3. \A x \in Live : /\ x.profile \in Profiles /\ x.gen \in Nat /\ x.sn \in Nat
                        /\ x.sn <= issued
    BY LiveType DEF Pipeline, Live
  <1>4. \A x \in Live : /\ x.gen >= 1
                        /\ x.profile \notin removed => /\ x.gen <= state[x.profile].gen
                                                       /\ x.sn <= newest[x.profile]
    BY DEF Counted, LiveCounted
  <1>5. /\ \A p \in Profiles \ {r.profile} : state'[p].gen = state[p].gen /\ newest'[p] = newest[p]
        /\ state'[r.profile].gen = r.gen /\ newest'[r.profile] = r.sn
    BY <1>1 DEF NewRequest
  <1>6. LiveCounted'
    <2> SUFFICES ASSUME NEW x \in Live'
                 PROVE  /\ x.gen >= 1
                        /\ x.profile \notin removed => /\ x.gen <= state'[x.profile].gen
                                                       /\ x.sn <= newest'[x.profile]
      BY DEF LiveCounted
    <2>1. CASE x = r
      BY <1>1, <1>5, <2>1
    <2>2. CASE x \in Live /\ x.profile = r.profile
      <3>1. x.gen \in Nat /\ x.sn \in Nat /\ x.sn <= issued /\ x.gen >= 1
        BY <1>3, <1>4, <2>2
      <3>2. r.profile \notin removed => x.gen <= state[r.profile].gen
        BY <1>4, <2>2
      <3>3. state[r.profile].gen \in Nat /\ issued \in Nat
        BY <1>1
      <3> QED
        BY <1>1, <1>5, <2>2, <3>1, <3>2, <3>3
    <2>3. CASE x \in Live /\ x.profile # r.profile
      <3>1. x.profile \in Profiles \ {r.profile} /\ x.gen >= 1
        BY <1>3, <1>4, <2>3
      <3>2. state'[x.profile].gen = state[x.profile].gen /\ newest'[x.profile] = newest[x.profile]
        BY <1>5, <3>1
      <3> QED
        BY <1>1, <1>4, <2>3, <3>1, <3>2
    <2> QED
      BY <1>2, <2>1, <2>2, <2>3
  <1>7. LatestBehind'
    <2>1. ASSUME NEW p \in Profiles \ removed PROVE latest[p] <= state'[p].gen
      <3>1. latest[p] <= state[p].gen
        BY DEF Counted, LatestBehind
      <3>2. latest[p] \in Nat /\ state[p].gen \in Nat
        BY <1>1
      <3>3. CASE p = r.profile
        <4>1. state'[p].gen = state[p].gen + 1
          BY <1>1, <1>5, <3>3
        <4> QED
          BY <3>1, <3>2, <4>1
      <3>4. CASE p # r.profile
        BY <1>5, <3>1, <3>4
      <3> QED
        BY <3>3, <3>4
    <2>2. ASSUME NEW x \in Applies', x.profile \notin removed PROVE latest[x.profile] < x.gen
      <3>1. CASE x = r
        <4>1. latest[r.profile] <= state[r.profile].gen
          BY <1>1, <2>2, <3>1 DEF Counted, LatestBehind
        <4> QED
          BY <1>1, <3>1, <4>1
      <3> QED
        BY <1>2, <2>2, <3>1 DEF Counted, LatestBehind
    <2> QED
      BY <2>1, <2>2 DEF LatestBehind
  <1>8. GensInOrder(toWorker)'
    <2>1. \A x \in Applies : x.profile = r.profile /\ x.profile \notin removed => x.gen < r.gen
      BY <1>1, <1>3, <1>4 DEF Live
    <2>2. GensInOrder(Append(toWorker, m))
      BY <1>1, <2>1, GensAppend DEF Counted
    <2> QED
      BY <1>1, <2>2 DEF GensInOrder
  <1> QED
    BY <1>6, <1>7, <1>8 DEF Counted

\* A step of the handler that makes no request: at most a message is sent.
NoRequestMade ==
  /\ QueuedIn(toHandler') \subseteq QueuedIn(toHandler)
  /\ UNCHANGED <<active, pending, latest, invalidated, workerUp, late>>
  /\ \/ UNCHANGED toWorker
     \/ \E m \in Message : m.kind # "apply" /\ toWorker' = Append(toWorker, m)
  /\ SameCounts
  /\ watched' \cap removed' = {}

LEMMA QuietCounted ==
  ASSUME TypeOK, TypeOK', Counted, NoRequestMade
  PROVE  Counted' /\ MovedOnly /\ Applies' = Applies
  <1>1. toWorker \in Seq(Message) /\ GensInOrder(toWorker)
    BY DEF TypeOK, Counted
  <1>2. Applies' = Applies
    <2>1. ASSUME NEW m \in Message, m.kind # "apply", toWorker' = Append(toWorker, m)
          PROVE  Applies' = Applies
      BY <1>1, <2>1, AppliesAppend DEF Applies
    <2> QED
      BY <2>1 DEF NoRequestMade, Applies
  <1>3. MovedOnly
    BY <1>2 DEF MovedOnly, NoRequestMade, Live, Same
  <1>4. LiveCounted'
    BY <1>3, LiveStays DEF NoRequestMade, Counted
  <1>5. LatestBehind'
    BY <1>2 DEF NoRequestMade, SameCounts, Counted, LatestBehind
  <1>6. GensInOrder(toWorker')
    <2>1. ASSUME NEW m \in Message, m.kind # "apply", toWorker' = Append(toWorker, m)
          PROVE  GensInOrder(toWorker')
      BY <1>1, <2>1, GensAppend
    <2> QED
      BY <1>1, <2>1 DEF NoRequestMade
  <1>7. GensInOrder(toWorker)'
    BY <1>6 DEF GensInOrder, NoRequestMade, SameCounts
  <1> QED
    BY <1>2, <1>3, <1>4, <1>5, <1>7 DEF Counted, NoRequestMade

RequestMade(r) ==
  /\ NewRequest(r) /\ UNCHANGED <<toHandler, active, pending, latest, watched, removed>>
  /\ r.profile = Owner[r.ac] /\ (LateSignals \/ r.profile \in watched)
  /\ Visible(r.ac) /\ UNCHANGED <<invalidated, acState, tracked>>

LEMMA ReadCounts ==
  ASSUME TypeOK, Counted, OnApplyFinished
  PROVE  NoRequestMade
  <1> DEFINE m == Head(toHandler)
             p == m.profile
             target == IF state[p].hasApplied THEN state[p].applied ELSE 0
  <1>1. /\ toHandler' = Tail(toHandler) /\ toHandler \in Seq(Answer) /\ toHandler # <<>>
        /\ UNCHANGED <<toWorker, active, pending, latest, watched, removed, newest>>
        /\ UNCHANGED <<invalidated, workerUp, late>>
    BY DEF OnApplyFinished, workerVars, TypeOK
  <1>2. QueuedIn(toHandler') \subseteq QueuedIn(toHandler)
    BY <1>1, QueuedTail
  <1>3. state \in [Profiles -> ApplyState]
    BY DEF TypeOK
  <1>4. \/ state' = state
        \/ state' = [state EXCEPT ![p] = CommitApplied(@, m.gen, m.prio)]
        \/ state' = [state EXCEPT ![p] = RolledBackTo(@, target)]
    BY Zenon DEF OnApplyFinished
  <1>5. ASSUME NEW s \in ApplyState, NEW g, NEW x
        PROVE  CommitApplied(s, g, x).gen = s.gen /\ RolledBackTo(s, x).gen = s.gen
    BY DEF CommitApplied, RolledBackTo, ApplyState
  <1>6. ASSUME NEW q \in Profiles PROVE state'[q].gen = state[q].gen
    <2>1. state[q] \in ApplyState
      BY <1>3
    <2>2. CASE state' = state
      BY <2>2
    <2>3. CASE state' = [state EXCEPT ![p] = CommitApplied(@, m.gen, m.prio)]
      <3>1. state'[q] = state[q] \/ state'[q] = CommitApplied(state[q], m.gen, m.prio)
        BY <1>3, <2>3
      <3> QED
        BY <1>5, <2>1, <3>1
    <2>4. CASE state' = [state EXCEPT ![p] = RolledBackTo(@, target)]
      <3>1. state'[q] = state[q] \/ state'[q] = RolledBackTo(state[q], target)
        BY <1>3, <2>4
      <3> QED
        BY <1>5, <2>1, <3>1
    <2> QED
      BY <1>4, <2>2, <2>3, <2>4
  <1> QED
    BY <1>1, <1>2, <1>6 DEF NoRequestMade, SameCounts, Counted

\* A message that Post sends, or does not.
LEMMA PostCounts ==
  ASSUME NEW m \in Message, m.kind # "apply", Post(m)
  PROVE  \/ UNCHANGED toWorker
         \/ \E x \in Message : x.kind # "apply" /\ toWorker' = Append(toWorker, x)
  BY DEF Post

LEMMA RequestCase ==
  ASSUME TypeOK, TypeOK', Counted, NEW a \in ActiveConns,
         NEW s \in DnsSettings, NEW isCompare \in BOOLEAN,
         RequestApplyDnsModeIfChanged(Owner[a], a, s, isCompare),
         LateSignals \/ Owner[a] \in watched, Visible(a),
         UNCHANGED <<toHandler, active, pending, latest, watched, removed>>,
         UNCHANGED <<invalidated, acState, tracked>>
  PROVE  NoRequestMade \/ \E r \in Request : RequestMade(r)
  <1>1. Owner[a] \in Profiles
    BY OwnerAssumption
  <1>2. \/ /\ UNCHANGED <<toWorker, workerUp, issued, newest, late>>
           /\ \A q \in Profiles : state'[q].gen = state[q].gen
        \/ \E r \in Request : NewRequest(r) /\ r.profile = Owner[a] /\ r.ac = a
    BY <1>1, RequestParts
  <1> QED
    BY <1>2 DEF RequestMade, NoRequestMade, SameCounts, Counted

\* Every step is one of the worker, makes a request, or makes none.
LEMMA StepCounts ==
  ASSUME TypeOK, TypeOK', Counted, [Next]_vars
  PROVE  WorkerStep \/ NoRequestMade \/ \E r \in Request : RequestMade(r)
  <1> DEFINE Goal == WorkerStep \/ NoRequestMade \/ \E r \in Request : RequestMade(r)
  <1>1. watched \cap removed = {} /\ watched \subseteq Profiles /\ stored \in [Profiles -> DnsSettings]
    BY DEF Counted, TypeOK
  <1>2. CASE /\ UNCHANGED <<toHandler, active, pending, latest, toWorker, state, newest, removed>>
             /\ UNCHANGED <<invalidated, workerUp, late>>
             /\ watched' \cap removed' = {}
    BY <1>2 DEF NoRequestMade, SameCounts
  <1>3. CASE OnApplyFinished
    BY <1>3, ReadCounts
  <1>4. CASE Destroy
    <2>1. [kind |-> "stop"] \in Message /\ [kind |-> "stop"].kind # "apply"
      BY DEF Message
    <2>2. \/ UNCHANGED toWorker
          \/ \E x \in Message : x.kind # "apply" /\ toWorker' = Append(toWorker, x)
      BY <1>4, <2>1, PostCounts DEF Destroy
    <2>3. QueuedIn(toHandler') = {}
      BY <1>4 DEF Destroy, QueuedIn
    <2> QED
      BY <1>1, <1>4, <2>2, <2>3 DEF Destroy, workerVars, nmVars, handlerVars, NoRequestMade, SameCounts
  <1>5. ASSUME NEW p \in Profiles, OnConnectionAdded(p) PROVE Goal
    BY <1>1, <1>2, <1>5 DEF OnConnectionAdded, workerVars, nmVars
  <1>6. ASSUME NEW p \in Profiles, OnConnectionRemoved(p) PROVE Goal
    <2> DEFINE m == [kind |-> "removeConnection", profile |-> p]
    <2>1. m \in Message /\ m.kind # "apply"
      BY DEF Message
    <2>2. \/ UNCHANGED toWorker
          \/ \E x \in Message : x.kind # "apply" /\ toWorker' = Append(toWorker, x)
      BY <1>6, <2>1, PostCounts DEF OnConnectionRemoved
    <2>3. \A q \in Profiles : state'[q] = state[q] \/ (state'[q].gen = 0 /\ q \in removed')
      <3>1. /\ state' = [state EXCEPT ![p] = FreshState] /\ removed' = removed \cup {p}
            /\ state \in [Profiles -> ApplyState]
        BY <1>6 DEF OnConnectionRemoved, TypeOK
      <3>2. FreshState.gen = 0
        BY DEF FreshState
      <3>3. state'[p].gen = 0 /\ p \in removed'
        BY <3>1, <3>2
      <3>4. \A q \in Profiles \ {p} : state'[q] = state[q]
        BY <3>1
      <3> QED
        BY <3>3, <3>4
    <2> QED
      BY <1>1, <1>6, <2>2, <2>3 DEF OnConnectionRemoved, workerVars, NoRequestMade, SameCounts
  <1>7. ASSUME NEW p \in Profiles, OnConnectionUpdated(p) PROVE Goal
    <2>1. /\ UNCHANGED <<toHandler, active, pending, latest, watched, removed>>
          /\ UNCHANGED <<invalidated, acState, tracked>>
          /\ p \in watched /\ stored[p] \in DnsSettings
      BY <1>1, <1>7 DEF OnConnectionUpdated, workerVars
    <2>2. CASE UNCHANGED <<toWorker, state, workerUp, issued, newest, late>>
      BY <1>1, <1>2, <2>1, <2>2
    <2>3. ASSUME NEW a \in ActiveConns, Owner[a] = p, Visible(a),
                 RequestApplyDnsModeIfChanged(p, a, stored[p], TRUE)
          PROVE  Goal
      BY <2>1, <2>3, RequestCase
    <2> QED
      BY <1>7, <2>2, <2>3 DEF OnConnectionUpdated
  <1>8. ASSUME NEW a \in ActiveConns, OnVpnIp4ConfigChanged(a) PROVE Goal
    <2>1. seen[Owner[a]] \in DnsSettings
      BY OwnerAssumption DEF TypeOK
    <2>2. /\ UNCHANGED <<toHandler, active, pending, latest, watched, removed>>
          /\ UNCHANGED <<invalidated, acState, tracked>>
          /\ LateSignals \/ Owner[a] \in watched
          /\ acState[a] = "activated"
          /\ RequestApplyDnsModeIfChanged(Owner[a], a, seen[Owner[a]], FALSE)
      BY <1>8 DEF OnVpnIp4ConfigChanged, workerVars, nmVars
    <2> QED
      BY <2>1, <2>2, RequestCase DEF Visible
  <1>9. ASSUME NEW a \in ActiveConns, OnActiveConnectionRemoved(a) PROVE Goal
    <2> DEFINE m == [kind |-> "removeActiveConnection", ac |-> a]
    <2>1. m \in Message /\ m.kind # "apply"
      BY DEF Message
    <2>2. \/ UNCHANGED toWorker
          \/ \E x \in Message : x.kind # "apply" /\ toWorker' = Append(toWorker, x)
      BY <1>9, <2>1, PostCounts DEF OnActiveConnectionRemoved
    <2> QED
      BY <1>1, <1>9, <2>2 DEF OnActiveConnectionRemoved, workerVars, NoRequestMade, SameCounts
  <1>10. ASSUME NEW p \in Profiles, UpdateAnswered(p) \/ \E s \in Settings : EditProfile(p, s)
         PROVE  Goal
    BY <1>1, <1>2, <1>10 DEF UpdateAnswered, EditProfile, workerVars, handlerVars
  <1>11. ASSUME NEW a \in ActiveConns, OnActiveConnectionAdded(a) \/ Activated(a)
         PROVE  Goal
    BY <1>1, <1>2, <1>11 DEF OnActiveConnectionAdded, Activated, workerVars, handlerVars
  <1>12. CASE UNCHANGED vars
    BY <1>1, <1>2, <1>12 DEF vars, workerVars, handlerVars, nmVars
  <1> QED
    BY <1>3, <1>4, <1>5, <1>6, <1>7, <1>8, <1>9, <1>10, <1>11, <1>12 DEF Next

LEMMA CountedStep ==
  ASSUME TypeOK, TypeOK', Pipeline, Counted, [Next]_vars
  PROVE  Counted'
  <1>1. CASE WorkerStep
    BY <1>1, WorkerCounted
  <1>2. CASE NoRequestMade
    BY <1>2, QuietCounted
  <1>3. ASSUME NEW r \in Request, RequestMade(r)
        PROVE  Counted'
    BY <1>3, RequestCounted DEF RequestMade
  <1> QED
    BY <1>1, <1>2, <1>3, StepCounts

\* The worker never takes a request of a profile that exists for a stale one, and the
\* counter of the handler is ahead of all: for any requests, answers and removals.
THEOREM CounterIsAhead == Spec => []CounterAhead
  <1>1. TypeOK /\ TypeOK' /\ Pipeline /\ Counted /\ [Next]_vars => Counted'
    BY CountedStep
  <1>2. Counted => CounterAhead
    BY DEF Counted, LiveCounted, LatestBehind, Live, CounterAhead
  <1> QED
    BY <1>1, <1>2, InitCounted, TypeCorrect, PipelineHolds, PTL DEF Spec

\* The request with the generation in force is the newest of its profile.
CurrentIsNewest == \A x \in Live : x.gen = state[x.profile].gen => x.sn = newest[x.profile]

LEMMA CurrentStays ==
  ASSUME TypeOK, LiveCounted, CurrentIsNewest, MovedOnly, SameCounts
  PROVE  CurrentIsNewest'
  <1> SUFFICES ASSUME NEW x \in Live', x.gen = state'[x.profile].gen
               PROVE  x.sn = newest'[x.profile]
    BY DEF CurrentIsNewest
  <1>1. PICK y \in Live : Same(x, y)
    BY DEF MovedOnly
  <1>2. y.profile \in Profiles /\ y.gen >= 1
    BY LiveType DEF LiveCounted
  <1> QED
    BY <1>1, <1>2 DEF CurrentIsNewest, SameCounts, Same

LEMMA CurrentStep ==
  ASSUME LateSignals = FALSE, TypeOK, TypeOK', Pipeline, Counted, CurrentIsNewest, [Next]_vars
  PROVE  CurrentIsNewest'
  <1>1. CASE WorkerStep
    <2>1. WorkerNext /\ UNCHANGED <<removed, state, newest>>
      BY <1>1 DEF WorkerStep, nmVars, handlerVars
    <2> QED
      BY <2>1, WorkerMoves, CurrentStays DEF SameCounts, Counted
  <1>2. CASE NoRequestMade
    BY <1>2, QuietCounted, CurrentStays DEF NoRequestMade, Counted
  <1>3. ASSUME NEW r \in Request, RequestMade(r)
        PROVE  CurrentIsNewest'
    <2>1. /\ toWorker \in Seq(Message) /\ [kind |-> "apply", req |-> r] \in Message
          /\ r.profile \in Profiles /\ r.gen = state[r.profile].gen + 1
          /\ newest \in [Profiles -> Nat] /\ \A p \in Profiles : state[p].gen \in Nat
      BY <1>3 DEF RequestMade, NewRequest, TypeOK, Message, Request, ApplyState
    <2>2. AppliesIn(toWorker') = AppliesIn(toWorker) \cup {r}
      BY <1>3, <2>1, AppliesAppend DEF RequestMade, NewRequest
    <2>3. Live' = Live \cup {r}
      BY <1>3, <2>2 DEF RequestMade, Applies, Live
    <2>4. /\ \A p \in Profiles \ {r.profile} : state'[p].gen = state[p].gen /\ newest'[p] = newest[p]
          /\ state'[r.profile].gen = r.gen /\ newest'[r.profile] = r.sn
      BY <1>3, <2>1 DEF RequestMade, NewRequest
    <2>5. r.profile \notin removed
      BY <1>3 DEF RequestMade, Counted
    <2> SUFFICES ASSUME NEW x \in Live', x.gen = state'[x.profile].gen
                 PROVE  x.sn = newest'[x.profile]
      BY DEF CurrentIsNewest
    <2>6. \A y \in Live : y.profile \in Profiles /\ y.gen \in Nat
      BY LiveType
    <2>7. CASE x = r
      BY <2>4, <2>7
    <2>8. CASE x \in Live /\ x.profile = r.profile
      <3>1. x.gen <= state[r.profile].gen
        BY <2>5, <2>8 DEF Counted, LiveCounted
      <3> QED
        BY <2>1, <2>4, <2>6, <2>8, <3>1
    <2>9. CASE x \in Live /\ x.profile # r.profile
      BY <2>4, <2>6, <2>9 DEF CurrentIsNewest
    <2> QED
      BY <2>3, <2>7, <2>8, <2>9
  <1> QED
    BY <1>1, <1>2, <1>3, StepCounts

\* An answer that changes anything carries the generation in force.
LEMMA AnswerDecides ==
  ASSUME TypeOK, CurrentIsNewest, OnApplyFinished, <<state, writes>>' # <<state, writes>>
  PROVE  Head(toHandler).sn = newest[Head(toHandler).profile]
  <1> DEFINE m == Head(toHandler)
  <1>1. toHandler \in Seq(Answer) /\ toHandler # <<>> /\ state \in [Profiles -> ApplyState]
    BY DEF OnApplyFinished, TypeOK
  <1>2. m \in Live
    BY <1>1, QueuedTail DEF Live
  <1>3. m.gen = state[m.profile].gen
    <2>1. CASE state' = [state EXCEPT ![m.profile] = CommitApplied(@, m.gen, m.prio)] /\ UNCHANGED writes
      <3> SUFFICES ASSUME m.gen # state[m.profile].gen PROVE FALSE
        OBVIOUS
      <3>1. CommitApplied(state[m.profile], m.gen, m.prio) = state[m.profile]
        BY DEF CommitApplied
      <3>2. state' = state
        BY <1>1, <2>1, <3>1
      <3> QED
        BY <2>1, <3>2
    <2> QED
      BY <2>1, Zenon DEF OnApplyFinished
  <1> QED
    BY <1>2, <1>3 DEF CurrentIsNewest

\* Where no connection signals after its profile was removed, only the answer to the
\* newest request of a profile changes what is believed applied, or is written.
THEOREM NewestAnswerDecides ==
  ASSUME LateSignals = FALSE
  PROVE  Spec => NewestDecides
  <1>1. Init => CurrentIsNewest
    BY DEF Init, WorkerInit, CurrentIsNewest, Live, Applies, AppliesIn, QueuedIn
  <1>2. TypeOK /\ TypeOK' /\ Pipeline /\ Counted /\ [Next]_vars => Counted'
    BY CountedStep
  <1>3. TypeOK /\ TypeOK' /\ Pipeline /\ Counted /\ CurrentIsNewest /\ [Next]_vars => CurrentIsNewest'
    BY CurrentStep, Zenon
  <1>4. TypeOK /\ CurrentIsNewest /\ [Next]_vars
        => [(OnApplyFinished /\ <<state, writes>>' # <<state, writes>>)
              => Head(toHandler).sn = newest[Head(toHandler).profile]]_vars
    BY AnswerDecides
  <1> QED
    BY <1>1, <1>2, <1>3, <1>4, InitCounted, TypeCorrect, PipelineHolds, PTL DEF Spec, NewestDecides

-----------------------------------------------------------------------------
(* Connections that are gone *)

Work == pending \cup active \cup Applies

Gone(a) == acState[a] = "gone" \/ Owner[a] \in removed

Removal(m, a) ==
  \/ m.kind = "removeActiveConnection" /\ m.ac = a
  \/ m.kind = "removeConnection" /\ m.profile = Owner[a]

\* What the worker still does for a was asked for after the profile was removed ...
Clear(a) ==
  /\ \A r \in pending \cup Applies : r.ac = a => r.sn \in late
  /\ \A r \in active : r.ac = a => invalidated \/ r.sn \in late

\* ... or it will be told that a is gone, after the last other request for a.
RemovalComes(channel, a, exempt) ==
  \E i \in 1..Len(channel) :
    /\ Removal(channel[i], a)
    /\ \A j \in 1..Len(channel) : i < j /\ channel[j].kind = "apply"
         => channel[j].req.ac # a \/ channel[j].req.sn \in exempt

Departed ==
  /\ \A r \in Work : r.profile = Owner[r.ac]
  /\ ~workerUp => Work = {}
  /\ \A a \in ActiveConns : Visible(a) /\ Owner[a] \notin removed => a \in tracked
  /\ \A a \in ActiveConns : Gone(a) => Clear(a) \/ RemovalComes(toWorker, a, late)

LEMMA ComesAppend ==
  ASSUME NEW s \in Seq(Message), NEW m \in Message, NEW a, NEW exempt
  PROVE  /\ RemovalComes(s, a, exempt) /\ (m.kind = "apply" => m.req.ac # a \/ m.req.sn \in exempt)
            => RemovalComes(Append(s, m), a, exempt)
         /\ Removal(m, a) => RemovalComes(Append(s, m), a, exempt)
  <1> DEFINE t == Append(s, m)
  <1>1. /\ Len(t) = Len(s) + 1 /\ t[Len(s) + 1] = m /\ Len(s) \in Nat
        /\ \A i \in 1..Len(s) : t[i] = s[i]
    OBVIOUS
  <1>2. ASSUME RemovalComes(s, a, exempt), m.kind = "apply" => m.req.ac # a \/ m.req.sn \in exempt
        PROVE  RemovalComes(t, a, exempt)
    <2>1. PICK i \in 1..Len(s) :
            /\ Removal(s[i], a)
            /\ \A j \in 1..Len(s) : i < j /\ s[j].kind = "apply"
                                    => s[j].req.ac # a \/ s[j].req.sn \in exempt
      BY <1>2 DEF RemovalComes
    <2>2. i \in 1..Len(t) /\ t[i] = s[i]
      BY <1>1
    <2>3. \A j \in 1..Len(t) : i < j /\ t[j].kind = "apply"
                                  => t[j].req.ac # a \/ t[j].req.sn \in exempt
      BY <1>1, <1>2, <2>1
    <2> QED
      BY <2>1, <2>2, <2>3 DEF RemovalComes
  <1>3. ASSUME Removal(m, a)
        PROVE  RemovalComes(t, a, exempt)
    <2>1. Len(t) \in 1..Len(t) /\ t[Len(t)] = m
      BY <1>1
    <2>2. \A j \in 1..Len(t) : ~(Len(t) < j)
      BY <1>1
    <2> QED
      BY <1>3, <2>1, <2>2 DEF RemovalComes
  <1> QED
    BY <1>2, <1>3

LEMMA ComesTail ==
  ASSUME NEW s \in Seq(Message), s # <<>>, NEW a, NEW exempt, RemovalComes(s, a, exempt)
  PROVE  \/ RemovalComes(Tail(s), a, exempt)
         \/ Removal(Head(s), a) /\ \A r \in AppliesIn(Tail(s)) : r.ac # a \/ r.sn \in exempt
  <1>1. /\ Len(Tail(s)) = Len(s) - 1 /\ Len(s) \in Nat \ {0} /\ Head(s) = s[1]
        /\ \A i \in 1..Len(Tail(s)) : i + 1 \in 1..Len(s) /\ Tail(s)[i] = s[i + 1]
    OBVIOUS
  <1>2. PICK i \in 1..Len(s) :
          /\ Removal(s[i], a)
          /\ \A j \in 1..Len(s) : i < j /\ s[j].kind = "apply"
                                  => s[j].req.ac # a \/ s[j].req.sn \in exempt
    BY DEF RemovalComes
  <1>3. CASE i = 1
    <2>1. ASSUME NEW r \in AppliesIn(Tail(s)) PROVE r.ac # a \/ r.sn \in exempt
      <3>1. PICK j \in 1..Len(Tail(s)) : Tail(s)[j].kind = "apply" /\ Tail(s)[j].req = r
        BY DEF AppliesIn, QueuedIn
      <3>2. j + 1 \in 1..Len(s) /\ i < j + 1 /\ s[j + 1] = Tail(s)[j]
        BY <1>1, <1>3
      <3> QED
        BY <1>2, <3>1, <3>2
    <2> QED
      BY <1>1, <1>2, <1>3, <2>1
  <1>4. CASE i # 1
    <2>1. i - 1 \in 1..Len(Tail(s)) /\ Tail(s)[i - 1] = s[i]
      BY <1>1, <1>4
    <2>2. ASSUME NEW j \in 1..Len(Tail(s)), i - 1 < j, Tail(s)[j].kind = "apply"
          PROVE  Tail(s)[j].req.ac # a \/ Tail(s)[j].req.sn \in exempt
      <3>1. j + 1 \in 1..Len(s) /\ i < j + 1 /\ s[j + 1] = Tail(s)[j]
        BY <1>1, <2>2
      <3> QED
        BY <1>2, <2>2, <3>1
    <2> QED
      BY <1>2, <2>1, <2>2 DEF RemovalComes
  <1> QED
    BY <1>3, <1>4

LEMMA InitDeparted == Init => Departed
  BY DEF Init, WorkerInit, Departed, Work, Applies, AppliesIn, QueuedIn, Visible, Gone, Clear

\* The worker makes up no work; what is clear stays so, and a removal makes it so.
LEMMA WorkerDeparted ==
  ASSUME TypeOK, Pipeline, Departed, WorkerStep
  PROVE  Departed'
  <1>1. WorkerNext /\ UNCHANGED <<acState, removed, tracked, workerUp, late>>
    BY DEF WorkerStep, nmVars, handlerVars
  <1> DEFINE Moved == /\ Work' \subseteq Work
                      /\ \A a \in ActiveConns : Gone(a) => Clear(a)' \/ RemovalComes(toWorker', a, late)
  <1>2. SUFFICES Moved
    <2>1. Work' \subseteq Work => (~workerUp' => Work' = {}) /\ \A r \in Work' : r.profile = Owner[r.ac]
      BY <1>1 DEF Departed
    <2>2. \A a \in ActiveConns : (Gone(a)' <=> Gone(a)) /\ (Visible(a)' <=> Visible(a))
      BY <1>1 DEF Gone, Visible
    <2>3. \A a \in ActiveConns : RemovalComes(toWorker, a, late)' <=> RemovalComes(toWorker', a, late)
      BY <1>1 DEF RemovalComes, Removal
    <2>4. Moved => \A a \in ActiveConns : Gone(a)' => Clear(a)' \/ RemovalComes(toWorker, a, late)'
      BY <2>2, <2>3
    <2>5. \A a \in ActiveConns : Visible(a)' /\ Owner[a] \notin removed' => a \in tracked'
      BY <1>1, <2>2 DEF Departed
    <2> QED
      BY <2>1, <2>4, <2>5 DEF Departed
  <1>3. ASSUME NEW kind, WorkerReceive(kind)
        PROVE  /\ toWorker \in Seq(Message) /\ toWorker # <<>> /\ toWorker' = Tail(toWorker)
               /\ Head(toWorker).kind = kind
    BY <1>3 DEF WorkerReceive, TypeOK
  <1>4. ASSUME UNCHANGED <<toWorker, pending>>,
               active' = {} \/ UNCHANGED <<active, invalidated>>
        PROVE  Moved
    BY <1>1, <1>4 DEF Work, Applies, Departed, Clear
  <1>5. CASE OnApplyDnsMode
    <2> DEFINE q == Head(toWorker).req
    <2>1. /\ Applies = AppliesIn(toWorker') \cup {q} /\ WorkerReceive("apply")
          /\ pending' \subseteq pending \cup {q} /\ UNCHANGED <<active, invalidated>>
      BY <1>5, ReceiveOrder DEF OnApplyDnsMode, Enqueue
    <2>2. Work' \subseteq Work
      BY <2>1 DEF Work, Applies
    <2>3. ASSUME NEW a \in ActiveConns, Gone(a)
          PROVE  Clear(a)' \/ RemovalComes(toWorker', a, late)
      <3>1. CASE Clear(a)
        BY <1>1, <2>1, <3>1 DEF Clear, Applies
      <3>2. CASE RemovalComes(toWorker, a, late)
        <4>1. ~Removal(Head(toWorker), a)
          BY <1>3, <2>1 DEF Removal
        <4> QED
          BY <1>3, <2>1, <3>2, <4>1, ComesTail
      <3> QED
        BY <2>3, <3>1, <3>2 DEF Departed
    <2> QED
      BY <2>2, <2>3
  <1>6. CASE RemoveConnection \/ RemoveActiveConnection
    <2> DEFINE m == Head(toWorker)
    <2>0. /\ UNCHANGED active /\ (invalidated => invalidated')
          /\ \/ /\ WorkerReceive("removeConnection")
                /\ pending' = {r \in pending : r.profile # m.profile}
                /\ \A r \in active : r.profile = m.profile => invalidated'
             \/ /\ WorkerReceive("removeActiveConnection")
                /\ pending' = {r \in pending : r.ac # m.ac}
                /\ \A r \in active : r.ac = m.ac => invalidated'
      <3>1. CASE RemoveConnection
        BY <3>1, Zenon DEF RemoveConnection
      <3>2. CASE RemoveActiveConnection
        BY <3>2, Zenon DEF RemoveActiveConnection
      <3> QED
        BY <1>6, <3>1, <3>2
    <2>1. /\ AppliesIn(toWorker') = Applies /\ pending' \subseteq pending
          /\ toWorker \in Seq(Message) /\ toWorker # <<>> /\ toWorker' = Tail(toWorker)
      <3>1. WorkerReceive("removeConnection") => AppliesIn(toWorker') = Applies
        BY ReceiveOrder
      <3>2. WorkerReceive("removeActiveConnection") => AppliesIn(toWorker') = Applies
        BY ReceiveOrder
      <3> QED
        BY <1>3, <2>0, <3>1, <3>2
    <2>2. Work' \subseteq Work
      BY <2>0, <2>1 DEF Work, Applies
    <2>3. ASSUME NEW a \in ActiveConns, Gone(a)
          PROVE  Clear(a)' \/ RemovalComes(toWorker', a, late)
      <3>1. CASE Clear(a)
        BY <1>1, <2>0, <2>1, <3>1 DEF Clear, Applies
      <3>2. CASE Removal(m, a) /\ \A r \in AppliesIn(toWorker') : r.ac # a \/ r.sn \in late
        <4>1. \A r \in pending \cup active : r.profile = Owner[r.ac]
          BY DEF Departed, Work
        <4>2. (\A r \in pending' : r.ac # a) /\ (\A r \in active : r.ac = a => invalidated')
          <5>1. CASE WorkerReceive("removeConnection")
            <6>1. Owner[a] = m.profile
              BY <1>3, <3>2, <5>1 DEF Removal
            <6>2. m.kind # "removeActiveConnection"
              BY <1>3, <5>1
            <6> QED
              BY <1>3, <2>0, <4>1, <6>1, <6>2
          <5>2. CASE WorkerReceive("removeActiveConnection")
            <6>1. a = m.ac
              BY <1>3, <3>2, <5>2 DEF Removal
            <6>2. m.kind # "removeConnection"
              BY <1>3, <5>2
            <6> QED
              BY <1>3, <2>0, <6>1, <6>2
          <5> QED
            BY <2>0, <5>1, <5>2
        <4> QED
          BY <1>1, <2>0, <2>1, <3>2, <4>2 DEF Clear, Applies
      <3> QED
        BY <2>1, <2>3, <3>1, <3>2, ComesTail DEF Departed
    <2> QED
      BY <2>2, <2>3
  <1>7. CASE OnStop
    <2>1. Applies = {} /\ AppliesIn(toWorker') = Applies /\ pending' = {} /\ active' = {}
      BY <1>7, ReceiveOrder DEF OnStop
    <2> QED
      BY <2>1 DEF Work, Applies, Clear
  <1>8. CASE StartNextRequest
    <2>1. PICK r \in pending : /\ pending' = pending \ {r} /\ active' \subseteq {r} /\ UNCHANGED toWorker
      BY <1>8, Zenon DEF StartNextRequest, Finish, ClearActive
    <2>2. Work' \subseteq Work
      BY <2>1 DEF Work, Applies
    <2>3. \A a \in ActiveConns : Clear(a) => Clear(a)'
      BY <1>1, <2>1 DEF Clear, Applies
    <2> QED
      BY <2>1, <2>2, <2>3 DEF Departed
  <1>9. ASSUME NEW reply, OnPolkitCheckFinished(reply)
        PROVE  Moved
    BY <1>4, <1>9 DEF OnPolkitCheckFinished, Finish, FinishSilently, ClearActive
  <1>10. ASSUME NEW reply, OnResolvedCallFinished(reply)
         PROVE  Moved
    BY <1>4, <1>10 DEF OnResolvedCallFinished, Finish, FinishSilently, ClearActive
  <1> QED
    BY <1>1, <1>5, <1>6, <1>7, <1>8, <1>9, <1>10 DEF WorkerNext

\* A step of the handler that leaves the worker alone: who is gone was so before, had
\* no work, or the message that says so is the last one sent.
LEMMA QuietDeparted ==
  ASSUME TypeOK, Departed, NoRequestMade,
         \A a \in ActiveConns : Visible(a)' /\ Owner[a] \notin removed' => a \in tracked',
         \A a \in ActiveConns : Gone(a)' => \/ Gone(a)
                                            \/ ~workerUp
                                            \/ \E m \in Message : /\ Removal(m, a)
                                                                  /\ toWorker' = Append(toWorker, m)
  PROVE  Departed'
  <1>1. toWorker \in Seq(Message) /\ UNCHANGED <<pending, active, invalidated, workerUp, late>>
    BY DEF TypeOK, NoRequestMade
  <1>2. Applies' = Applies
    <2>1. ASSUME NEW m \in Message, m.kind # "apply", toWorker' = Append(toWorker, m)
          PROVE  Applies' = Applies
      BY <1>1, <2>1, AppliesAppend DEF Applies
    <2> QED
      BY <2>1 DEF NoRequestMade, Applies
  <1>3. Work' = Work /\ \A a \in ActiveConns : Clear(a) => Clear(a)'
    BY <1>1, <1>2 DEF Work, Clear
  <1>4. \A a \in ActiveConns : RemovalComes(toWorker, a, late) => RemovalComes(toWorker', a, late)
    <2>1. ASSUME NEW a \in ActiveConns, RemovalComes(toWorker, a, late),
                 NEW m \in Message, m.kind # "apply", toWorker' = Append(toWorker, m)
          PROVE  RemovalComes(toWorker', a, late)
      BY <1>1, <2>1, ComesAppend
    <2> QED
      BY <2>1 DEF NoRequestMade
  <1>5. ASSUME NEW a \in ActiveConns, Gone(a)'
        PROVE  Clear(a)' \/ RemovalComes(toWorker', a, late)
    <2>1. CASE Gone(a)
      BY <1>3, <1>4, <2>1 DEF Departed
    <2>2. CASE ~workerUp
      BY <1>3, <2>2 DEF Departed, Clear, Work
    <2>3. ASSUME NEW m \in Message, Removal(m, a), toWorker' = Append(toWorker, m)
          PROVE  RemovalComes(toWorker', a, late)
      BY <1>1, <2>3, ComesAppend
    <2> QED
      BY <1>5, <2>1, <2>2, <2>3
  <1>6. \A a \in ActiveConns : RemovalComes(toWorker, a, late)' <=> RemovalComes(toWorker', a, late)
    BY <1>1 DEF RemovalComes, Removal
  <1> QED
    BY <1>1, <1>3, <1>5, <1>6 DEF Departed

\* A request is made for a connection that is there and whose profile is, or it is late.
LEMMA RequestDeparted ==
  ASSUME TypeOK, Counted, Departed, NEW r \in Request, RequestMade(r)
  PROVE  Departed'
  <1> DEFINE m == [kind |-> "apply", req |-> r]
  <1>1. /\ toWorker \in Seq(Message) /\ m \in Message /\ toWorker' = Append(toWorker, m)
        /\ workerUp' /\ r.profile = Owner[r.ac] /\ Visible(r.ac)
        /\ UNCHANGED <<active, pending, removed, invalidated, acState, tracked>>
    BY DEF RequestMade, NewRequest, TypeOK, Message
  <1>2. late \subseteq late' /\ (Gone(r.ac) => r.sn \in late')
    <2>1. late' = IF r.profile \in watched THEN late ELSE late \cup {r.sn}
      BY DEF RequestMade, NewRequest
    <2>2. Gone(r.ac) => r.profile \notin watched
      BY <1>1 DEF Gone, Visible, Counted
    <2> QED
      BY <2>1, <2>2
  <1>3. AppliesIn(toWorker') = AppliesIn(toWorker) \cup {m.req} /\ m.req = r
    BY <1>1, AppliesAppend
  <1>4. Applies' = Applies \cup {r} /\ Work' = Work \cup {r}
    BY <1>1, <1>3 DEF Applies, Work
  <1>5. \A a \in ActiveConns : (Gone(a)' <=> Gone(a)) /\ (Visible(a)' <=> Visible(a))
    BY <1>1 DEF Gone, Visible
  <1>6. ASSUME NEW a \in ActiveConns, Gone(a)
        PROVE  Clear(a)' \/ RemovalComes(toWorker, a, late)'
    <2>1. CASE Clear(a)
      BY <1>1, <1>2, <1>4, <1>6, <2>1 DEF Clear
    <2>2. CASE RemovalComes(toWorker, a, late)
      <3>1. RemovalComes(toWorker, a, late')
        BY <1>2, <2>2 DEF RemovalComes
      <3>2. m.req.ac # a \/ m.req.sn \in late'
        BY <1>2, <1>6
      <3>3. RemovalComes(toWorker', a, late')
        BY <1>1, <3>1, <3>2, ComesAppend
      <3> QED
        BY <3>3 DEF RemovalComes, Removal
    <2> QED
      BY <1>6, <2>1, <2>2 DEF Departed
  <1>8. \A x \in Work' : x.profile = Owner[x.ac]
    BY <1>1, <1>4 DEF Departed
  <1>9. \A a \in ActiveConns : Visible(a)' /\ Owner[a] \notin removed' => a \in tracked'
    BY <1>1, <1>5 DEF Departed
  <1> QED
    BY <1>1, <1>5, <1>6, <1>8, <1>9 DEF Departed

LEMMA DepartedStep ==
  ASSUME TypeOK, TypeOK', Pipeline, Counted, Departed, [Next]_vars
  PROVE  Departed'
  <1>1. CASE WorkerStep
    BY <1>1, WorkerDeparted
  <1>2. ASSUME NEW r \in Request, RequestMade(r)
        PROVE  Departed'
    BY <1>2, RequestDeparted
  <1>3. ASSUME NoRequestMade, UNCHANGED <<acState, removed, tracked>>
        PROVE  Departed'
    <2>1. \A a \in ActiveConns : (Gone(a)' <=> Gone(a)) /\ (Visible(a)' <=> Visible(a))
      BY <1>3 DEF Gone, Visible
    <2>2. \A a \in ActiveConns : Visible(a)' /\ Owner[a] \notin removed' => a \in tracked'
      BY <1>3, <2>1 DEF Departed
    <2> QED
      BY <1>3, <2>1, <2>2, QuietDeparted
  <1>4. acState \in [ActiveConns -> AcStates]
    BY DEF TypeOK
  <1>5. ASSUME NEW p \in Profiles, OnConnectionRemoved(p), NoRequestMade
        PROVE  Departed'
    <2> DEFINE m == [kind |-> "removeConnection", profile |-> p]
    <2>1. /\ UNCHANGED <<invalidated, workerUp, acState>> /\ removed' = removed \cup {p}
          /\ tracked' = {a \in tracked : Owner[a] # p}
          /\ workerUp => toWorker' = Append(toWorker, m)
      BY <1>5 DEF OnConnectionRemoved, workerVars, Post
    <2>2. m \in Message /\ \A a \in ActiveConns : Owner[a] = p => Removal(m, a)
      BY DEF Message, Removal
    <2>3. \A a \in ActiveConns : Visible(a)' /\ Owner[a] \notin removed' => a \in tracked'
      BY <2>1 DEF Departed, Visible
    <2>4. \A a \in ActiveConns : Gone(a)' => Gone(a) \/ Owner[a] = p
      BY <2>1 DEF Gone
    <2>5. \A a \in ActiveConns : Gone(a)' => \/ Gone(a)
                                             \/ ~workerUp
                                             \/ \E x \in Message : /\ Removal(x, a)
                                                                   /\ toWorker' = Append(toWorker, x)
      BY <2>1, <2>2, <2>4
    <2> QED
      BY <1>5, <2>1, <2>3, <2>5, QuietDeparted
  <1>6. ASSUME NEW b \in ActiveConns, OnActiveConnectionRemoved(b), NoRequestMade
        PROVE  Departed'
    <2> DEFINE m == [kind |-> "removeActiveConnection", ac |-> b]
    <2>1. /\ UNCHANGED <<invalidated, workerUp, removed>> /\ tracked' = tracked \ {b} /\ Visible(b)
          /\ acState' = [acState EXCEPT ![b] = "gone"]
          /\ b \in tracked /\ workerUp => toWorker' = Append(toWorker, m)
      BY <1>6 DEF OnActiveConnectionRemoved, workerVars, Post
    <2>2. m \in Message /\ Removal(m, b)
      BY DEF Message, Removal
    <2>3. /\ \A a \in ActiveConns \ {b} : acState'[a] = acState[a]
          /\ acState'[b] = "gone"
      BY <1>4, <2>1
    <2>4. \A a \in ActiveConns : Visible(a)' /\ Owner[a] \notin removed' => a \in tracked'
      BY <2>1, <2>3 DEF Departed, Visible
    <2>5. \A a \in ActiveConns : Gone(a)' => Gone(a) \/ (a = b /\ b \in tracked)
      BY <2>1, <2>3 DEF Gone, Departed
    <2>6. \A a \in ActiveConns : Gone(a)' => \/ Gone(a)
                                             \/ ~workerUp
                                             \/ \E x \in Message : /\ Removal(x, a)
                                                                   /\ toWorker' = Append(toWorker, x)
      BY <2>1, <2>2, <2>5
    <2> QED
      BY <1>6, <2>1, <2>4, <2>6, QuietDeparted
  <1>7. ASSUME NEW b \in ActiveConns, OnActiveConnectionAdded(b) \/ Activated(b), NoRequestMade
        PROVE  Departed'
    <2>1. /\ UNCHANGED removed /\ tracked \subseteq tracked'
          /\ \/ acState' = [acState EXCEPT ![b] = "activating"] /\ b \in tracked'
             \/ acState' = [acState EXCEPT ![b] = "activated"] /\ acState[b] = "activating"
      BY <1>7 DEF OnActiveConnectionAdded, Activated, workerVars, handlerVars
    <2>2. /\ \A a \in ActiveConns \ {b} : acState'[a] = acState[a]
          /\ acState'[b] # "gone"
          /\ b \in tracked' \/ Visible(b)
      BY <1>4, <2>1 DEF Visible
    <2>3. \A a \in ActiveConns : Visible(a)' /\ Owner[a] \notin removed' => a \in tracked'
      BY <2>1, <2>2 DEF Departed, Visible
    <2>4. \A a \in ActiveConns : Gone(a)' => Gone(a)
      BY <2>1, <2>2 DEF Gone
    <2> QED
      BY <1>7, <2>1, <2>3, <2>4, QuietDeparted
  <1>8. CASE NoRequestMade /\ ~WorkerStep
    <2>1. CASE \/ OnApplyFinished \/ Destroy \/ UNCHANGED vars
               \/ \E p \in Profiles : \/ OnConnectionAdded(p) \/ OnConnectionUpdated(p) \/ UpdateAnswered(p)
                                      \/ \E s \in Settings : EditProfile(p, s)
               \/ \E a \in ActiveConns : OnVpnIp4ConfigChanged(a)
      <3>1. UNCHANGED <<acState, removed, tracked>>
        BY <2>1, Zenon DEF OnApplyFinished, Destroy, OnConnectionAdded, OnConnectionUpdated, UpdateAnswered,
                           EditProfile, OnVpnIp4ConfigChanged, vars, handlerVars, nmVars
      <3> QED
        BY <1>3, <1>8, <3>1
    <2> QED
      BY <1>5, <1>6, <1>7, <1>8, <2>1 DEF Next
  <1> QED
    BY <1>1, <1>2, <1>8, StepCounts

\* The worker that has been told of a connection that is gone, or of its profile, works
\* for it again only if the handler was asked to after the profile was removed.
THEOREM GoneStaysForgotten == Spec => []GoneIsForgotten
  <1>1. TypeOK /\ TypeOK' /\ Pipeline /\ Counted /\ [Next]_vars => Counted'
    BY CountedStep
  <1>2. TypeOK /\ TypeOK' /\ Pipeline /\ Counted /\ Departed /\ [Next]_vars => Departed'
    BY DepartedStep, Zenon
  <1>3. Departed => GoneIsForgotten
    BY DEF Departed, RemovalComes, Removal, Gone, Clear, GoneIsForgotten, QueuedIn
  <1> QED
    BY <1>1, <1>2, <1>3, InitCounted, InitDeparted, TypeCorrect, PipelineHolds, PTL DEF Spec
=============================================================================
