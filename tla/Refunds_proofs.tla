--------------------------- MODULE Refunds_proofs ---------------------------
(***************************************************************************)
(* What the shop's records of refunds and disputes say, proved of Refunds  *)
(* for any number of requests, refunds made at the provider, disputes,     *)
(* attempts and worker deaths: when they meet a dispute, what an order     *)
(* shown as refunded has back, and, while every refund is NovaCart's own,  *)
(* what its rows and the payment's refunded total say.                     *)
(***************************************************************************)
EXTENDS Refunds, Sums_proofs

ReqRows == [status : InFlight \cup {"none", "succeeded", "failed"}, pid : Ids \cup {NoRow}, attempts : Nat, cancels : BOOLEAN]
EventRows == [pc : {"none", "sent", "read", "done"}, row : Requests \cup {NoRow, ExtRow}, base : Nat \cup {NotLoaded}]
JobRows == [pc : {"none", "queued", "call", "sent", "error", "done", "dead"}, tries : Nat]
Records == {"refund_mismatch", "unknown_refund", "external_refund", "refund_uncertain", "refund_blocked_by_dispute",
            "dispute_during_refund", "dispute_opened", "dispute_lost"} \X (Ids \cup Disputes)

\* A refund that no attempt was counted for has not reached the provider, and one that a dispute blocked never gets an attempt.
RequestSound(q) ==
    /\ req[q].attempts = 0 => prov[q] = "absent" /\ job[q].pc \notin {"call", "sent", "error"}
    /\ req[q].status = "none" => req[q].attempts = 0
    /\ job[q].pc = "sent" => prov[q] # "absent"
    /\ <<"refund_blocked_by_dispute", q>> \in recon => req[q].status = "failed" /\ req[q].attempts = 0

\* What OverlapReported is about: refunds that an open dispute meets, and the record of it.
AtRisk(q) == req[q].status = "succeeded" \/ (req[q].status = "requested" /\ req[q].attempts > 0)
Told == \E x \in Ids \cup Disputes : <<"dispute_during_refund", x>> \in recon

\* Until an order is refunded its stock is back only if it was cancelled.
GoodsSound ==
    /\ ord = "paid" => shipped = FALSE /\ restocks = 0
    /\ ord = "fulfilled" => restocks = 0
    /\ restocks <= 1
    /\ shipped = FALSE \/ restocks = 0

RefundInv ==
    /\ TypeOK
    /\ \A q \in Requests : RequestSound(q)
    /\ OverlapReported
    /\ GoodsSound

-----------------------------------------------------------------------------
(* Rows.                                                                   *)

\* One request's row changes.
LEMMA SetRequest ==
    ASSUME TypeOK, NEW q \in Requests, NEW x \in ReqRows, req' = [req EXCEPT ![q] = x]
    PROVE  req' \in [Requests -> ReqRows] /\ req'[q] = x /\ \A p \in Requests : p # q => req'[p] = req[p]
<1>1. req \in [Requests -> ReqRows]
  BY DEF TypeOK, ReqRows
<1> QED BY <1>1

\* One job's row changes.
LEMMA SetJob ==
    ASSUME TypeOK, NEW q \in Requests, NEW x \in JobRows, job' = [job EXCEPT ![q] = x]
    PROVE  job' \in [Requests -> JobRows] /\ job'[q] = x /\ \A p \in Requests : p # q => job'[p] = job[p]
<1>1. job \in [Requests -> JobRows]
  BY DEF TypeOK, JobRows
<1> QED BY <1>1

\* One event's row changes.
LEMMA SetEvent ==
    ASSUME TypeOK, NEW r \in Ids, NEW s \in EventStatus, NEW x \in EventRows, ev' = [ev EXCEPT ![r][s] = x]
    PROVE  /\ ev' \in [Ids -> [EventStatus -> EventRows]] /\ ev'[r][s] = x
           /\ \A i \in Ids, t \in EventStatus : i # r \/ t # s => ev'[i][t] = ev[i][t]
<1>1. ev \in [Ids -> [EventStatus -> EventRows]]
  BY DEF TypeOK, EventRows
<1>2. PICK f : f = [ev[r] EXCEPT ![s] = x]
  OBVIOUS
<1>3. f \in [EventStatus -> EventRows] /\ f[s] = x /\ \A t \in EventStatus : t # s => f[t] = ev[r][t]
  BY <1>1, <1>2
<1>4. ev' = [ev EXCEPT ![r] = f]
  BY <1>1, <1>2
<1>5. ev' \in [Ids -> [EventStatus -> EventRows]] /\ ev'[r] = f /\ \A i \in Ids : i # r => ev'[i] = ev[i]
  BY <1>1, <1>3, <1>4
<1> QED BY <1>3, <1>5

\* The rows of requests, jobs and events.
LEMMA RefundRows ==
    ASSUME TypeOK
    PROVE  /\ \A q \in Requests : req[q] \in ReqRows /\ job[q] \in JobRows
           /\ req \in [Requests -> ReqRows] /\ job \in [Requests -> JobRows] /\ prov \in [Ids -> {"absent", "pending", "succeeded", "failed"}]
           /\ ev \in [Ids -> [EventStatus -> EventRows]] /\ \A r \in Ids, s \in EventStatus : ev[r][s] \in EventRows
           /\ Requests \subseteq Ids
  BY DEF TypeOK, ReqRows, JobRows, EventRows, Ids

\* The amount of a refund.
LEMMA AmountType == ASSUME NEW r \in Ids PROVE AmountOf(r) \in Nat /\ AmountOf(r) > 0 /\ Amount \in Nat
<1>1. Amount \in Nat /\ Amount > 0 /\ (r \in Externals => ExtAmount[r] \in 1 .. Amount)
  BY AmountAssumption
<1> QED BY <1>1 DEF AmountOf, Ids

\* An overlap that was reported stays so.
LEMMA OverlapKept ==
    ASSUME OverlapReported, recon \subseteq recon', DisputeOpen' => DisputeOpen, \A q \in Requests : AtRisk(q)' => AtRisk(q)
    PROVE  OverlapReported'
  BY DEF OverlapReported, AtRisk

\* An overlap that is reported now.
LEMMA OverlapTold == ASSUME Told' PROVE OverlapReported'
  BY DEF OverlapReported, Told

\* The types, from the rows.
LEMMA TypeTogether ==
    ASSUME ord' \in {"paid", "fulfilled", "refunded", "cancelled"}, restocks' \in Nat, shipped' \in BOOLEAN,
           payStatus' \in {"succeeded", "refunded"}, total' \in Nat, req' \in [Requests -> ReqRows], ext' \subseteq Ids,
           prov' \in [Ids -> {"absent", "pending", "succeeded", "failed"}], ev' \in [Ids -> [EventStatus -> EventRows]],
           job' \in [Requests -> JobRows], crashes' \in Nat, dsp' \in [Disputes -> OpenDispute \cup FinalDispute \cup {"none"}],
           recon' \subseteq Records
    PROVE  TypeOK'
  BY DEF TypeOK, ReqRows, JobRows, EventRows, Records

-----------------------------------------------------------------------------
(* Steps that leave the rows of requests alone.                            *)

\* A request stays sound when its row, its job and what the provider has of it stay.
LEMMA RequestKept ==
    ASSUME NEW q \in Requests, RequestSound(q), req'[q] = req[q], job'[q] = job[q], prov'[q] = prov[q],
           <<"refund_blocked_by_dispute", q>> \in recon' => <<"refund_blocked_by_dispute", q>> \in recon
    PROVE  RequestSound(q)'
  BY DEF RequestSound

\* The order is fulfilled.
LEMMA FulfilInv == ASSUME RefundInv, Fulfil PROVE RefundInv'
<1>1. TypeOK /\ ord = "paid" /\ ord' = "fulfilled" /\ shipped' = TRUE /\ UNCHANGED <<restocks, payStatus, total, req, ext, prov, ev, job, crashes, dsp, recon>>
  BY DEF RefundInv, Fulfil
<1>2. TypeOK'
  BY <1>1 DEF TypeOK
<1>3. GoodsSound'
  BY <1>1 DEF RefundInv, GoodsSound
<1>4. \A q \in Requests : RequestSound(q)'
  BY <1>1, RequestKept DEF RefundInv
<1>5. OverlapReported'
  BY <1>1, OverlapKept DEF RefundInv, DisputeOpen, AtRisk
<1> QED BY <1>2, <1>3, <1>4, <1>5 DEF RefundInv

\* What is left of a step that touches neither the order nor the payment: it is sound if the requests are.
LEMMA PaymentStill ==
    ASSUME RefundInv, UNCHANGED <<ord, restocks, shipped, payStatus, total>>,
           req' \in [Requests -> ReqRows], ext' \subseteq Ids, prov' \in [Ids -> {"absent", "pending", "succeeded", "failed"}],
           ev' \in [Ids -> [EventStatus -> EventRows]], job' \in [Requests -> JobRows], crashes' \in Nat,
           dsp' \in [Disputes -> OpenDispute \cup FinalDispute \cup {"none"}], recon' \subseteq Records,
           \A q \in Requests : RequestSound(q)', OverlapReported'
    PROVE  RefundInv'
<1>1. TypeOK /\ GoodsSound
  BY DEF RefundInv
<1>2. /\ ord' \in {"paid", "fulfilled", "refunded", "cancelled"} /\ restocks' \in Nat /\ shipped' \in BOOLEAN
      /\ payStatus' \in {"succeeded", "refunded"} /\ total' \in Nat
  BY <1>1 DEF TypeOK
<1>3. TypeOK'
  BY <1>2, TypeTogether
<1>4. GoodsSound'
  BY <1>1 DEF GoodsSound
<1> QED BY <1>3, <1>4 DEF RefundInv

\* The types of what a step may leave alone.
LEMMA RefundTypes ==
    ASSUME TypeOK
    PROVE  /\ req \in [Requests -> ReqRows] /\ ext \subseteq Ids /\ prov \in [Ids -> {"absent", "pending", "succeeded", "failed"}]
           /\ ev \in [Ids -> [EventStatus -> EventRows]] /\ job \in [Requests -> JobRows] /\ crashes \in Nat
           /\ dsp \in [Disputes -> OpenDispute \cup FinalDispute \cup {"none"}] /\ recon \subseteq Records
  BY DEF TypeOK, ReqRows, JobRows, EventRows, Records

\* A refund is requested.
LEMMA RequestRefundInv == ASSUME RefundInv, NEW q \in Requests, NEW cancels \in BOOLEAN, RequestRefund(q, cancels) PROVE RefundInv'
<1>1. PICK x : x = [NoRequest EXCEPT !.status = "requested", !.cancels = cancels]
  OBVIOUS
<1>2. /\ TypeOK /\ RequestSound(q) /\ req[q].status = "none" /\ req' = [req EXCEPT ![q] = x] /\ job' = [job EXCEPT ![q].pc = "queued"]
      /\ UNCHANGED <<ord, restocks, shipped, payStatus, total, ext, prov, ev, crashes, dsp, recon>>
  BY <1>1 DEF RefundInv, RequestRefund
<1>3. x \in ReqRows /\ x.status = "requested" /\ x.attempts = 0
  BY <1>1 DEF NoRequest, ReqRows, InFlight
<1>4. PICK y : y = [job[q] EXCEPT !.pc = "queued"]
  OBVIOUS
<1>5. y \in JobRows /\ y.pc = "queued" /\ job' = [job EXCEPT ![q] = y]
  BY <1>2, <1>4, RefundRows DEF JobRows
<1>6. req' \in [Requests -> ReqRows] /\ req'[q] = x /\ \A p \in Requests : p # q => req'[p] = req[p]
  BY <1>2, <1>3, SetRequest
<1>7. job' \in [Requests -> JobRows] /\ job'[q] = y /\ \A p \in Requests : p # q => job'[p] = job[p]
  BY <1>2, <1>5, SetJob
<1>8. ASSUME NEW p \in Requests PROVE RequestSound(p)'
  <2>1. CASE p = q
    BY <1>2, <1>3, <1>5, <1>6, <1>7, <2>1 DEF RequestSound
  <2>2. CASE p # q
    BY <1>2, <1>6, <1>7, <2>2, RequestKept DEF RefundInv
  <2> QED BY <2>1, <2>2
<1>9. \A p \in Requests : AtRisk(p)' => AtRisk(p)
  BY <1>3, <1>6 DEF AtRisk
<1>10. OverlapReported'
  BY <1>2, <1>9, OverlapKept DEF RefundInv, DisputeOpen
<1> QED BY <1>2, <1>6, <1>7, <1>8, <1>10, RefundTypes, PaymentStill

\* The job begins an attempt, unless a dispute blocks the refund.
LEMMA BeginInv == ASSUME RefundInv, NEW q \in Requests, BeginRefundAttempt(q) PROVE RefundInv'
<1>1. TypeOK /\ RequestSound(q) /\ job[q].pc = "queued" /\ UNCHANGED <<ord, restocks, shipped, payStatus, total, ext, prov, ev, crashes, dsp>>
      /\ req[q] \in ReqRows /\ job[q] \in JobRows /\ q \in Ids
  BY RefundRows DEF RefundInv, BeginRefundAttempt
<1>2. ASSUME NEW x \in ReqRows, NEW pc \in {"done", "call"}, req' = [req EXCEPT ![q] = x], job' = [job EXCEPT ![q].pc = pc, ![q].tries = @ + 1],
             recon' \subseteq Records, recon \subseteq recon', x.attempts = 0 => pc = "done" /\ prov[q] = "absent",
             x.status = "none" => x.attempts = 0,
             \A p \in Requests : <<"refund_blocked_by_dispute", p>> \in recon' =>
                 <<"refund_blocked_by_dispute", p>> \in recon \/ (p = q /\ x.status = "failed" /\ x.attempts = 0),
             <<"refund_blocked_by_dispute", q>> \in recon => x.status = "failed" /\ x.attempts = 0,
             Told' \/ ~DisputeOpen \/ ((x.status = "succeeded" \/ (x.status = "requested" /\ x.attempts > 0)) => AtRisk(q))
      PROVE  RefundInv'
  <2>1. PICK y : y = [job[q] EXCEPT !.pc = pc, !.tries = @ + 1]
    OBVIOUS
  <2>2. y \in JobRows /\ y.pc = pc /\ job' = [job EXCEPT ![q] = y]
    <3>1. job[q].tries + 1 \in Nat /\ pc \in {"none", "queued", "call", "sent", "error", "done", "dead"}
      BY <1>1 DEF JobRows
    <3> QED BY <1>1, <1>2, <2>1, <3>1, RefundRows DEF JobRows
  <2>3. req' \in [Requests -> ReqRows] /\ req'[q] = x /\ \A p \in Requests : p # q => req'[p] = req[p]
    BY <1>1, <1>2, SetRequest
  <2>4. job' \in [Requests -> JobRows] /\ job'[q] = y /\ \A p \in Requests : p # q => job'[p] = job[p]
    BY <1>1, <2>2, SetJob
  <2>5. ASSUME NEW p \in Requests PROVE RequestSound(p)'
    <3>1. CASE p = q
      BY <1>1, <1>2, <2>2, <2>3, <2>4, <3>1 DEF RequestSound
    <3>2. CASE p # q
      BY <1>1, <1>2, <2>3, <2>4, <3>2, RequestKept DEF RefundInv
    <3> QED BY <3>1, <3>2
  <2>6. OverlapReported'
    <3>1. CASE Told'
      BY <3>1, OverlapTold
    <3>2. CASE ~DisputeOpen
      BY <1>1, <3>2 DEF OverlapReported, DisputeOpen
    <3>3. CASE (x.status = "succeeded" \/ (x.status = "requested" /\ x.attempts > 0)) => AtRisk(q)
      <4>1. \A p \in Requests : AtRisk(p)' => AtRisk(p)
        BY <2>3, <3>3 DEF AtRisk
      <4> QED BY <1>1, <1>2, <4>1, OverlapKept DEF RefundInv, DisputeOpen
    <3> QED BY <1>2, <3>1, <3>2, <3>3
  <2> QED BY <1>1, <1>2, <2>3, <2>4, <2>5, <2>6, RefundTypes, PaymentStill
<1>3. recon \subseteq Records
  BY <1>1, RefundTypes
<1>4. CASE req[q].status # "requested"
  <2>1. job' = [job EXCEPT ![q].pc = "done", ![q].tries = @ + 1] /\ UNCHANGED <<req, recon>>
    BY <1>4 DEF BeginRefundAttempt
  <2>2. PICK x : x = req[q]
    OBVIOUS
  <2>3. req' = [req EXCEPT ![q] = x]
    BY <1>1, <2>1, <2>2, RefundRows
  <2>4. (x.attempts = 0 => prov[q] = "absent") /\ (x.status = "none" => x.attempts = 0)
        /\ (<<"refund_blocked_by_dispute", q>> \in recon => x.status = "failed" /\ x.attempts = 0)
    BY <1>1, <2>2 DEF RequestSound
  <2>5. (x.status = "succeeded" \/ (x.status = "requested" /\ x.attempts > 0)) => AtRisk(q)
    BY <2>2 DEF AtRisk
  <2> QED BY <1>1, <1>2, <1>3, <2>1, <2>2, <2>3, <2>4, <2>5
<1>5. CASE req[q].status = "requested" /\ Blocked(q)
  <2>1. PICK x : x = [req[q] EXCEPT !.status = "failed"]
    OBVIOUS
  <2>2. /\ job' = [job EXCEPT ![q].pc = "done", ![q].tries = @ + 1] /\ recon' = recon \cup {<<"refund_blocked_by_dispute", q>>}
        /\ req' = [req EXCEPT ![q].status = "failed", ![q].attempts = @]
    BY <1>5 DEF BeginRefundAttempt
  <2>3. req[q].attempts = 0
    BY <1>5 DEF Blocked
  <2>4. x \in ReqRows /\ x.status = "failed" /\ x.attempts = 0
    BY <1>1, <2>1, <2>3 DEF ReqRows
  <2>5. req' = [req EXCEPT ![q] = x]
    BY <1>1, <2>1, <2>2, RefundRows DEF ReqRows
  <2>6. recon' \subseteq Records
    BY <1>1, <1>3, <2>2 DEF Records
  <2> QED BY <1>1, <1>2, <2>2, <2>3, <2>4, <2>5, <2>6 DEF RequestSound
<1>6. CASE req[q].status = "requested" /\ ~Blocked(q)
  <2>1. PICK n : n = req[q].attempts + 1
    OBVIOUS
  <2>2. PICK x : x = [req[q] EXCEPT !.attempts = n]
    OBVIOUS
  <2>3. /\ job' = [job EXCEPT ![q].pc = "call", ![q].tries = @ + 1]
        /\ recon' = recon \cup (IF DisputeOpen THEN {<<"dispute_during_refund", q>>} ELSE {})
        /\ req' = [req EXCEPT ![q].status = @, ![q].attempts = n]
    BY <1>6, <2>1 DEF BeginRefundAttempt
  <2>4. n \in Nat /\ n > 0
    BY <1>1, <2>1 DEF ReqRows
  <2>5. x \in ReqRows /\ x.status = "requested" /\ x.attempts = n
    BY <1>1, <1>6, <2>2, <2>4 DEF ReqRows
  <2>6. req' = [req EXCEPT ![q] = x]
    BY <1>1, <2>2, <2>3, RefundRows DEF ReqRows
  <2>7. recon' \subseteq Records
    BY <1>1, <1>3, <2>3 DEF Records
  <2>8. <<"refund_blocked_by_dispute", q>> \notin recon
    BY <1>1, <1>6 DEF RequestSound
  <2>9. Told' \/ ~DisputeOpen
    BY <1>1, <2>3 DEF Told
  <2>10. \A p \in Requests : <<"refund_blocked_by_dispute", p>> \in recon' => <<"refund_blocked_by_dispute", p>> \in recon
    BY <2>3
  <2>11. recon \subseteq recon' /\ x.attempts # 0 /\ x.status # "none"
    BY <2>3, <2>4, <2>5
  <2> QED BY <1>2, <2>3, <2>5, <2>6, <2>7, <2>8, <2>9, <2>10, <2>11
<1> QED BY <1>4, <1>5, <1>6

\* The job of a request moves, and perhaps the provider with it.
LEMMA JobMoves ==
    ASSUME RefundInv, NEW q \in Requests, NEW y \in JobRows, job' = [job EXCEPT ![q] = y],
           UNCHANGED <<ord, restocks, shipped, payStatus, total, req, ext, dsp, recon>>, crashes' \in Nat,
           prov' \in [Ids -> {"absent", "pending", "succeeded", "failed"}], ev' \in [Ids -> [EventStatus -> EventRows]],
           \A p \in Requests : p # q => prov'[p] = prov[p],
           req[q].attempts = 0 => prov'[q] = "absent" /\ y.pc \notin {"call", "sent", "error"},
           y.pc = "sent" => prov'[q] # "absent"
    PROVE  RefundInv'
<1>1. TypeOK /\ RequestSound(q)
  BY DEF RefundInv
<1>2. job' \in [Requests -> JobRows] /\ job'[q] = y /\ \A p \in Requests : p # q => job'[p] = job[p]
  BY <1>1, SetJob
<1>3. ASSUME NEW p \in Requests PROVE RequestSound(p)'
  <2>1. CASE p = q
    BY <1>1, <1>2, <2>1 DEF RequestSound
  <2>2. CASE p # q
    BY <1>2, <2>2, RequestKept DEF RefundInv
  <2> QED BY <2>1, <2>2
<1>4. OverlapReported'
  BY OverlapKept DEF RefundInv, DisputeOpen, AtRisk
<1> QED BY <1>1, <1>2, <1>3, <1>4, RefundTypes, PaymentStill

\* The provider accepts a refund, and an event says so.
LEMMA AcceptedRows ==
    ASSUME TypeOK, NEW r \in Ids, ProviderAccepts(r)
    PROVE  /\ prov[r] = "absent" /\ prov' \in [Ids -> {"absent", "pending", "succeeded", "failed"}] /\ prov'[r] = "pending"
           /\ \A i \in Ids : i # r => prov'[i] = prov[i]
           /\ ev' \in [Ids -> [EventStatus -> EventRows]] /\ ev'[r]["pending"].pc = "sent"
           /\ \A i \in Ids, s \in EventStatus : i # r \/ s # "pending" => ev'[i][s] = ev[i][s]
<1>1. PICK x : x = [ev[r]["pending"] EXCEPT !.pc = "sent"]
  OBVIOUS
<1>2. "pending" \in EventStatus /\ ev[r]["pending"] \in EventRows /\ ev \in [Ids -> [EventStatus -> EventRows]]
  BY RefundRows DEF EventStatus
<1>3. x \in EventRows /\ x.pc = "sent"
  BY <1>1, <1>2 DEF EventRows
<1>4. ev' = [ev EXCEPT ![r]["pending"] = x]
  BY <1>1, <1>2 DEF ProviderAccepts
<1>5. /\ ev' \in [Ids -> [EventStatus -> EventRows]] /\ ev'[r]["pending"] = x
      /\ \A i \in Ids, t \in EventStatus : i # r \/ t # "pending" => ev'[i][t] = ev[i][t]
  BY <1>2, <1>3, <1>4, SetEvent
<1>6. prov[r] = "absent" /\ prov' = [prov EXCEPT ![r] = "pending"] /\ prov \in [Ids -> {"absent", "pending", "succeeded", "failed"}]
  BY RefundRows DEF ProviderAccepts
<1> QED BY <1>3, <1>5, <1>6

\* The call reaches the provider.
LEMMA SubmitInv == ASSUME RefundInv, NEW q \in Requests, SubmitRefund(q) PROVE RefundInv'
<1>1. /\ TypeOK /\ RequestSound(q) /\ job[q].pc = "call" /\ job' = [job EXCEPT ![q].pc = "sent"] /\ job[q] \in JobRows /\ q \in Ids
      /\ UNCHANGED <<ord, restocks, shipped, payStatus, total, req, ext, crashes, dsp, recon>>
  BY RefundRows DEF RefundInv, SubmitRefund
<1>2. PICK y : y = [job[q] EXCEPT !.pc = "sent"]
  OBVIOUS
<1>3. y \in JobRows /\ y.pc = "sent" /\ job' = [job EXCEPT ![q] = y]
  BY <1>1, <1>2, RefundRows DEF JobRows
<1>4. req[q].attempts # 0
  BY <1>1 DEF RequestSound
<1>5. /\ prov' \in [Ids -> {"absent", "pending", "succeeded", "failed"}] /\ ev' \in [Ids -> [EventStatus -> EventRows]]
      /\ \A i \in Ids : i # q => prov'[i] = prov[i]
      /\ prov'[q] # "absent"
  <2>1. CASE ProviderAccepts(q)
    BY <1>1, <2>1, AcceptedRows
  <2>2. CASE prov[q] # "absent" /\ UNCHANGED <<prov, ev>>
    BY <1>1, <2>2, RefundRows
  <2> QED BY <2>1, <2>2 DEF SubmitRefund
<1>6. crashes' \in Nat /\ Requests \subseteq Ids
  BY <1>1, RefundTypes, RefundRows
<1> QED BY <1>1, <1>3, <1>4, <1>5, <1>6, JobMoves

\* The call fails, or the worker dies.
LEMMA JobFailsInv == ASSUME RefundInv, NEW q \in Requests, SubmitFails(q) \/ WorkerDies(q) PROVE RefundInv'
<1>1. TypeOK /\ RequestSound(q) /\ job[q].pc \in {"call", "sent", "error"} /\ job[q] \in JobRows
      /\ UNCHANGED <<ord, restocks, shipped, payStatus, total, req, ext, prov, ev, dsp, recon>>
  BY RefundRows DEF RefundInv, SubmitFails, WorkerDies
<1>2. PICK s \in {"error", "queued", "dead"} : job' = [job EXCEPT ![q].pc = s]
  BY DEF SubmitFails, WorkerDies, Requeued
<1>3. PICK y : y = [job[q] EXCEPT !.pc = s]
  OBVIOUS
<1>4. y \in JobRows /\ y.pc = s /\ job' = [job EXCEPT ![q] = y]
  BY <1>1, <1>2, <1>3, RefundRows DEF JobRows
<1>5. req[q].attempts # 0 /\ crashes' \in Nat
  BY <1>1 DEF RequestSound, TypeOK, SubmitFails, WorkerDies
<1> QED BY <1>1, <1>4, <1>5, RefundTypes, JobMoves

\* A failed attempt is recorded: it is tried again, or a human is told.
LEMMA AttemptFailedInv == ASSUME RefundInv, NEW q \in Requests, RecordAttemptFailed(q) PROVE RefundInv'
<1>1. TypeOK /\ RequestSound(q) /\ job[q].pc = "error" /\ job[q] \in JobRows /\ req[q] \in ReqRows /\ q \in Ids
      /\ UNCHANGED <<ord, restocks, shipped, payStatus, total, ext, prov, ev, crashes, dsp>>
  BY RefundRows DEF RefundInv, RecordAttemptFailed
<1>2. PICK s \in {"done", "queued", "dead"} : job' = [job EXCEPT ![q].pc = s]
  BY DEF RecordAttemptFailed, Requeued
<1>3. PICK y : y = [job[q] EXCEPT !.pc = s]
  OBVIOUS
<1>4. y \in JobRows /\ y.pc = s /\ job' = [job EXCEPT ![q] = y]
  BY <1>1, <1>2, <1>3, RefundRows DEF JobRows
<1>5. job' \in [Requests -> JobRows] /\ job'[q] = y /\ \A p \in Requests : p # q => job'[p] = job[p]
  BY <1>1, <1>4, SetJob
<1>6. PICK live : live = (req[q].status = "requested")
  OBVIOUS
<1>7. CASE UNCHANGED <<req, recon>>
  BY <1>1, <1>4, <1>7, RefundTypes, JobMoves DEF RequestSound
<1>8. CASE req' = [req EXCEPT ![q].status = IF live THEN "uncertain" ELSE @] /\ recon' = recon \cup (IF live THEN {<<"refund_uncertain", q>>} ELSE {})
  <2>1. PICK x : x = [req[q] EXCEPT !.status = IF live THEN "uncertain" ELSE @]
    OBVIOUS
  <2>2. x \in ReqRows /\ x.attempts = req[q].attempts /\ x.status = IF live THEN "uncertain" ELSE req[q].status
    BY <1>1, <2>1 DEF ReqRows, InFlight
  <2>3. req' = [req EXCEPT ![q] = x]
    BY <1>1, <1>8, <2>1, RefundRows
  <2>4. req' \in [Requests -> ReqRows] /\ req'[q] = x /\ \A p \in Requests : p # q => req'[p] = req[p]
    BY <1>1, <2>2, <2>3, SetRequest
  <2>5. recon' \subseteq Records /\ recon \subseteq recon'
    BY <1>1, <1>8, RefundTypes DEF Records
  <2>6. \A p \in Requests : <<"refund_blocked_by_dispute", p>> \in recon' => <<"refund_blocked_by_dispute", p>> \in recon
    BY <1>8
  <2>7. ASSUME NEW p \in Requests PROVE RequestSound(p)'
    <3>1. CASE p = q
      BY <1>1, <1>4, <1>5, <1>6, <2>2, <2>4, <2>6, <3>1 DEF RequestSound
    <3>2. CASE p # q
      BY <1>1, <1>5, <2>4, <2>6, <3>2, RequestKept DEF RefundInv
    <3> QED BY <3>1, <3>2
  <2>8. \A p \in Requests : AtRisk(p)' => AtRisk(p)
    BY <2>2, <2>4 DEF AtRisk
  <2>9. OverlapReported'
    BY <1>1, <2>5, <2>8, OverlapKept DEF RefundInv, DisputeOpen
  <2> QED BY <1>1, <1>5, <2>4, <2>5, <2>7, <2>9, RefundTypes, PaymentStill
<1> QED BY <1>6, <1>7, <1>8 DEF RecordAttemptFailed

-----------------------------------------------------------------------------
(* The provider and its events.                                            *)

\* The provider moves: a refund without an attempt is not one of its own.
LEMMA ProviderMoves ==
    ASSUME RefundInv, UNCHANGED <<ord, restocks, shipped, payStatus, total, req, ext, job, crashes, dsp, recon>>,
           prov' \in [Ids -> {"absent", "pending", "succeeded", "failed"}], ev' \in [Ids -> [EventStatus -> EventRows]],
           \A q \in Requests : prov'[q] = prov[q] \/ (prov[q] # "absent" /\ prov'[q] # "absent")
    PROVE  RefundInv'
<1>1. TypeOK
  BY DEF RefundInv
<1>2. ASSUME NEW q \in Requests PROVE RequestSound(q)'
  BY DEF RefundInv, RequestSound
<1>3. OverlapReported'
  BY OverlapKept DEF RefundInv, DisputeOpen, AtRisk
<1> QED BY <1>1, <1>2, <1>3, RefundTypes, PaymentStill

\* A refund is made at the provider, or settles there.
LEMMA AtProviderInv ==
    ASSUME RefundInv, (\E x \in Externals : ExternalRefund(x)) \/ \E r \in Ids, s \in {"succeeded", "failed"} : Settle(r, s)
    PROVE  RefundInv'
<1>1. TypeOK /\ Requests \subseteq Ids
  BY RefundRows DEF RefundInv
<1>2. ASSUME NEW x \in Externals, ExternalRefund(x) PROVE RefundInv'
  <2>1. x \in Ids /\ ProviderAccepts(x) /\ UNCHANGED <<ord, restocks, shipped, payStatus, total, req, ext, job, crashes, dsp, recon>>
    BY <1>2 DEF ExternalRefund, Ids
  <2>2. x \notin Requests
    BY <1>2, DistinctAssumption
  <2>3. /\ prov' \in [Ids -> {"absent", "pending", "succeeded", "failed"}] /\ \A i \in Ids : i # x => prov'[i] = prov[i]
        /\ ev' \in [Ids -> [EventStatus -> EventRows]]
    BY <1>1, <2>1, AcceptedRows
  <2> QED BY <1>1, <2>1, <2>2, <2>3, ProviderMoves
<1>3. ASSUME NEW r \in Ids, NEW s \in {"succeeded", "failed"}, Settle(r, s) PROVE RefundInv'
  <2>1. /\ prov[r] = "pending" /\ prov' = [prov EXCEPT ![r] = s] /\ ev' = [ev EXCEPT ![r][s].pc = "sent"] /\ s \in EventStatus
        /\ UNCHANGED <<ord, restocks, shipped, payStatus, total, req, ext, job, crashes, dsp, recon>>
    BY <1>3 DEF Settle, EventStatus
  <2>2. PICK x : x = [ev[r][s] EXCEPT !.pc = "sent"]
    OBVIOUS
  <2>3. x \in EventRows /\ ev' = [ev EXCEPT ![r][s] = x]
    <3>1. ev[r][s] \in EventRows /\ ev \in [Ids -> [EventStatus -> EventRows]]
      BY <1>1, <2>1, RefundRows
    <3>2. x \in EventRows
      BY <2>2, <3>1 DEF EventRows
    <3>3. ev' = [ev EXCEPT ![r][s] = x]
      BY <2>1, <2>2, <3>1
    <3> QED BY <3>2, <3>3
  <2>4. ev' \in [Ids -> [EventStatus -> EventRows]]
    BY <1>1, <2>1, <2>3, SetEvent
  <2>5. prov' \in [Ids -> {"absent", "pending", "succeeded", "failed"}] /\ \A q \in Requests : prov'[q] = prov[q] \/ (prov[q] # "absent" /\ prov'[q] # "absent")
    BY <1>1, <2>1, RefundRows
  <2> QED BY <2>1, <2>4, <2>5, ProviderMoves
<1> QED BY <1>2, <1>3

\* A step that leaves requests and disputes alone, and may add records.
LEMMA RecordsAdded ==
    ASSUME RefundInv, UNCHANGED <<req, job, prov, dsp>>, recon \subseteq recon',
           \A q \in Requests : <<"refund_blocked_by_dispute", q>> \in recon' => <<"refund_blocked_by_dispute", q>> \in recon
    PROVE  (\A q \in Requests : RequestSound(q)') /\ OverlapReported'
<1>1. \A q \in Requests : RequestSound(q)'
  BY RequestKept DEF RefundInv
<1>2. OverlapReported'
  BY OverlapKept DEF RefundInv, DisputeOpen, AtRisk
<1> QED BY <1>1, <1>2

\* An event is matched with a row.
LEMMA MatchInv == ASSUME RefundInv, NEW r \in Ids, NEW s \in EventStatus, MatchRefund(r, s) PROVE RefundInv'
<1>1. TypeOK /\ UNCHANGED <<ord, restocks, shipped, payStatus, total, req, ext, prov, job, crashes, dsp, recon>>
  BY DEF RefundInv, MatchRefund
<1>2. PICK n \in Requests \cup {NoRow, ExtRow}, b \in {NotLoaded, total} : ev' = [ev EXCEPT ![r][s] = [pc |-> "read", row |-> n, base |-> b]]
  BY DEF MatchRefund, Active
<1>3. [pc |-> "read", row |-> n, base |-> b] \in EventRows
  BY <1>1 DEF EventRows, TypeOK
<1>4. ev' \in [Ids -> [EventStatus -> EventRows]]
  BY <1>1, <1>2, <1>3, SetEvent
<1>5. (\A q \in Requests : RequestSound(q)') /\ OverlapReported'
  BY <1>1, RecordsAdded
<1> QED BY <1>1, <1>4, <1>5, RefundTypes, PaymentStill

\* An event is acknowledged.
LEMMA AcknowledgedRows ==
    ASSUME TypeOK, NEW r \in Ids, NEW s \in EventStatus, Acknowledge(r, s)
    PROVE  /\ ev' \in [Ids -> [EventStatus -> EventRows]] /\ ev'[r][s].pc = "done"
           /\ \A i \in Ids, t \in EventStatus : i # r \/ t # s => ev'[i][t] = ev[i][t]
<1>1. PICK x : x = [NoEvent EXCEPT !.pc = "done"]
  OBVIOUS
<1>2. x \in EventRows /\ x.pc = "done" /\ ev' = [ev EXCEPT ![r][s] = x]
  BY <1>1 DEF NoEvent, EventRows, Acknowledge
<1> QED BY <1>2, SetEvent

\* An event about a refund that is known, or that is only flagged.
LEMMA NotedInv == ASSUME RefundInv, NEW r \in Ids, NEW s \in EventStatus, ApplyKnownExternal(r, s) \/ FlagUnknownRefund(r, s) PROVE RefundInv'
<1>1. TypeOK /\ UNCHANGED <<ord, restocks, shipped, payStatus, total, req, ext, prov, job, crashes, dsp>> /\ Acknowledge(r, s)
      /\ recon' \in {recon, recon \cup {<<"unknown_refund", r>>}}
  BY DEF RefundInv, ApplyKnownExternal, FlagUnknownRefund
<1>2. ev' \in [Ids -> [EventStatus -> EventRows]]
  BY <1>1, AcknowledgedRows
<1>3. recon' \subseteq Records /\ recon \subseteq recon'
  BY <1>1, RefundTypes DEF Records
<1>4. (\A q \in Requests : RequestSound(q)') /\ OverlapReported'
  BY <1>1, <1>3, RecordsAdded
<1> QED BY <1>1, <1>2, <1>3, <1>4, RefundTypes, PaymentStill

\* A refund made at the provider is recorded.
LEMMA RecordExternalInv == ASSUME RefundInv, NEW r \in Ids, RecordExternalRefund(r) PROVE RefundInv'
<1>1. TypeOK /\ UNCHANGED <<ord, restocks, shipped, req, prov, job, crashes, dsp>> /\ Acknowledge(r, "succeeded") /\ "succeeded" \in EventStatus
  BY DEF RefundInv, RecordExternalRefund, EventStatus
<1>2. ev' \in [Ids -> [EventStatus -> EventRows]]
  BY <1>1, AcknowledgedRows
<1>3. recon' \in {recon, recon \cup {<<"external_refund", r>>}, recon \cup {<<"refund_mismatch", r>>}}
  BY DEF RecordExternalRefund
<1>4. recon' \subseteq Records /\ recon \subseteq recon'
  BY <1>1, <1>3, RefundTypes DEF Records
<1>5. \A q \in Requests : <<"refund_blocked_by_dispute", q>> \in recon' => <<"refund_blocked_by_dispute", q>> \in recon
  BY <1>3
<1>6. (\A q \in Requests : RequestSound(q)') /\ OverlapReported'
  BY <1>1, <1>4, <1>5, RecordsAdded
<1>7. ext' \subseteq Ids /\ total' \in Nat /\ payStatus' \in {"succeeded", "refunded"}
  <2>1. CASE UNCHANGED <<ext, total, payStatus>>
    BY <1>1, <2>1 DEF TypeOK
  <2>2. CASE ~(UNCHANGED <<ext, total, payStatus>>)
    <3>1. PICK b : b = ev[r]["succeeded"].base
      OBVIOUS
    <3>2. /\ ext' = ext \cup {r} /\ total' = b + AmountOf(r)
          /\ payStatus' \in {payStatus, "refunded"}
      BY <2>2, <3>1 DEF RecordExternalRefund
    <3>3. b \in Nat \cup {NotLoaded}
      BY <1>1, <3>1, RefundRows DEF EventRows
    <3>4. AmountOf(r) \in Nat /\ AmountOf(r) > 0
      BY AmountType
    <3>5. b + AmountOf(r) \in Nat
      BY <3>3, <3>4 DEF NotLoaded
    <3> QED BY <1>1, <3>2, <3>5 DEF TypeOK
  <2> QED BY <2>1, <2>2
<1>8. ord' \in {"paid", "fulfilled", "refunded", "cancelled"} /\ restocks' \in Nat /\ shipped' \in BOOLEAN
  BY <1>1 DEF TypeOK
<1>9. TypeOK'
  BY <1>1, <1>2, <1>4, <1>7, <1>8, RefundTypes, TypeTogether
<1>10. GoodsSound'
  BY <1>1 DEF RefundInv, GoodsSound
<1> QED BY <1>6, <1>9, <1>10 DEF RefundInv

\* A dispute is opened, moves or ends: one that meets a submitted refund is reported.
LEMMA DisputeInv == ASSUME RefundInv, NEW d \in Disputes, NEW s \in OpenDispute \cup FinalDispute, DisputeEvent(d, s) PROVE RefundInv'
<1>1. /\ TypeOK /\ UNCHANGED <<ord, restocks, shipped, payStatus, total, req, ext, prov, ev, job, crashes>> /\ dsp' = [dsp EXCEPT ![d] = s]
      /\ dsp \in [Disputes -> OpenDispute \cup FinalDispute \cup {"none"}] /\ dsp[d] \notin FinalDispute
  BY DEF RefundInv, TypeOK, DisputeEvent
<1>2. PICK X \in SUBSET {<<"dispute_during_refund", d>>, <<"dispute_opened", d>>, <<"dispute_lost", d>>} :
        recon' = recon \cup X /\ (dsp[d] = "none" /\ s \in OpenDispute /\ Submitted => <<"dispute_during_refund", d>> \in X)
  <2>1. PICK A : A = IF dsp[d] = "none" /\ s \in OpenDispute /\ Submitted THEN {<<"dispute_during_refund", d>>} ELSE {}
    OBVIOUS
  <2>2. PICK B : B = IF dsp[d] = "none" /\ s \in OpenDispute THEN {<<"dispute_opened", d>>} ELSE {}
    OBVIOUS
  <2>3. PICK C : C = IF s = "lost" THEN {<<"dispute_lost", d>>} ELSE {}
    OBVIOUS
  <2>4. recon' = recon \cup A \cup B \cup C
    BY <2>1, <2>2, <2>3 DEF DisputeEvent
  <2>5. PICK Y : Y = A \cup B \cup C
    OBVIOUS
  <2>6. recon' = recon \cup Y /\ Y \subseteq {<<"dispute_during_refund", d>>, <<"dispute_opened", d>>, <<"dispute_lost", d>>} /\ A \subseteq Y
    BY <2>1, <2>2, <2>3, <2>4, <2>5
  <2> QED BY <2>1, <2>6
<1>3. dsp' \in [Disputes -> OpenDispute \cup FinalDispute \cup {"none"}] /\ \A e \in Disputes : e # d => dsp'[e] = dsp[e]
  BY <1>1
<1>4. recon' \subseteq Records /\ recon \subseteq recon' /\ \A q \in Requests : <<"refund_blocked_by_dispute", q>> \in recon' => <<"refund_blocked_by_dispute", q>> \in recon
  <2>1. recon \subseteq Records
    BY <1>1, RefundTypes
  <2>2. {<<"dispute_during_refund", d>>, <<"dispute_opened", d>>, <<"dispute_lost", d>>} \subseteq Records
    BY DEF Records
  <2> QED BY <1>2, <2>1, <2>2
<1>5. \A q \in Requests : RequestSound(q)'
  BY <1>1, <1>4, RequestKept DEF RefundInv
<1>6. OverlapReported'
  <2>1. CASE \E q \in Requests : AtRisk(q)
    <3>1. Submitted
      BY <1>1, <2>1, RefundRows DEF Submitted, AtRisk, ReqRows
    <3>2. CASE dsp[d] = "none" /\ s \in OpenDispute
      <4>1. Told'
        BY <1>2, <3>1, <3>2 DEF Told
      <4> QED BY <4>1, OverlapTold
    <3>3. CASE ~(dsp[d] = "none" /\ s \in OpenDispute)
      <4>1. DisputeOpen' => DisputeOpen
        BY <1>1, <1>3, <3>3 DEF DisputeOpen
      <4>2. \A q \in Requests : AtRisk(q)' => AtRisk(q)
        BY <1>1 DEF AtRisk
      <4> QED BY <1>4, <4>1, <4>2, OverlapKept DEF RefundInv
    <3> QED BY <3>2, <3>3
  <2>2. CASE ~\E q \in Requests : AtRisk(q)
    BY <1>1, <2>2 DEF OverlapReported, AtRisk
  <2> QED BY <2>1, <2>2
<1> QED BY <1>1, <1>3, <1>4, <1>5, <1>6, RefundTypes, PaymentStill

-----------------------------------------------------------------------------
(* Applying what the provider reports.                                     *)

\* What applying status s of provider refund r makes of request q.
AppliedRow(q, r, s) ==
    /\ req'[q].pid = LearnedId(q, r) /\ req'[q].attempts = req[q].attempts
    /\ req[q].status \notin InFlight => req'[q].status = req[q].status
    /\ req[q].status \in InFlight => req'[q].status = s \/ (s = "pending" /\ req'[q].status = req[q].status)
    /\ \A p \in Requests : p # q => req'[p] = req[p]

\* The request's row and the records.
LEMMA AppliedRows ==
    ASSUME TypeOK, NEW q \in Requests, NEW r \in Ids, NEW s \in EventStatus, NEW b, ApplyRefundState(q, r, s, b)
    PROVE  /\ req' \in [Requests -> ReqRows] /\ AppliedRow(q, r, s)
           /\ recon' \subseteq Records /\ recon \subseteq recon'
           /\ \A p \in Requests : <<"refund_blocked_by_dispute", p>> \in recon' => <<"refund_blocked_by_dispute", p>> \in recon
           /\ s = "succeeded" /\ req[q].status \in InFlight /\ DisputeOpen => Told'
<1>1. req[q] \in ReqRows /\ req \in [Requests -> ReqRows] /\ q \in Ids
  BY RefundRows
<1>2. PICK n : n = CASE s # "pending" /\ req[q].status \in InFlight -> s
                     [] s = "pending" /\ req[q].status = "requested" -> "pending"
                     [] OTHER -> req[q].status
  OBVIOUS
<1>3. PICK i : i = LearnedId(q, r)
  OBVIOUS
<1>4. req' = [req EXCEPT ![q].pid = i, ![q].status = n] /\ recon' = recon \cup RefundRecords(q, r, s)
  BY <1>2, <1>3 DEF ApplyRefundState
<1>5. i \in Ids \cup {NoRow}
  BY <1>1, <1>3 DEF LearnedId, ReqRows
<1>6. /\ req[q].status \notin InFlight => n = req[q].status
      /\ req[q].status \in InFlight => n = s \/ (s = "pending" /\ n = req[q].status)
      /\ n \in InFlight \cup {"none", "succeeded", "failed"}
  <2>1. req[q].status \in InFlight \cup {"none", "succeeded", "failed"}
    BY <1>1 DEF ReqRows
  <2>2. CASE req[q].status \notin InFlight
    BY <1>2, <2>1, <2>2
  <2>3. CASE req[q].status \in InFlight /\ s # "pending"
    BY <1>2, <2>1, <2>3 DEF EventStatus
  <2>4. CASE req[q].status \in InFlight /\ s = "pending"
    BY <1>2, <2>1, <2>4 DEF InFlight
  <2> QED BY <2>2, <2>3, <2>4
<1>7. PICK x : x = [req[q] EXCEPT !.pid = i, !.status = n]
  OBVIOUS
<1>8. x \in ReqRows /\ x.pid = i /\ x.status = n /\ x.attempts = req[q].attempts
  BY <1>1, <1>5, <1>6, <1>7 DEF ReqRows
<1>9. req' = [req EXCEPT ![q] = x]
  BY <1>1, <1>4, <1>7
<1>10. req' \in [Requests -> ReqRows] /\ req'[q] = x /\ \A p \in Requests : p # q => req'[p] = req[p]
  BY <1>8, <1>9, SetRequest
<1>11. AppliedRow(q, r, s)
  BY <1>3, <1>6, <1>8, <1>10 DEF AppliedRow
<1>12. RefundRecords(q, r, s) \subseteq {<<"refund_mismatch", q>>, <<"dispute_during_refund", q>>}
  BY DEF RefundRecords
<1>13. recon' \subseteq Records /\ recon \subseteq recon'
  <2>1. recon \subseteq Records /\ {<<"refund_mismatch", q>>, <<"dispute_during_refund", q>>} \subseteq Records
    BY <1>1, RefundTypes DEF Records
  <2> QED BY <1>4, <1>12, <2>1
<1>14. \A p \in Requests : <<"refund_blocked_by_dispute", p>> \in recon' => <<"refund_blocked_by_dispute", p>> \in recon
  BY <1>4, <1>12
<1>15. ASSUME s = "succeeded", req[q].status \in InFlight, DisputeOpen PROVE Told'
  <2>1. <<"dispute_during_refund", q>> \in RefundRecords(q, r, s)
    BY <1>15 DEF RefundRecords
  <2> QED BY <1>1, <1>4, <2>1 DEF Told
<1> QED BY <1>10, <1>11, <1>13, <1>14, <1>15

\* The order and the payment: an order's stock goes back when it never left, and once.
LEMMA AppliedGoods ==
    ASSUME RefundInv, NEW q \in Requests, NEW r \in Ids, NEW s \in EventStatus, NEW b \in Nat \cup {NotLoaded}, ApplyRefundState(q, r, s, b),
           UNCHANGED shipped
    PROVE  /\ GoodsSound' /\ ord' \in {"paid", "fulfilled", "refunded", "cancelled"} /\ restocks' \in Nat /\ shipped' \in BOOLEAN
           /\ payStatus' \in {"succeeded", "refunded"} /\ total' \in Nat
<1>1. TypeOK /\ GoodsSound /\ ord \in {"paid", "fulfilled", "refunded", "cancelled"} /\ restocks \in Nat /\ shipped \in BOOLEAN /\ total \in Nat
      /\ payStatus \in {"succeeded", "refunded"}
  BY DEF RefundInv, TypeOK
<1>2. CASE UNCHANGED <<total, payStatus, ord, restocks>>
  BY <1>1, <1>2 DEF GoodsSound
<1>3. CASE ConfirmRefund(q, AmountOf(r), b)
  <2>1. PICK n : n = Base(b) + AmountOf(r)
    OBVIOUS
  <2>2. n \in Nat
    BY <1>1, <2>1, AmountType DEF Base, NotLoaded
  <2>3. total' = n /\ payStatus' \in {payStatus, "refunded"}
    BY <1>3, <2>1 DEF ConfirmRefund
  <2>4. \/ ord' = ord /\ restocks' = restocks
        \/ /\ ord \in {"paid", "fulfilled"} /\ ord' = "refunded"
           /\ restocks' = restocks \/ (ord = "paid" /\ restocks = 0 /\ restocks' = restocks + 1)
    BY <1>3, <2>1 DEF ConfirmRefund, Restocks
  <2>5. GoodsSound'
    BY <1>1, <2>4 DEF GoodsSound
  <2> QED BY <1>1, <2>2, <2>3, <2>4, <2>5
<1> QED BY <1>2, <1>3 DEF ApplyRefundState

\* A step that applies what the provider reports keeps the invariant.
LEMMA AppliedInv ==
    ASSUME RefundInv, NEW q \in Requests, NEW r \in Ids, NEW s \in EventStatus, NEW b \in Nat \cup {NotLoaded}, ApplyRefundState(q, r, s, b),
           UNCHANGED <<shipped, ext, prov, crashes, dsp>>, ev' \in [Ids -> [EventStatus -> EventRows]], job' \in [Requests -> JobRows],
           \A p \in Requests : job'[p] = job[p] \/ job'[p].pc = "done"
    PROVE  RefundInv'
<1>1. TypeOK
  BY DEF RefundInv
<1>2. /\ req' \in [Requests -> ReqRows] /\ AppliedRow(q, r, s)
      /\ recon' \subseteq Records /\ recon \subseteq recon'
      /\ \A p \in Requests : <<"refund_blocked_by_dispute", p>> \in recon' => <<"refund_blocked_by_dispute", p>> \in recon
      /\ s = "succeeded" /\ req[q].status \in InFlight /\ DisputeOpen => Told'
  BY <1>1, AppliedRows
<1>3. /\ GoodsSound' /\ ord' \in {"paid", "fulfilled", "refunded", "cancelled"} /\ restocks' \in Nat /\ shipped' \in BOOLEAN
      /\ payStatus' \in {"succeeded", "refunded"} /\ total' \in Nat
  BY AppliedGoods
<1>4. TypeOK'
  BY <1>1, <1>2, <1>3, RefundTypes, TypeTogether
<1>5. ASSUME NEW p \in Requests PROVE RequestSound(p)'
  <2>1. RequestSound(p)
    BY DEF RefundInv
  <2>2. CASE p = q
    <3>1. req'[q].status = "none" => req[q].status = "none"
      BY <1>2 DEF AppliedRow, EventStatus
    <3>2. req[q].status = "failed" => req'[q].status = "failed"
      BY <1>2 DEF AppliedRow, InFlight
    <3> QED BY <1>2, <2>1, <2>2, <3>1, <3>2 DEF AppliedRow, RequestSound
  <2>3. CASE p # q
    <3>1. req'[p] = req[p]
      BY <1>2, <2>3 DEF AppliedRow
    <3> QED BY <1>2, <2>1, <3>1 DEF RequestSound
  <2> QED BY <2>2, <2>3
<1>6. OverlapReported'
  <2>1. CASE s = "succeeded" /\ req[q].status \in InFlight /\ DisputeOpen
    BY <1>2, <2>1, OverlapTold
  <2>2. CASE ~DisputeOpen
    BY <2>2 DEF OverlapReported, DisputeOpen
  <2>3. CASE ~(s = "succeeded" /\ req[q].status \in InFlight)
    <3>1. ASSUME NEW p \in Requests, AtRisk(p)' PROVE AtRisk(p)
      <4>1. CASE p # q
        BY <1>2, <3>1, <4>1 DEF AppliedRow, AtRisk
      <4>2. CASE p = q /\ req[q].status \notin InFlight
        BY <1>2, <3>1, <4>2 DEF AppliedRow, AtRisk
      <4>3. CASE p = q /\ req[q].status \in InFlight
        BY <1>2, <2>3, <3>1, <4>3 DEF AppliedRow, AtRisk, EventStatus
      <4> QED BY <4>1, <4>2, <4>3
    <3> QED BY <1>2, <3>1, OverlapKept DEF RefundInv, DisputeOpen
  <2> QED BY <2>1, <2>2, <2>3
<1> QED BY <1>3, <1>4, <1>5, <1>6 DEF RefundInv

\* The job applies the provider's answer.
LEMMA FinishInv == ASSUME RefundInv, NEW q \in Requests, FinishRefund(q) PROVE RefundInv'
<1>1. /\ TypeOK /\ RequestSound(q) /\ job[q].pc = "sent" /\ job' = [job EXCEPT ![q].pc = "done"] /\ UNCHANGED <<shipped, ext, prov, ev, crashes, dsp>>
      /\ job[q] \in JobRows /\ q \in Ids /\ prov[q] \in {"absent", "pending", "succeeded", "failed"}
  BY RefundRows DEF RefundInv, FinishRefund
<1>2. prov[q] \in EventStatus /\ "pending" \in EventStatus
  BY <1>1 DEF RequestSound, EventStatus
<1>3. PICK s \in EventStatus : ApplyRefundState(q, q, s, NotLoaded)
  BY <1>2 DEF FinishRefund
<1>4. PICK y : y = [job[q] EXCEPT !.pc = "done"]
  OBVIOUS
<1>5. y \in JobRows /\ y.pc = "done" /\ job' = [job EXCEPT ![q] = y]
  BY <1>1, <1>4, RefundRows DEF JobRows
<1>6. job' \in [Requests -> JobRows] /\ job'[q] = y /\ \A p \in Requests : p # q => job'[p] = job[p]
  BY <1>1, <1>5, SetJob
<1>7. ev' \in [Ids -> [EventStatus -> EventRows]] /\ \A p \in Requests : job'[p] = job[p] \/ job'[p].pc = "done"
  BY <1>1, <1>5, <1>6, RefundTypes
<1> QED BY <1>1, <1>3, <1>6, <1>7, AppliedInv

\* An event is applied to the request it matched.
LEMMA ApplyMatchedInv == ASSUME RefundInv, NEW r \in Ids, NEW s \in EventStatus, ApplyMatched(r, s) PROVE RefundInv'
<1>1. PICK q \in Requests : q = ev[r][s].row
  BY DEF ApplyMatched
<1>2. PICK b : b = ev[r][s].base
  OBVIOUS
<1>3. TypeOK /\ ApplyRefundState(q, r, s, b) /\ Acknowledge(r, s) /\ UNCHANGED <<shipped, ext, prov, job, crashes, dsp>>
  BY <1>1, <1>2 DEF RefundInv, ApplyMatched
<1>4. b \in Nat \cup {NotLoaded}
  BY <1>2, <1>3, RefundRows DEF EventRows
<1>5. ev' \in [Ids -> [EventStatus -> EventRows]] /\ job' \in [Requests -> JobRows]
  BY <1>3, AcknowledgedRows, RefundTypes
<1> QED BY <1>1, <1>3, <1>4, <1>5, AppliedInv

-----------------------------------------------------------------------------
(* The invariant.                                                          *)

\* At first nothing is requested, refunded or disputed.
LEMMA RefundInitInv == Init => RefundInv
<1> SUFFICES ASSUME Init PROVE RefundInv
  OBVIOUS
<1>1. /\ NoRequest \in ReqRows /\ NoEvent \in EventRows /\ [pc |-> "none", tries |-> 0] \in JobRows
      /\ NoRequest.status = "none" /\ NoRequest.attempts = 0
  BY DEF NoRequest, NoEvent, ReqRows, EventRows, JobRows
<1>2. TypeOK
  BY <1>1 DEF Init, TypeOK, ReqRows, EventRows, JobRows
<1>3. \A q \in Requests : RequestSound(q)
  BY <1>1 DEF Init, RequestSound, Ids
<1>4. OverlapReported
  BY DEF Init, OverlapReported, DisputeOpen, OpenDispute
<1>5. GoodsSound
  BY DEF Init, GoodsSound
<1> QED BY <1>2, <1>3, <1>4, <1>5 DEF RefundInv

\* Every step keeps the invariant.
LEMMA RefundStep == RefundInv /\ [Next]_vars => RefundInv'
<1> SUFFICES ASSUME RefundInv, [Next]_vars PROVE RefundInv'
  OBVIOUS
<1>1. CASE Fulfil
  BY <1>1, FulfilInv
<1>2. ASSUME NEW q \in Requests, JobStep(q) \/ WorkerDies(q) \/ \E cancels \in BOOLEAN : RequestRefund(q, cancels) PROVE RefundInv'
  BY <1>2, BeginInv, SubmitInv, JobFailsInv, AttemptFailedInv, FinishInv, RequestRefundInv DEF JobStep
<1>3. ASSUME NEW r \in Ids, EventStep(r) PROVE RefundInv'
  BY <1>3, MatchInv, ApplyMatchedInv, NotedInv, RecordExternalInv DEF EventStep
<1>4. ASSUME NEW d \in Disputes, NEW s \in OpenDispute \cup FinalDispute, DisputeEvent(d, s) PROVE RefundInv'
  BY <1>4, DisputeInv
<1>5. CASE UNCHANGED vars
  <2>1. UNCHANGED <<ord, restocks, shipped, payStatus, total, req, ext, prov, ev, job, crashes, dsp, recon>> /\ TypeOK
    BY <1>5 DEF vars, RefundInv
  <2>2. (\A q \in Requests : RequestSound(q)') /\ OverlapReported'
    BY <2>1, RecordsAdded
  <2> QED BY <2>1, <2>2, RefundTypes, PaymentStill
<1> QED BY <1>1, <1>2, <1>3, <1>4, <1>5, AtProviderInv DEF Next

\* The rows, the provider and the handlers have the values TypeOK says, and the invariant holds, in every state.
THEOREM RefundInvariant == Spec => []RefundInv
  BY RefundInitInv, RefundStep, PTL DEF Spec

\* What the invariant says of disputes and of goods.
LEMMA RefundSafe == RefundInv => TypeOK /\ DisputesRespected /\ ShippedStaysOut
<1> SUFFICES ASSUME RefundInv PROVE TypeOK /\ DisputesRespected /\ ShippedStaysOut
  OBVIOUS
<1>1. BlockedNeverSubmitted
  BY DEF RefundInv, RequestSound, BlockedNeverSubmitted
<1>2. ShippedStaysOut
  BY DEF RefundInv, GoodsSound, ShippedStaysOut
<1> QED BY <1>1, <1>2 DEF RefundInv, DisputesRespected

\* A dispute and a refund of the same payment never meet unnoticed: the refund is not sent, or somebody is told, whatever the jobs, the
\* provider and its events do in between (begin_refund, apply_dispute_event, apply_refund_state).
THEOREM DisputesMet == Spec => []DisputesRespected
  BY RefundInitInv, RefundStep, RefundSafe, PTL DEF Spec

\* Goods that were shipped are never counted back into stock, and an order's stock goes back at most once (_confirm_refund).
THEOREM StockReleasedOnce == Spec => []ShippedStaysOut
  BY RefundInitInv, RefundStep, RefundSafe, PTL DEF Spec

-----------------------------------------------------------------------------
(* What the rows say when every refund is NovaCart's own.                  *)

\* An event of refund q came after what it tells, and is matched with the row of q.
EventsSound(q) ==
    \A s \in EventStatus :
        /\ ev[q][s].pc # "none" => prov[q] # "absent" /\ (s # "pending" => prov[q] = s)
        /\ ev[q][s].pc = "read" => ev[q][s].row = q
        /\ ev[q][s].pc = "done" => req[q].pid = q

\* A refund that may have reached the provider is in flight or has been told about, and one that failed was refused or never sent.
OwnSound(q) ==
    /\ req[q].pid \in {NoRow, q}
    /\ req[q].attempts # 0 => req[q].status \in InFlight \/ req[q].pid = q
    /\ req[q].status = "failed" => prov[q] = "failed" \/ req[q].attempts = 0
    /\ req[q].status = "none" => req[q].pid = NoRow

OneActive == \A q, p \in Requests : req[q].status \in InFlight /\ req[p].status \in InFlight => q = p

OwnInv ==
    /\ RefundInv /\ ext = {} /\ OneActive
    /\ \A q \in Requests : EventsSound(q) /\ OwnSound(q)

\* A step that leaves the rows of requests alone.
LEMMA OwnKept ==
    ASSUME OwnInv, RefundInv', UNCHANGED <<req, prov, ev, ext>> PROVE OwnInv'
<1>1. \A q \in Requests : EventsSound(q)' /\ OwnSound(q)'
  BY DEF OwnInv, EventsSound, OwnSound
<1> QED BY <1>1 DEF OwnInv, OneActive

\* A step that changes one request's row, and no event: it brings nothing in flight that was not, and the row stays sound.
LEMMA OwnRow ==
    ASSUME OwnInv, RefundInv', UNCHANGED <<prov, ev, ext>>, NEW q \in Requests, \A p \in Requests : p # q => req'[p] = req[p],
           req[q].pid = q => req'[q].pid = q, OwnSound(q)', req'[q].status \in InFlight => req[q].status \in InFlight
    PROVE  OwnInv'
<1>1. ASSUME NEW p \in Requests PROVE EventsSound(p)' /\ OwnSound(p)'
  <2>1. EventsSound(p) /\ OwnSound(p)
    BY DEF OwnInv
  <2>2. req[p].pid = p => req'[p].pid = p
    BY DEF OwnInv
  <2>3. EventsSound(p)'
    BY <2>1, <2>2 DEF EventsSound
  <2>4. CASE p # q
    BY <2>1, <2>3, <2>4 DEF OwnSound
  <2> QED BY <2>3, <2>4
<1>2. OneActive'
  <2>1. \A p \in Requests : req'[p].status \in InFlight => req[p].status \in InFlight
    OBVIOUS
  <2> QED BY <2>1 DEF OwnInv, OneActive
<1> QED BY <1>1, <1>2 DEF OwnInv

\* A refund is requested when none is in flight.
LEMMA OwnRequest == ASSUME OwnInv, RefundInv', NEW q \in Requests, NEW cancels \in BOOLEAN, RequestRefund(q, cancels) PROVE OwnInv'
<1>1. PICK x : x = [NoRequest EXCEPT !.status = "requested", !.cancels = cancels]
  OBVIOUS
<1>2. TypeOK /\ RequestSound(q) /\ req' = [req EXCEPT ![q] = x] /\ Active = {} /\ UNCHANGED <<prov, ev, ext>> /\ req[q].status = "none"
  BY <1>1 DEF OwnInv, RefundInv, RequestRefund
<1>3. x \in ReqRows /\ x.status = "requested" /\ x.attempts = 0 /\ x.pid = NoRow
  BY <1>1 DEF NoRequest, ReqRows, InFlight
<1>4. req'[q] = x /\ \A p \in Requests : p # q => req'[p] = req[p]
  BY <1>2, <1>3, SetRequest
<1>5. OneActive'
  BY <1>2, <1>4 DEF OneActive, Active
<1>6. prov[q] = "absent" /\ q # NoRow /\ OwnSound(q) /\ req[q].pid = NoRow
  BY <1>2, DistinctAssumption DEF RequestSound, Ids, OwnInv, OwnSound
<1>7. ASSUME NEW p \in Requests PROVE EventsSound(p)' /\ OwnSound(p)'
  <2>1. EventsSound(p) /\ OwnSound(p)
    BY DEF OwnInv
  <2>2. CASE p = q
    BY <1>2, <1>3, <1>4, <1>6, <2>1, <2>2 DEF EventsSound, OwnSound
  <2>3. CASE p # q
    BY <1>2, <1>4, <2>1, <2>3 DEF EventsSound, OwnSound
  <2> QED BY <2>2, <2>3
<1> QED BY <1>2, <1>5, <1>7 DEF OwnInv

\* An attempt begins or its failure is recorded.
LEMMA OwnAttempt == ASSUME OwnInv, RefundInv', NEW q \in Requests, BeginRefundAttempt(q) \/ RecordAttemptFailed(q) PROVE OwnInv'
<1>1. TypeOK /\ req[q] \in ReqRows /\ req \in [Requests -> ReqRows] /\ OwnSound(q) /\ UNCHANGED <<prov, ev, ext>>
  BY RefundRows DEF OwnInv, RefundInv, BeginRefundAttempt, RecordAttemptFailed
<1>2. CASE UNCHANGED req
  BY <1>1, <1>2, OwnKept
<1>3. CASE req[q].status = "requested" /\ \E n \in Nat : req' = [req EXCEPT ![q].status = @, ![q].attempts = n]
  <2>1. PICK n \in Nat : req' = [req EXCEPT ![q].status = @, ![q].attempts = n]
    BY <1>3
  <2>2. PICK x : x = [req[q] EXCEPT !.status = @, !.attempts = n]
    OBVIOUS
  <2>3. x \in ReqRows /\ x.status = "requested" /\ x.pid = req[q].pid
    BY <1>1, <1>3, <2>2 DEF ReqRows
  <2>4. req' = [req EXCEPT ![q] = x]
    BY <1>1, <2>1, <2>2
  <2>5. req'[q] = x /\ \A p \in Requests : p # q => req'[p] = req[p]
    BY <1>1, <2>3, <2>4, SetRequest
  <2>6. OwnSound(q)'
    BY <1>1, <1>3, <2>3, <2>5 DEF OwnSound, InFlight
  <2> QED BY <1>1, <1>3, <2>3, <2>5, <2>6, OwnRow DEF InFlight
<1>4. CASE req[q].status = "requested" /\ req[q].attempts = 0 /\ req' = [req EXCEPT ![q].status = "failed", ![q].attempts = @]
  <2>1. PICK x : x = [req[q] EXCEPT !.status = "failed", !.attempts = @]
    OBVIOUS
  <2>2. x \in ReqRows /\ x.status = "failed" /\ x.pid = req[q].pid /\ x.attempts = 0
    BY <1>1, <1>4, <2>1 DEF ReqRows
  <2>3. req' = [req EXCEPT ![q] = x]
    BY <1>1, <1>4, <2>1
  <2>4. req'[q] = x /\ \A p \in Requests : p # q => req'[p] = req[p]
    BY <1>1, <2>2, <2>3, SetRequest
  <2>5. prov[q] = "absent"
    BY <1>4 DEF OwnInv, RefundInv, RequestSound
  <2>6. OwnSound(q)'
    BY <1>1, <2>2, <2>4, <2>5 DEF OwnSound
  <2> QED BY <1>1, <1>4, <2>2, <2>4, <2>6, OwnRow DEF InFlight
<1>5. CASE req' = [req EXCEPT ![q].status = IF req[q].status = "requested" THEN "uncertain" ELSE @]
  <2>1. PICK x : x = [req[q] EXCEPT !.status = IF req[q].status = "requested" THEN "uncertain" ELSE @]
    OBVIOUS
  <2>2. x \in ReqRows /\ x.status = (IF req[q].status = "requested" THEN "uncertain" ELSE req[q].status) /\ x.pid = req[q].pid /\ x.attempts = req[q].attempts
    BY <1>1, <2>1 DEF ReqRows, InFlight
  <2>3. req' = [req EXCEPT ![q] = x]
    BY <1>1, <1>5, <2>1
  <2>4. req'[q] = x /\ \A p \in Requests : p # q => req'[p] = req[p]
    BY <1>1, <2>2, <2>3, SetRequest
  <2>5. (x.status \in InFlight <=> req[q].status \in InFlight) /\ (x.status = "failed" => req[q].status = "failed") /\ (x.status = "none" => req[q].status = "none")
    BY <2>2 DEF InFlight
  <2>6. OwnSound(q)'
    BY <1>1, <2>2, <2>4, <2>5 DEF OwnSound
  <2> QED BY <1>1, <2>2, <2>4, <2>5, <2>6, OwnRow
<1>6. CASE BeginRefundAttempt(q) /\ ~(UNCHANGED req)
  <2>1. req[q].status = "requested"
    BY <1>6 DEF BeginRefundAttempt
  <2>2. CASE Blocked(q)
    <3>1. req' = [req EXCEPT ![q].status = "failed", ![q].attempts = @] /\ req[q].attempts = 0
      BY <1>6, <2>1, <2>2 DEF BeginRefundAttempt, Blocked
    <3> QED BY <1>4, <2>1, <3>1
  <2>3. CASE ~Blocked(q)
    <3>1. req' = [req EXCEPT ![q].status = @, ![q].attempts = @ + 1]
      BY <1>6, <2>1, <2>3 DEF BeginRefundAttempt
    <3>2. req[q].attempts + 1 \in Nat
      BY <1>1 DEF ReqRows
    <3>3. req' = [req EXCEPT ![q].status = @, ![q].attempts = req[q].attempts + 1]
      BY <1>1, <3>1
    <3> QED BY <1>3, <2>1, <3>2, <3>3
  <2> QED BY <2>2, <2>3
<1> QED BY <1>2, <1>5, <1>6 DEF RecordAttemptFailed

\* The provider accepts a refund, which some attempt was counted for.
LEMMA OwnAccepted == ASSUME OwnInv, RefundInv', NEW q \in Requests, UNCHANGED <<req, ext>>, ProviderAccepts(q), req[q].attempts # 0 PROVE OwnInv'
<1>1. TypeOK /\ q \in Ids /\ Requests \subseteq Ids
  BY RefundRows DEF OwnInv, RefundInv
<1>2. /\ prov[q] = "absent" /\ prov'[q] = "pending" /\ ev'[q]["pending"].pc = "sent" /\ (\A i \in Ids : i # q => prov'[i] = prov[i])
      /\ \A i \in Ids, s \in EventStatus : i # q \/ s # "pending" => ev'[i][s] = ev[i][s]
  BY <1>1, AcceptedRows
<1>3. ASSUME NEW p \in Requests PROVE EventsSound(p)' /\ OwnSound(p)'
  <2>1. EventsSound(p) /\ OwnSound(p) /\ p \in Ids
    BY <1>1 DEF OwnInv
  <2>2. CASE p # q
    BY <1>2, <2>1, <2>2 DEF EventsSound, OwnSound
  <2>3. CASE p = q
    <3>1. OwnSound(q)'
      BY <1>2, <2>1, <2>3 DEF OwnSound
    <3>2. ASSUME NEW s \in EventStatus, s # "pending" PROVE ev'[q][s].pc = "none"
      BY <1>1, <1>2, <2>1, <2>3, <3>2 DEF EventsSound
    <3>3. EventsSound(q)'
      BY <1>2, <3>2 DEF EventsSound
    <3> QED BY <2>3, <3>1, <3>3
  <2> QED BY <2>2, <2>3
<1> QED BY <1>3 DEF OwnInv, OneActive

\* A refund settles at the provider.
LEMMA OwnSettled == ASSUME OwnInv, RefundInv', NEW q \in Requests, NEW s \in {"succeeded", "failed"}, Settle(q, s) PROVE OwnInv'
<1>1. TypeOK /\ q \in Ids /\ Requests \subseteq Ids /\ UNCHANGED <<req, ext>> /\ prov[q] = "pending" /\ prov' = [prov EXCEPT ![q] = s]
      /\ ev' = [ev EXCEPT ![q][s].pc = "sent"] /\ s \in EventStatus /\ prov \in [Ids -> {"absent", "pending", "succeeded", "failed"}]
  BY RefundRows DEF OwnInv, RefundInv, Settle, EventStatus
<1>2. PICK x : x = [ev[q][s] EXCEPT !.pc = "sent"]
  OBVIOUS
<1>3. ev[q][s] \in EventRows /\ ev \in [Ids -> [EventStatus -> EventRows]]
  BY <1>1, RefundRows
<1>4. x \in EventRows /\ x.pc = "sent"
  BY <1>2, <1>3 DEF EventRows
<1>5. ev' = [ev EXCEPT ![q][s] = x]
  BY <1>1, <1>2, <1>3
<1>6. /\ ev'[q][s] = x
      /\ \A i \in Ids, t \in EventStatus : i # q \/ t # s => ev'[i][t] = ev[i][t]
  <2>1. TypeOK /\ q \in Ids /\ s \in EventStatus /\ x \in EventRows
    BY <1>1, <1>4
  <2> QED BY ONLY <1>5, <2>1, SetEvent
<1>7. prov'[q] = s /\ \A i \in Ids : i # q => prov'[i] = prov[i]
  BY <1>1
<1>8. ASSUME NEW p \in Requests PROVE EventsSound(p)' /\ OwnSound(p)'
  <2>1. EventsSound(p) /\ OwnSound(p) /\ p \in Ids /\ RequestSound(p)
    BY <1>1 DEF OwnInv, RefundInv
  <2>2. CASE p # q
    BY <1>1, <1>6, <1>7, <2>1, <2>2 DEF EventsSound, OwnSound
  <2>3. CASE p = q
    <3>1. OwnSound(q)'
      BY <1>1, <1>7, <2>1, <2>3 DEF OwnSound, RequestSound
    <3>2. EventsSound(q)'
      BY <1>1, <1>4, <1>6, <1>7, <2>1, <2>3 DEF EventsSound
    <3> QED BY <2>3, <3>1, <3>2
  <2> QED BY <2>2, <2>3
<1> QED BY <1>1, <1>8 DEF OwnInv, OneActive

\* What the provider reports of refund q is applied to request q.
LEMMA OwnApplied ==
    ASSUME OwnInv, RefundInv', UNCHANGED <<prov, ext>>, NEW q \in Requests, NEW s \in EventStatus, NEW b, ApplyRefundState(q, q, s, b),
           prov[q] # "absent", s # "pending" => prov[q] = s,
           \A p \in Requests, t \in EventStatus : ev'[p][t] = ev[p][t] \/ (p = q /\ ev'[p][t].pc = "done" /\ ev[p][t].pc # "none")
    PROVE  OwnInv'
<1>1. TypeOK /\ q \in Ids /\ RequestSound(q) /\ OwnSound(q) /\ q # NoRow
  BY RefundRows, DistinctAssumption DEF OwnInv, RefundInv
<1>2. AppliedRow(q, q, s)
  BY <1>1, AppliedRows
<1>3. req'[q].pid = q
  BY <1>1, <1>2 DEF AppliedRow, LearnedId, OwnSound
<1>4. OwnSound(q)'
  <2>1. req'[q].status = "failed" => prov[q] = "failed" \/ req'[q].attempts = 0
    BY <1>1, <1>2 DEF AppliedRow, OwnSound, InFlight, EventStatus
  <2>2. req'[q].status # "none"
    <3>1. req[q].status # "none"
      BY <1>1 DEF RequestSound
    <3> QED BY <1>2, <3>1 DEF AppliedRow, EventStatus
  <2> QED BY <1>3, <2>1, <2>2 DEF OwnSound
<1>5. ASSUME NEW p \in Requests PROVE EventsSound(p)' /\ OwnSound(p)'
  <2>1. EventsSound(p) /\ OwnSound(p)
    BY DEF OwnInv
  <2>2. CASE p = q
    <3>1. EventsSound(q)'
      BY <1>3, <2>1, <2>2 DEF EventsSound
    <3> QED BY <1>4, <2>2, <3>1
  <2>3. CASE p # q
    <3>1. req'[p] = req[p]
      BY <1>2, <2>3 DEF AppliedRow
    <3> QED BY <2>1, <2>3, <3>1 DEF EventsSound, OwnSound
  <2> QED BY <2>2, <2>3
<1>6. \A p \in Requests : req'[p].status \in InFlight => req[p].status \in InFlight
  BY <1>2 DEF AppliedRow
<1>7. OneActive'
  BY <1>6 DEF OwnInv, OneActive
<1> QED BY <1>5, <1>7 DEF OwnInv

\* The job's own steps.
LEMMA OwnJob == ASSUME OwnInv, RefundInv', NEW q \in Requests, SubmitRefund(q) \/ SubmitFails(q) \/ WorkerDies(q) \/ FinishRefund(q) PROVE OwnInv'
<1>1. TypeOK /\ RequestSound(q) /\ q \in Ids /\ prov[q] \in {"absent", "pending", "succeeded", "failed"}
  BY RefundRows DEF OwnInv, RefundInv
<1>2. CASE SubmitRefund(q)
  <2>1. UNCHANGED <<req, ext>> /\ req[q].attempts # 0
    BY <1>1, <1>2 DEF SubmitRefund, RequestSound
  <2>2. CASE ProviderAccepts(q)
    BY <2>1, <2>2, OwnAccepted
  <2>3. CASE UNCHANGED <<prov, ev>>
    BY <2>1, <2>3, OwnKept
  <2> QED BY <1>2, <2>2, <2>3 DEF SubmitRefund
<1>3. CASE SubmitFails(q) \/ WorkerDies(q)
  BY <1>3, OwnKept DEF SubmitFails, WorkerDies
<1>4. CASE FinishRefund(q)
  <2>1. prov[q] # "absent" /\ UNCHANGED <<prov, ev, ext>>
    BY <1>1, <1>4 DEF FinishRefund, RequestSound
  <2>2. PICK s \in {"pending", prov[q]} : ApplyRefundState(q, q, s, NotLoaded)
    BY <1>4 DEF FinishRefund
  <2>3. s \in EventStatus /\ (s # "pending" => prov[q] = s)
    BY <1>1, <2>1, <2>2 DEF EventStatus
  <2> QED BY <2>1, <2>2, <2>3, OwnApplied
<1> QED BY <1>2, <1>3, <1>4

\* An event of refund r is matched with the row of r.
LEMMA OwnMatch == ASSUME OwnInv, RefundInv', NEW r \in Requests, NEW s \in EventStatus, MatchRefund(r, s) PROVE OwnInv'
<1>1. /\ TypeOK /\ RequestSound(r) /\ OwnSound(r) /\ EventsSound(r) /\ ext = {} /\ r \in Ids /\ r # NoRow /\ Requests \subseteq Ids
      /\ UNCHANGED <<req, prov, ext>> /\ ev[r][s].pc = "sent" /\ total \in Nat
  BY RefundRows, DistinctAssumption DEF OwnInv, RefundInv, TypeOK, MatchRefund
<1>2. prov[r] # "absent"
  BY <1>1 DEF EventsSound
<1>3. req[r].status \in InFlight \/ req[r].pid = r
  BY <1>1, <1>2 DEF RequestSound, OwnSound
<1>4. \A q \in Requests : req[q].pid = r => q = r
  BY <1>1 DEF OwnInv, OwnSound
<1>5. PICK b \in {NotLoaded, total} : ev' = [ev EXCEPT ![r][s] = [pc |-> "read", row |-> r, base |-> b]]
  <2>1. CASE req[r].pid = r
    <3>1. {q \in Requests : req[q].pid = r} = {r}
      BY <1>4, <2>1
    <3> QED BY <3>1 DEF MatchRefund
  <2>2. CASE req[r].pid # r
    <3>1. {q \in Requests : req[q].pid = r} = {} /\ Active = {r}
      BY <1>3, <1>4, <2>2 DEF Active, OwnInv, OneActive
    <3> QED BY <1>1, <3>1 DEF MatchRefund
  <2> QED BY <2>1, <2>2
<1>6. PICK x : x = [pc |-> "read", row |-> r, base |-> b]
  OBVIOUS
<1>7. x \in EventRows /\ x.pc = "read" /\ x.row = r /\ ev' = [ev EXCEPT ![r][s] = x]
  BY <1>1, <1>5, <1>6 DEF EventRows
<1>8. /\ ev'[r][s] = x
      /\ \A i \in Ids, t \in EventStatus : i # r \/ t # s => ev'[i][t] = ev[i][t]
  <2>1. TypeOK /\ r \in Ids /\ x \in EventRows /\ ev' = [ev EXCEPT ![r][s] = x]
    BY <1>1, <1>7
  <2> QED BY <2>1, SetEvent
<1>9. ASSUME NEW p \in Requests PROVE EventsSound(p)' /\ OwnSound(p)'
  <2>1. EventsSound(p) /\ OwnSound(p) /\ p \in Ids
    BY <1>1 DEF OwnInv
  <2> QED BY <1>1, <1>7, <1>8, <2>1 DEF EventsSound, OwnSound
<1> QED BY <1>1, <1>9 DEF OwnInv, OneActive

\* An event that was matched is applied to its request.
LEMMA OwnEvent == ASSUME OwnInv, RefundInv', NEW r \in Requests, EventStep(r) PROVE OwnInv'
<1>1. TypeOK /\ EventsSound(r) /\ r \in Ids /\ Requests \subseteq Ids /\ r # NoRow /\ r # ExtRow /\ "succeeded" \in EventStatus
  BY RefundRows, DistinctAssumption DEF OwnInv, RefundInv, EventStatus
<1>2. ~RecordExternalRefund(r) /\ \A s \in EventStatus : ~ApplyKnownExternal(r, s) /\ ~FlagUnknownRefund(r, s)
  BY <1>1 DEF EventsSound, RecordExternalRefund, ApplyKnownExternal, FlagUnknownRefund
<1>3. ASSUME NEW s \in EventStatus, ApplyMatched(r, s) PROVE OwnInv'
  <2>1. PICK b : b = ev[r][s].base
    OBVIOUS
  <2>2. ev[r][s].pc = "read" /\ ev[r][s].row = r /\ prov[r] # "absent" /\ (s # "pending" => prov[r] = s)
    BY <1>1, <1>3 DEF ApplyMatched, EventsSound
  <2>3. ApplyRefundState(r, r, s, b) /\ Acknowledge(r, s) /\ UNCHANGED <<prov, ext>>
    BY <1>3, <2>1, <2>2 DEF ApplyMatched
  <2>4. ev'[r][s].pc = "done" /\ \A i \in Ids, t \in EventStatus : i # r \/ t # s => ev'[i][t] = ev[i][t]
    BY <1>1, <2>3, AcknowledgedRows
  <2>5. \A p \in Requests, t \in EventStatus : ev'[p][t] = ev[p][t] \/ (p = r /\ ev'[p][t].pc = "done" /\ ev[p][t].pc # "none")
    BY <1>1, <2>2, <2>4
  <2> QED BY <2>2, <2>3, <2>5, OwnApplied
<1> QED BY <1>2, <1>3, OwnMatch DEF EventStep

\* Every step keeps the invariant when no refund is made outside NovaCart.
LEMMA OwnStep == ASSUME Externals = {}, OwnInv, [Next]_vars PROVE OwnInv'
<1>1. RefundInv' /\ Ids = Requests
  BY RefundStep DEF OwnInv, Ids
<1>2. CASE Fulfil
  BY <1>1, <1>2, OwnKept DEF Fulfil
<1>3. ASSUME NEW q \in Requests, JobStep(q) \/ WorkerDies(q) \/ \E cancels \in BOOLEAN : RequestRefund(q, cancels) PROVE OwnInv'
  BY <1>1, <1>3, OwnJob, OwnAttempt, OwnRequest DEF JobStep
<1>4. ASSUME NEW r \in Ids, EventStep(r) \/ \E s \in {"succeeded", "failed"} : Settle(r, s) PROVE OwnInv'
  BY <1>1, <1>4, OwnEvent, OwnSettled
<1>5. ASSUME NEW d \in Disputes, NEW s \in OpenDispute \cup FinalDispute, DisputeEvent(d, s) PROVE OwnInv'
  BY <1>1, <1>5, OwnKept DEF DisputeEvent
<1>6. CASE UNCHANGED vars
  BY <1>1, <1>6, OwnKept DEF vars
<1> QED BY <1>2, <1>3, <1>4, <1>5, <1>6 DEF Next

\* It holds at first.
LEMMA OwnInitInv == Init => OwnInv
<1> SUFFICES ASSUME Init PROVE OwnInv
  OBVIOUS
<1>1. ASSUME NEW q \in Requests PROVE req[q].status = "none" /\ req[q].attempts = 0 /\ req[q].pid = NoRow /\ \A s \in EventStatus : ev[q][s].pc = "none"
  BY DEF Init, NoRequest, NoEvent, Ids
<1>2. \A q \in Requests : EventsSound(q) /\ OwnSound(q)
  BY <1>1 DEF EventsSound, OwnSound
<1>3. OneActive /\ ext = {}
  BY <1>1 DEF Init, OneActive, InFlight
<1> QED BY <1>2, <1>3, RefundInitInv DEF OwnInv

\* What it says of the records.
LEMMA OwnSafe == ASSUME Externals = {}, OwnInv PROVE RefundsRecorded
<1>1. Ids = Requests /\ "succeeded" \in EventStatus
  BY DEF Ids, EventStatus
<1>2. RefundTraced
  BY <1>1 DEF OwnInv, EventsSound, RefundTraced
<1>3. FailedMeansNotPaid
  BY DEF OwnInv, OwnSound, RefundInv, RequestSound, FailedMeansNotPaid
<1> QED BY <1>2, <1>3 DEF RefundsRecorded

\* While all refunds are NovaCart's own, every confirmed event that was acknowledged left its trace, and a refund recorded as failed did
\* not go through (finish_refund, _handle_refund_event). A refund made at the provider may be taken for a request's, so that then the
\* rows say less.
THEOREM OwnRefundsRecorded == ASSUME Externals = {} PROVE Spec => []RefundsRecorded
<1>1. OwnInv /\ [Next]_vars => OwnInv'
  BY OwnStep
<1>2. OwnInv => RefundsRecorded
  BY OwnSafe
<1> QED BY <1>1, <1>2, OwnInitInv, PTL DEF Spec

-----------------------------------------------------------------------------
(* What the payment's amounts add up to.                                   *)

\* A request that counts against the payment.
Commits(q) == req[q].status \in InFlight \cup {"succeeded"}

\* One request at most counts, and no refund made outside NovaCart next to it.
OneCommitted ==
    /\ \A q, p \in Requests : Commits(q) /\ Commits(p) => q = p
    /\ (\E q \in Requests : Commits(q)) => ext = {}

\* Until a refund is recorded nothing was refunded, and no handler has read anything else.
FreshStart ==
    ext = {} /\ (\A q \in Requests : req[q].status # "succeeded") =>
        total = 0 /\ \A r \in Ids, s \in EventStatus : ev[r][s].pc = "read" => ev[r][s].base \in {NotLoaded, 0}

\* The event of a refund that went through is true.
EventsTrue == \A r \in Ids : ev[r]["succeeded"].pc # "none" => prov[r] = "succeeded"

\* A refunded order has its payment back in one refund.
Repaid == ord = "refunded" => \E r \in Ids : AmountOf(r) = Amount /\ prov[r] = "succeeded"

PaidInv == RefundInv /\ OneCommitted /\ FreshStart /\ EventsTrue /\ PaidOut <= Amount /\ Repaid

\* The amounts, as the function that is summed.
Amounts == [r \in Ids |-> AmountOf(r)]

\* Sums of amounts are numbers, no smaller than their parts.
LEMMA SumOfFacts ==
    ASSUME NEW S \in SUBSET Ids
    PROVE  /\ SumOf(S) = SumFunctionOnSet(Amounts, S) /\ SumOf(S) \in Nat /\ IsFiniteSet(S)
           /\ (\A r \in S : AmountOf(r) <= SumOf(S)) /\ (S = {} => SumOf(S) = 0)
           /\ \A T \in SUBSET S : SumOf(T) <= SumOf(S)
<1>1. IsFiniteSet(S) /\ \A r \in S : Amounts[r] \in Nat /\ Amounts[r] \in Int /\ Amounts[r] = AmountOf(r)
  BY FiniteAssumption, FS_Subset, AmountType DEF Amounts
<1>2. \A T : SumOf(T) = SumFunctionOnSet(Amounts, T)
  BY DEF SumOf, Amounts
<1>3. SumFunctionOnSet(Amounts, S) \in Nat /\ \A r \in S : Amounts[r] <= SumFunctionOnSet(Amounts, S)
  BY <1>1, SumNat
<1>4. S = {} => SumFunctionOnSet(Amounts, S) = 0
  BY <1>1, SumInt
<1>5. \A T \in SUBSET S : SumFunctionOnSet(Amounts, T) <= SumFunctionOnSet(Amounts, S)
  BY <1>1, SumPart
<1> QED BY <1>1, <1>2, <1>3, <1>4, <1>5

\* A request that counts leaves no room for another refund; when nothing is committed there is none.
LEMMA CommittedFacts ==
    ASSUME TypeOK
    PROVE  /\ Committed \in Nat /\ (\A q \in Requests : Commits(q) => Amount <= Committed)
           /\ Committed = 0 => ext = {} /\ \A q \in Requests : ~Commits(q)
<1> DEFINE C == {q \in Requests : Commits(q)}
<1>1. C \in SUBSET Ids /\ ext \in SUBSET Ids /\ Committed = SumOf(C) + SumOf(ext)
  BY DEF TypeOK, Ids, Committed, Commits
<1>2. SumOf(C) \in Nat /\ SumOf(ext) \in Nat /\ (\A r \in C : AmountOf(r) <= SumOf(C)) /\ \A r \in ext : AmountOf(r) <= SumOf(ext)
  BY <1>1, SumOfFacts
<1>3. \A r \in Ids : AmountOf(r) \in Nat /\ AmountOf(r) > 0
  BY AmountType
<1>4. \A q \in Requests : Commits(q) => Amount <= SumOf(C)
  BY <1>2 DEF AmountOf
<1>5. Amount \in Nat
  BY AmountAssumption
<1> HIDE DEF C
<1>6. Committed \in Nat /\ \A q \in Requests : Commits(q) => Amount <= Committed
  BY <1>1, <1>2, <1>4, <1>5
<1>7. ASSUME Committed = 0 PROVE ext = {} /\ C = {}
  BY <1>1, <1>2, <1>3, <1>7
<1> QED BY <1>6, <1>7 DEF C

\* A step that records no refund.
LEMMA PaidKept ==
    ASSUME PaidInv, RefundInv', UNCHANGED <<total, ext>>, ord' = "refunded" => ord = "refunded",
           \A q \in Requests : Commits(q)' => Commits(q),
           \A q \in Requests : req[q].status = "succeeded" => req'[q].status = "succeeded",
           \A r \in Ids, s \in EventStatus : ev'[r][s].pc = "read" => ev'[r][s] = ev[r][s] \/ ev'[r][s].base \in {NotLoaded, total},
           \A r \in Ids : ev'[r]["succeeded"].pc # "none" => ev[r]["succeeded"].pc # "none" \/ prov'[r] = "succeeded",
           \A r \in Ids : prov[r] = "succeeded" => prov'[r] = "succeeded",
           PaidOut' <= Amount
    PROVE  PaidInv'
<1> USE DEF PaidInv
<1>1. OneCommitted'
  BY DEF OneCommitted
<1>2. FreshStart'
  BY DEF FreshStart
<1>3. EventsTrue'
  BY DEF EventsTrue
<1>4. Repaid'
  BY DEF Repaid, AmountOf
<1> QED BY <1>1, <1>2, <1>3, <1>4

\* ... and leaves the provider alone.
LEMMA PaidOutSame == ASSUME UNCHANGED prov PROVE PaidOut' = PaidOut
  BY DEF PaidOut

\* A step of the job or of the order that leaves the provider, its events and the amounts alone.
LEMMA PaidQuiet ==
    ASSUME PaidInv, RefundInv', UNCHANGED <<total, ext, prov, ev>>, ord' = "refunded" => ord = "refunded",
           \A q \in Requests : Commits(q)' => Commits(q),
           \A q \in Requests : req[q].status = "succeeded" => req'[q].status = "succeeded"
    PROVE  PaidInv'
<1>1. PaidOut' <= Amount
  BY PaidOutSame DEF PaidInv
<1> QED BY <1>1, PaidKept

\* A refund is requested: nothing counts against the payment yet.
LEMMA PaidRequest == ASSUME PaidInv, RefundInv', NEW q \in Requests, NEW cancels \in BOOLEAN, RequestRefund(q, cancels) PROVE PaidInv'
<1>1. TypeOK /\ Committed = 0 /\ UNCHANGED <<ord, total, ext, prov, ev>> /\ req \in [Requests -> ReqRows]
      /\ req' = [req EXCEPT ![q] = [NoRequest EXCEPT !.status = "requested", !.cancels = cancels]]
  BY RefundRows DEF PaidInv, RefundInv, RequestRefund
<1>2. ext = {} /\ \A p \in Requests : ~Commits(p)
  BY <1>1, CommittedFacts
<1>3. req'[q].status = "requested" /\ \A p \in Requests : p # q => req'[p] = req[p]
  BY <1>1 DEF NoRequest
<1>4. OneCommitted'
  BY <1>1, <1>2, <1>3 DEF OneCommitted, Commits
<1>5. FreshStart'
  <2>1. \A p \in Requests : req[p].status # "succeeded"
    BY <1>2 DEF Commits
  <2> QED BY <1>1, <1>2, <2>1 DEF PaidInv, FreshStart
<1>6. EventsTrue' /\ Repaid' /\ PaidOut' <= Amount
  BY <1>1, PaidOutSame DEF PaidInv, EventsTrue, Repaid, AmountOf
<1> QED BY <1>4, <1>5, <1>6 DEF PaidInv

\* The row of a request whose job counts an attempt, is blocked, or gives up.
LEMMA AttemptRow ==
    ASSUME TypeOK, NEW q \in Requests, BeginRefundAttempt(q) \/ RecordAttemptFailed(q)
    PROVE  /\ UNCHANGED <<ord, total, ext, prov, ev>> /\ (\A p \in Requests : p # q => req'[p] = req[p]) /\ req'[q].pid = req[q].pid
           /\ req'[q].status = req[q].status \/ (req[q].status = "requested" /\ req'[q].status \in {"failed", "uncertain"})
<1>1. UNCHANGED <<ord, total, ext, prov, ev>> /\ req \in [Requests -> ReqRows] /\ req[q] \in ReqRows
  BY RefundRows DEF BeginRefundAttempt, RecordAttemptFailed
<1>2. (\A p \in Requests : p # q => req'[p] = req[p]) /\ req'[q].pid = req[q].pid
      /\ (req'[q].status = req[q].status \/ (req[q].status = "requested" /\ req'[q].status \in {"failed", "uncertain"}))
  <2>1. CASE BeginRefundAttempt(q)
    <3>1. CASE req[q].status # "requested"
      BY <2>1, <3>1 DEF BeginRefundAttempt
    <3>2. CASE req[q].status = "requested"
      <4>1. req' = [req EXCEPT ![q].status = IF Blocked(q) THEN "failed" ELSE @, ![q].attempts = IF Blocked(q) THEN @ ELSE @ + 1]
        BY <2>1, <3>2 DEF BeginRefundAttempt
      <4>2. req'[q].status = (IF Blocked(q) THEN "failed" ELSE req[q].status) /\ req'[q].pid = req[q].pid /\ \A p \in Requests : p # q => req'[p] = req[p]
        BY <1>1, <4>1 DEF ReqRows
      <4> QED BY <3>2, <4>2
    <3> QED BY <3>1, <3>2
  <2>2. CASE RecordAttemptFailed(q)
    <3>1. UNCHANGED req \/ req' = [req EXCEPT ![q].status = IF req[q].status = "requested" THEN "uncertain" ELSE @]
      BY <2>2 DEF RecordAttemptFailed
    <3> QED BY <1>1, <3>1 DEF ReqRows
  <2> QED BY <2>1, <2>2
<1> QED BY <1>1, <1>2

\* The job counts an attempt, is blocked, or gives up.
LEMMA PaidAttempt == ASSUME PaidInv, RefundInv', NEW q \in Requests, BeginRefundAttempt(q) \/ RecordAttemptFailed(q) PROVE PaidInv'
<1>1. /\ UNCHANGED <<ord, total, ext, prov, ev>> /\ \A p \in Requests : p # q => req'[p] = req[p]
      /\ req'[q].status = req[q].status \/ (req[q].status = "requested" /\ req'[q].status \in {"failed", "uncertain"})
  BY AttemptRow DEF PaidInv, RefundInv
<1>2. \A p \in Requests : (Commits(p)' => Commits(p)) /\ (req[p].status = "succeeded" => req'[p].status = "succeeded")
  BY <1>1 DEF Commits, InFlight
<1> QED BY <1>1, <1>2, PaidQuiet

\* The provider accepts a refund only within the payment's amount.
LEMMA PaidAccepted ==
    ASSUME PaidInv, RefundInv', UNCHANGED <<ord, total, req, ext>>, NEW r \in Ids, ProviderAccepts(r)
    PROVE  PaidInv'
<1>1. TypeOK
  BY DEF PaidInv, RefundInv
<1>2. /\ prov[r] = "absent" /\ prov'[r] = "pending" /\ (\A i \in Ids : i # r => prov'[i] = prov[i])
      /\ ev'[r]["pending"].pc = "sent" /\ \A i \in Ids, s \in EventStatus : i # r \/ s # "pending" => ev'[i][s] = ev[i][s]
  BY <1>1, AcceptedRows
<1>3. PaidOut' <= Amount
  <2> DEFINE S == {i \in Ids : prov[i] \in {"pending", "succeeded"}}
             T == {i \in Ids : prov'[i] \in {"pending", "succeeded"}}
  <2>1. T = S \cup {r} /\ r \notin S /\ S \in SUBSET Ids /\ T \in SUBSET Ids
    BY <1>2
  <2>2. PaidOut = SumOf(S) /\ PaidOut' = SumOf(T)
    BY DEF PaidOut, SumOf, AmountOf
  <2> HIDE DEF S, T
  <2>3. IsFiniteSet(S) /\ SumOf(S) = SumFunctionOnSet(Amounts, S) /\ SumOf(T) = SumFunctionOnSet(Amounts, T)
    BY <2>1, SumOfFacts
  <2>4. \A i \in S \cup {r} : Amounts[i] \in Int /\ Amounts[i] = AmountOf(i)
    BY <2>1, AmountType DEF Amounts
  <2>5. SumFunctionOnSet(Amounts, S \cup {r}) = SumFunctionOnSet(Amounts, S) + Amounts[r]
    BY <2>1, <2>3, <2>4, SumAdded
  <2> QED BY <2>1, <2>2, <2>3, <2>4, <2>5 DEF ProviderAccepts
<1>4. "succeeded" \in EventStatus /\ "succeeded" # "pending"
  BY DEF EventStatus
<1>5. \A i \in Ids : prov[i] = "succeeded" => prov'[i] = "succeeded"
  BY <1>2
<1>6. \A i \in Ids, s \in EventStatus : ev'[i][s].pc = "read" => ev'[i][s] = ev[i][s]
  BY <1>2
<1>7. \A i \in Ids : ev'[i]["succeeded"] = ev[i]["succeeded"]
  BY <1>2, <1>4
<1>8. \A q \in Requests : Commits(q)' => Commits(q)
  BY DEF Commits
<1> QED BY <1>3, <1>5, <1>6, <1>7, <1>8, PaidKept

\* The rows of a refund that settles.
LEMMA SettledRows ==
    ASSUME TypeOK, NEW r \in Ids, NEW s \in {"succeeded", "failed"}, Settle(r, s)
    PROVE  /\ prov[r] = "pending" /\ prov'[r] = s /\ (\A i \in Ids : i # r => prov'[i] = prov[i])
           /\ ev'[r][s].pc = "sent" /\ \A i \in Ids, t \in EventStatus : i # r \/ t # s => ev'[i][t] = ev[i][t]
<1>1. prov[r] = "pending" /\ prov' = [prov EXCEPT ![r] = s] /\ prov \in [Ids -> {"absent", "pending", "succeeded", "failed"}]
      /\ ev' = [ev EXCEPT ![r][s].pc = "sent"] /\ s \in EventStatus
  BY RefundRows DEF Settle, EventStatus
<1>2. PICK x : x = [ev[r][s] EXCEPT !.pc = "sent"]
  OBVIOUS
<1>3. ev[r][s] \in EventRows /\ ev \in [Ids -> [EventStatus -> EventRows]]
  BY <1>1, RefundRows
<1>4. x \in EventRows /\ x.pc = "sent"
  BY <1>2, <1>3 DEF EventRows
<1>5. ev' = [ev EXCEPT ![r][s] = x]
  BY <1>1, <1>2, <1>3
<1>6. ev'[r][s] = x /\ \A i \in Ids, t \in EventStatus : i # r \/ t # s => ev'[i][t] = ev[i][t]
  <2>1. TypeOK /\ r \in Ids /\ s \in EventStatus /\ x \in EventRows
    BY <1>1, <1>4
  <2> QED BY ONLY <1>5, <2>1, SetEvent
<1> QED BY <1>1, <1>4, <1>6

\* A refund that settles pays out no more.
LEMMA PaidSettled == ASSUME PaidInv, RefundInv', NEW r \in Ids, NEW s \in {"succeeded", "failed"}, Settle(r, s) PROVE PaidInv'
<1>1. TypeOK /\ UNCHANGED <<ord, total, req, ext>>
  BY DEF PaidInv, RefundInv, Settle
<1>2. /\ prov[r] = "pending" /\ prov'[r] = s /\ (\A i \in Ids : i # r => prov'[i] = prov[i])
      /\ ev'[r][s].pc = "sent" /\ \A i \in Ids, t \in EventStatus : i # r \/ t # s => ev'[i][t] = ev[i][t]
  BY <1>1, SettledRows
<1>3. PaidOut' <= Amount
  <2> DEFINE S == {i \in Ids : prov[i] \in {"pending", "succeeded"}}
             T == {i \in Ids : prov'[i] \in {"pending", "succeeded"}}
  <2>1. T \in SUBSET S /\ S \in SUBSET Ids /\ T \in SUBSET Ids
    BY <1>2
  <2>2. PaidOut = SumOf(S) /\ PaidOut' = SumOf(T) /\ PaidOut <= Amount /\ Amount \in Nat
    BY AmountAssumption DEF PaidOut, SumOf, AmountOf, PaidInv
  <2> HIDE DEF S, T
  <2>3. SumOf(S) \in Nat /\ SumOf(T) \in Nat /\ SumOf(T) <= SumOf(S)
    BY <2>1, SumOfFacts
  <2> QED BY <2>2, <2>3
<1>4. "succeeded" \in EventStatus
  BY DEF EventStatus
<1>5. \A i \in Ids : prov[i] = "succeeded" => prov'[i] = "succeeded"
  BY <1>2
<1>6. \A i \in Ids, t \in EventStatus : ev'[i][t].pc = "read" => ev'[i][t] = ev[i][t]
  BY <1>2
<1>7. \A i \in Ids : ev'[i]["succeeded"] = ev[i]["succeeded"] \/ prov'[i] = "succeeded"
  BY <1>2, <1>4
<1>8. \A q \in Requests : Commits(q)' => Commits(q)
  BY <1>1 DEF Commits
<1> QED BY <1>1, <1>3, <1>5, <1>6, <1>7, <1>8, PaidKept

\* A handler that matches an event reads the total as it is.
LEMMA PaidMatch == ASSUME PaidInv, RefundInv', NEW r \in Ids, NEW s \in EventStatus, MatchRefund(r, s) PROVE PaidInv'
<1>1. TypeOK /\ UNCHANGED <<ord, total, req, ext, prov>> /\ ev[r][s].pc = "sent" /\ ext \subseteq Ids /\ total \in Nat
  BY DEF PaidInv, RefundInv, MatchRefund, TypeOK
<1>2. PICK row : ev' = [ev EXCEPT ![r][s] = [pc |-> "read", row |-> row, base |-> IF {q \in Requests : req[q].pid = r} # {} \/ r \in ext THEN NotLoaded ELSE total]]
  BY DEF MatchRefund
<1> DEFINE x == [pc |-> "read", row |-> row, base |-> IF {q \in Requests : req[q].pid = r} # {} \/ r \in ext THEN NotLoaded ELSE total]
<1>10. ev' = [ev EXCEPT ![r][s] = x] /\ x.base \in {NotLoaded, total}
  BY <1>2
<1> HIDE DEF x
<1>3. ev \in [Ids -> [EventStatus -> EventRows]]
  BY <1>1, RefundRows
<1>4. ev'[r][s] = x /\ \A i \in Ids, t \in EventStatus : i # r \/ t # s => ev'[i][t] = ev[i][t]
  BY <1>10, <1>3
<1>5. "succeeded" \in EventStatus
  BY DEF EventStatus
<1>6. \A i \in Ids, t \in EventStatus : ev'[i][t] = ev[i][t] \/ ev'[i][t].base \in {NotLoaded, total}
  BY <1>10, <1>4
<1>7. \A i \in Ids : ev'[i]["succeeded"].pc # "none" => ev[i]["succeeded"].pc # "none"
  BY <1>1, <1>4, <1>5
<1>8. PaidOut' <= Amount
  BY <1>1, PaidOutSame DEF PaidInv
<1>9. \A q \in Requests : Commits(q)' => Commits(q)
  BY <1>1 DEF Commits
<1> QED BY <1>1, <1>6, <1>7, <1>8, <1>9, PaidKept

\* The rows of events when one that was read is acknowledged.
LEMMA PaidAcknowledged ==
    ASSUME TypeOK, NEW r \in Ids, NEW s \in EventStatus, ev[r][s].pc = "read", Acknowledge(r, s)
    PROVE  /\ \A i \in Ids, t \in EventStatus : ev'[i][t].pc = "read" => ev'[i][t] = ev[i][t]
           /\ \A i \in Ids : ev'[i]["succeeded"].pc # "none" => ev[i]["succeeded"].pc # "none"
<1>1. ev'[r][s].pc = "done" /\ \A i \in Ids, t \in EventStatus : i # r \/ t # s => ev'[i][t] = ev[i][t]
  BY AcknowledgedRows
<1>2. "succeeded" \in EventStatus
  BY DEF EventStatus
<1> QED BY <1>1, <1>2

\* An event of a refund that is known, or that is only flagged.
LEMMA PaidNoted == ASSUME PaidInv, RefundInv', NEW r \in Ids, NEW s \in EventStatus, ApplyKnownExternal(r, s) \/ FlagUnknownRefund(r, s) PROVE PaidInv'
<1>1. TypeOK /\ UNCHANGED <<ord, total, req, ext, prov>> /\ ev[r][s].pc = "read" /\ Acknowledge(r, s)
  BY DEF PaidInv, RefundInv, ApplyKnownExternal, FlagUnknownRefund
<1>2. /\ \A i \in Ids, t \in EventStatus : ev'[i][t].pc = "read" => ev'[i][t] = ev[i][t]
      /\ \A i \in Ids : ev'[i]["succeeded"].pc # "none" => ev[i]["succeeded"].pc # "none"
  BY <1>1, PaidAcknowledged
<1>3. PaidOut' <= Amount
  BY <1>1, PaidOutSame DEF PaidInv
<1>4. \A q \in Requests : Commits(q)' => Commits(q)
  BY <1>1 DEF Commits
<1> QED BY <1>1, <1>2, <1>3, <1>4, PaidKept

\* A refund made at the provider is recorded only where no request counts.
LEMMA PaidExternal == ASSUME PaidInv, RefundInv', NEW r \in Ids, RecordExternalRefund(r) PROVE PaidInv'
<1>1. TypeOK /\ UNCHANGED <<ord, req, prov>> /\ ev[r]["succeeded"].pc = "read" /\ Acknowledge(r, "succeeded") /\ "succeeded" \in EventStatus
  BY DEF PaidInv, RefundInv, RecordExternalRefund, EventStatus
<1>2. /\ \A i \in Ids, t \in EventStatus : ev'[i][t].pc = "read" => ev'[i][t] = ev[i][t]
      /\ \A i \in Ids : ev'[i]["succeeded"].pc # "none" => ev[i]["succeeded"].pc # "none"
  BY <1>1, PaidAcknowledged
<1>3. PaidOut' <= Amount
  BY <1>1, PaidOutSame DEF PaidInv
<1>4. \A q \in Requests : Commits(q)' <=> Commits(q)
  BY <1>1 DEF Commits
<1>5. CASE UNCHANGED <<ext, total>>
  BY <1>1, <1>2, <1>3, <1>4, <1>5, PaidKept
<1>6. CASE ext' = ext \cup {r} /\ Committed + AmountOf(r) <= Amount
  <2>1. Committed \in Nat /\ (\A q \in Requests : Commits(q) => Amount <= Committed) /\ AmountOf(r) \in Nat /\ AmountOf(r) > 0 /\ Amount \in Nat
    BY <1>1, CommittedFacts, AmountType
  <2>2. \A q \in Requests : ~Commits(q)
    BY <1>6, <2>1
  <2>3. OneCommitted' /\ FreshStart'
    BY <1>4, <1>6, <2>2 DEF OneCommitted, FreshStart
  <2>4. EventsTrue' /\ Repaid'
    BY <1>1, <1>2 DEF PaidInv, EventsTrue, Repaid, AmountOf
  <2> QED BY <1>3, <2>3, <2>4 DEF PaidInv
<1> QED BY <1>5, <1>6 DEF RecordExternalRefund

\* What the provider reports is applied: a confirmed refund is the only one, so that what it adds to is 0.
LEMMA PaidApplied ==
    ASSUME PaidInv, RefundInv', UNCHANGED <<prov, ext>>, NEW q \in Requests, NEW r \in Ids, NEW s \in EventStatus, NEW b,
           ApplyRefundState(q, r, s, b), s = "succeeded" => prov[r] = "succeeded",
           b = NotLoaded \/ \E t \in EventStatus : ev[r][t].pc = "read" /\ b = ev[r][t].base,
           \A i \in Ids, t \in EventStatus : ev'[i][t].pc = "read" => ev'[i][t] = ev[i][t],
           \A i \in Ids : ev'[i]["succeeded"].pc # "none" => ev[i]["succeeded"].pc # "none"
    PROVE  PaidInv'
<1>1. TypeOK /\ PaidOut' <= Amount
  BY PaidOutSame DEF PaidInv, RefundInv
<1>2. AppliedRow(q, r, s)
  BY <1>1, AppliedRows
<1>3. \A p \in Requests : (Commits(p)' => Commits(p)) /\ (req[p].status = "succeeded" => req'[p].status = "succeeded")
  BY <1>2 DEF AppliedRow, Commits, InFlight
<1>4. CASE ~Confirms(q, s)
  <2>1. UNCHANGED <<total, payStatus, ord, restocks>>
    BY <1>4 DEF ApplyRefundState
  <2> QED BY <1>1, <1>3, <2>1, PaidKept
<1>5. CASE Confirms(q, s)
  <2>1. s = "succeeded" /\ req[q].status \in InFlight /\ ConfirmRefund(q, AmountOf(r), b)
    BY <1>5 DEF Confirms, ApplyRefundState
  <2>2. ext = {} /\ \A p \in Requests : req[p].status # "succeeded"
    <3>1. Commits(q) /\ req[q].status # "succeeded"
      BY <2>1 DEF Commits, InFlight
    <3> QED BY <3>1 DEF PaidInv, OneCommitted, Commits
  <2>3. total = 0 /\ b \in {NotLoaded, 0}
    BY <2>2 DEF PaidInv, FreshStart
  <2>4. Base(b) = 0
    BY <2>3 DEF Base, NotLoaded
  <2>5. AmountOf(r) \in Nat /\ Amount \in Nat /\ AmountOf(r) <= Amount
    BY AmountType, AmountAssumption DEF AmountOf, Ids
  <2>6. ord' = "refunded" => ord = "refunded" \/ AmountOf(r) = Amount
    BY <2>1, <2>4, <2>5 DEF ConfirmRefund
  <2>7. Repaid'
    BY <2>1, <2>6 DEF PaidInv, Repaid, AmountOf
  <2>8. req'[q].status = "succeeded"
    BY <1>2, <2>1 DEF AppliedRow
  <2>9. FreshStart'
    BY <2>8 DEF FreshStart
  <2>10. OneCommitted'
    BY <1>3 DEF PaidInv, OneCommitted
  <2>11. EventsTrue'
    BY DEF PaidInv, EventsTrue
  <2> QED BY <1>1, <2>7, <2>9, <2>10, <2>11 DEF PaidInv
<1> QED BY <1>4, <1>5

\* The job's own steps.
LEMMA PaidJob == ASSUME PaidInv, RefundInv', NEW q \in Requests, SubmitRefund(q) \/ SubmitFails(q) \/ WorkerDies(q) \/ FinishRefund(q) PROVE PaidInv'
<1>1. TypeOK /\ RequestSound(q) /\ q \in Ids /\ prov[q] \in {"absent", "pending", "succeeded", "failed"}
  BY RefundRows DEF PaidInv, RefundInv
<1>2. CASE SubmitRefund(q)
  <2>1. UNCHANGED <<ord, total, req, ext>>
    BY <1>2 DEF SubmitRefund
  <2>2. CASE ProviderAccepts(q)
    BY <1>1, <2>1, <2>2, PaidAccepted
  <2>3. CASE UNCHANGED <<prov, ev>>
    BY <2>1, <2>3, PaidQuiet DEF Commits
  <2> QED BY <1>2, <2>2, <2>3 DEF SubmitRefund
<1>3. CASE SubmitFails(q) \/ WorkerDies(q)
  BY <1>3, PaidQuiet DEF SubmitFails, WorkerDies, Commits
<1>4. CASE FinishRefund(q)
  <2>1. prov[q] # "absent" /\ UNCHANGED <<prov, ev, ext>>
    BY <1>1, <1>4 DEF FinishRefund, RequestSound
  <2>2. PICK s \in {"pending", prov[q]} : ApplyRefundState(q, q, s, NotLoaded)
    BY <1>4 DEF FinishRefund
  <2>3. s \in EventStatus /\ (s = "succeeded" => prov[q] = "succeeded")
    BY <1>1, <2>1, <2>2 DEF EventStatus
  <2> QED BY <1>1, <2>1, <2>2, <2>3, PaidApplied
<1> QED BY <1>2, <1>3, <1>4

\* An event that was matched is applied to its request.
LEMMA PaidMatched == ASSUME PaidInv, RefundInv', NEW r \in Ids, NEW s \in EventStatus, ApplyMatched(r, s) PROVE PaidInv'
<1>1. PICK q : q = ev[r][s].row
  OBVIOUS
<1>2. PICK b : b = ev[r][s].base
  OBVIOUS
<1>3. TypeOK /\ ev[r][s].pc = "read" /\ q \in Requests /\ ApplyRefundState(q, r, s, b) /\ Acknowledge(r, s) /\ UNCHANGED <<prov, ext>>
  BY <1>1, <1>2 DEF PaidInv, RefundInv, ApplyMatched
<1>4. s = "succeeded" => prov[r] = "succeeded"
  BY <1>3 DEF PaidInv, EventsTrue
<1>5. /\ \A i \in Ids, t \in EventStatus : ev'[i][t].pc = "read" => ev'[i][t] = ev[i][t]
      /\ \A i \in Ids : ev'[i]["succeeded"].pc # "none" => ev[i]["succeeded"].pc # "none"
  BY <1>3, PaidAcknowledged
<1> QED BY <1>2, <1>3, <1>4, <1>5, PaidApplied

\* Every step keeps the amounts right.
LEMMA PaidStep == PaidInv /\ [Next]_vars => PaidInv'
<1> SUFFICES ASSUME PaidInv, [Next]_vars PROVE PaidInv'
  OBVIOUS
<1>1. RefundInv'
  BY RefundStep DEF PaidInv
<1>2. CASE Fulfil
  BY <1>1, <1>2, PaidQuiet DEF Fulfil, Commits
<1>3. ASSUME NEW q \in Requests, JobStep(q) \/ WorkerDies(q) \/ \E cancels \in BOOLEAN : RequestRefund(q, cancels) PROVE PaidInv'
  BY <1>1, <1>3, PaidJob, PaidAttempt, PaidRequest DEF JobStep
<1>4. ASSUME NEW x \in Externals, ExternalRefund(x) PROVE PaidInv'
  BY <1>1, <1>4, PaidAccepted DEF ExternalRefund, Ids
<1>5. ASSUME NEW r \in Ids, EventStep(r) \/ \E s \in {"succeeded", "failed"} : Settle(r, s) PROVE PaidInv'
  BY <1>1, <1>5, PaidMatch, PaidMatched, PaidNoted, PaidExternal, PaidSettled DEF EventStep
<1>6. ASSUME NEW d \in Disputes, NEW s \in OpenDispute \cup FinalDispute, DisputeEvent(d, s) PROVE PaidInv'
  BY <1>1, <1>6, PaidQuiet DEF DisputeEvent, Commits
<1>7. CASE UNCHANGED vars
  BY <1>1, <1>7, PaidQuiet DEF vars, Commits
<1> QED BY <1>2, <1>3, <1>4, <1>5, <1>6, <1>7 DEF Next

\* They are right at first.
LEMMA PaidInitInv == Init => PaidInv
<1> SUFFICES ASSUME Init PROVE PaidInv
  OBVIOUS
<1>1. /\ \A q \in Requests : req[q].status = "none"
      /\ \A r \in Ids : prov[r] = "absent" /\ \A s \in EventStatus : ev[r][s].pc = "none"
      /\ ext = {} /\ total = 0 /\ ord # "refunded" /\ "succeeded" \in EventStatus
  BY DEF Init, NoRequest, NoEvent, EventStatus
<1>2. OneCommitted /\ FreshStart /\ EventsTrue /\ Repaid
  BY <1>1 DEF OneCommitted, Commits, InFlight, FreshStart, EventsTrue, Repaid
<1>3. {r \in Ids : prov[r] \in {"pending", "succeeded"}} = {}
  BY <1>1
<1>4. PaidOut = 0
  BY <1>3, SumOfFacts DEF PaidOut
<1>5. PaidOut <= Amount
  BY <1>4, AmountAssumption
<1> QED BY <1>2, <1>5, RefundInitInv DEF PaidInv

\* The amounts the payment's refunds commit, report and pay out agree.
THEOREM PaidInvariant == Spec => []PaidInv
  BY PaidInitInv, PaidStep, PTL DEF Spec

\* A refunded order has all of its money back.
LEMMA PaidSafe == PaidInv => RefundEndsRight
<1> SUFFICES ASSUME PaidInv, ord = "refunded" PROVE ReallyPaidBack = Amount
  BY RefundSafe DEF PaidInv, RefundEndsRight, RefundedOrderIsRepaid
<1> DEFINE S == {r \in Ids : prov[r] = "succeeded"}
           T == {r \in Ids : prov[r] \in {"pending", "succeeded"}}
<1>1. PICK r \in Ids : AmountOf(r) = Amount /\ prov[r] = "succeeded"
  BY DEF PaidInv, Repaid
<1>2. r \in S /\ S \in SUBSET T /\ S \in SUBSET Ids /\ T \in SUBSET Ids /\ ReallyPaidBack = SumOf(S) /\ SumOf(T) <= Amount
  BY <1>1 DEF ReallyPaidBack, PaidOut, PaidInv
<1> HIDE DEF S, T
<1>3. SumOf(S) \in Nat /\ SumOf(T) \in Nat /\ AmountOf(r) <= SumOf(S) /\ SumOf(S) <= SumOf(T) /\ Amount \in Nat
  BY <1>2, SumOfFacts, AmountAssumption
<1> QED BY <1>1, <1>2, <1>3

\* Whatever order answers, webhooks and refunds made at the provider come in, an order is shown as refunded only when the provider gave
\* the whole payment back, and shipped goods are never counted back into stock (_confirm_refund).
THEOREM RefundsEndRight == Spec => []RefundEndsRight
  BY PaidInvariant, PaidSafe, PTL

-----------------------------------------------------------------------------
(* The payment's refunded total, when every refund is NovaCart's own.      *)

\* The refund that went through is all of the total.
AllBack == \A q \in Requests : req[q].status = "succeeded" => req[q].pid = q /\ total = Amount

TotalInv == PaidInv /\ OwnInv /\ AllBack

\* What the provider reports of refund q is applied to request q.
LEMMA TotalApplied ==
    ASSUME TotalInv, NEW q \in Requests, NEW s \in EventStatus, NEW b, ApplyRefundState(q, q, s, b),
           b = NotLoaded \/ \E t \in EventStatus : ev[q][t].pc = "read" /\ b = ev[q][t].base
    PROVE  AllBack'
<1>1. TypeOK /\ q \in Ids /\ OwnSound(q)
  BY RefundRows DEF TotalInv, PaidInv, RefundInv, OwnInv
<1>2. AppliedRow(q, q, s)
  BY <1>1, AppliedRows
<1>3. req'[q].pid = q
  BY <1>1, <1>2 DEF AppliedRow, LearnedId, OwnSound
<1>4. CASE ~Confirms(q, s)
  <2>1. UNCHANGED total
    BY <1>4 DEF ApplyRefundState
  <2>2. req'[q].status = "succeeded" => req[q].status = "succeeded"
    BY <1>2, <1>4 DEF AppliedRow, Confirms, EventStatus, InFlight
  <2> QED BY <1>2, <1>3, <2>1, <2>2 DEF AppliedRow, TotalInv, AllBack
<1>5. CASE Confirms(q, s)
  <2>1. req[q].status \in InFlight /\ ConfirmRefund(q, AmountOf(q), b)
    BY <1>5 DEF Confirms, ApplyRefundState
  <2>2. ext = {} /\ \A p \in Requests : req[p].status # "succeeded"
    <3>1. Commits(q) /\ req[q].status # "succeeded"
      BY <2>1 DEF Commits, InFlight
    <3> QED BY <3>1 DEF TotalInv, PaidInv, OneCommitted, Commits
  <2>3. total = 0 /\ b \in {NotLoaded, 0}
    BY <1>1, <2>2 DEF TotalInv, PaidInv, FreshStart
  <2>4. total' = Amount
    BY <2>1, <2>3, AmountAssumption DEF Base, NotLoaded, ConfirmRefund, AmountOf
  <2> QED BY <1>2, <1>3, <2>2, <2>4 DEF AppliedRow, AllBack
<1> QED BY <1>4, <1>5

\* A step that confirms nothing.
LEMMA TotalKept ==
    ASSUME AllBack, UNCHANGED total, \A q \in Requests : req'[q].status = "succeeded" => req[q].status = "succeeded" /\ req'[q].pid = req[q].pid
    PROVE  AllBack'
  BY DEF AllBack

\* The job counts an attempt, is blocked, or gives up.
LEMMA TotalAttempt == ASSUME TotalInv, NEW q \in Requests, BeginRefundAttempt(q) \/ RecordAttemptFailed(q) PROVE AllBack'
<1>1. /\ UNCHANGED total /\ (\A p \in Requests : p # q => req'[p] = req[p]) /\ req'[q].pid = req[q].pid
      /\ req'[q].status = req[q].status \/ req'[q].status \in {"failed", "uncertain"}
  BY AttemptRow DEF TotalInv, PaidInv, RefundInv
<1> QED BY <1>1, TotalKept DEF TotalInv

\* The other steps of a request.
LEMMA TotalRequest ==
    ASSUME TotalInv, NEW q \in Requests, SubmitRefund(q) \/ SubmitFails(q) \/ WorkerDies(q) \/ FinishRefund(q) \/ \E cancels \in BOOLEAN : RequestRefund(q, cancels)
    PROVE  AllBack'
<1>1. TypeOK /\ RequestSound(q) /\ q \in Ids /\ prov[q] \in {"absent", "pending", "succeeded", "failed"} /\ req \in [Requests -> ReqRows]
  BY RefundRows DEF TotalInv, PaidInv, RefundInv
<1>2. CASE SubmitRefund(q) \/ SubmitFails(q) \/ WorkerDies(q)
  BY <1>2, TotalKept DEF SubmitRefund, SubmitFails, WorkerDies, TotalInv
<1>3. CASE FinishRefund(q)
  <2>1. prov[q] # "absent"
    BY <1>1, <1>3 DEF FinishRefund, RequestSound
  <2>2. PICK s \in {"pending", prov[q]} : ApplyRefundState(q, q, s, NotLoaded)
    BY <1>3 DEF FinishRefund
  <2>3. s \in EventStatus
    BY <1>1, <2>1, <2>2 DEF EventStatus
  <2> QED BY <2>2, <2>3, TotalApplied
<1>4. ASSUME NEW cancels \in BOOLEAN, RequestRefund(q, cancels) PROVE AllBack'
  <2>1. UNCHANGED total /\ req' = [req EXCEPT ![q] = [NoRequest EXCEPT !.status = "requested", !.cancels = cancels]]
    BY <1>4 DEF RequestRefund
  <2>2. req'[q].status = "requested" /\ \A p \in Requests : p # q => req'[p] = req[p]
    BY <1>1, <2>1 DEF NoRequest
  <2> QED BY <2>1, <2>2, TotalKept DEF TotalInv
<1> QED BY <1>2, <1>3, <1>4

\* An event of refund r.
LEMMA TotalEvent == ASSUME TotalInv, NEW r \in Requests, EventStep(r) PROVE AllBack'
<1>1. EventsSound(r) /\ r # NoRow /\ r # ExtRow /\ "succeeded" \in EventStatus
  BY DistinctAssumption DEF TotalInv, OwnInv, EventStatus, Ids
<1>2. ~RecordExternalRefund(r) /\ \A s \in EventStatus : ~ApplyKnownExternal(r, s) /\ ~FlagUnknownRefund(r, s)
  BY <1>1 DEF EventsSound, RecordExternalRefund, ApplyKnownExternal, FlagUnknownRefund
<1>3. ASSUME NEW s \in EventStatus, ApplyMatched(r, s) PROVE AllBack'
  <2>1. PICK b : b = ev[r][s].base
    OBVIOUS
  <2>2. ev[r][s].pc = "read" /\ ev[r][s].row = r
    BY <1>1, <1>3 DEF ApplyMatched, EventsSound
  <2>3. ApplyRefundState(r, r, s, b)
    BY <1>3, <2>1, <2>2 DEF ApplyMatched
  <2> QED BY <2>1, <2>2, <2>3, TotalApplied
<1>4. ASSUME NEW s \in EventStatus, MatchRefund(r, s) PROVE AllBack'
  BY <1>4, TotalKept DEF MatchRefund, TotalInv
<1> QED BY <1>2, <1>3, <1>4 DEF EventStep

\* Every step keeps the total true when no refund is made outside NovaCart.
LEMMA TotalStep == ASSUME Externals = {}, TotalInv, [Next]_vars PROVE TotalInv'
<1>1. PaidInv' /\ OwnInv' /\ Ids = Requests
  BY PaidStep, OwnStep DEF TotalInv, Ids
<1>2. ASSUME NEW q \in Requests, JobStep(q) \/ WorkerDies(q) \/ \E cancels \in BOOLEAN : RequestRefund(q, cancels) PROVE AllBack'
  BY <1>2, TotalAttempt, TotalRequest DEF JobStep
<1>3. ASSUME NEW r \in Ids, EventStep(r) PROVE AllBack'
  BY <1>1, <1>3, TotalEvent
<1>4. CASE Fulfil \/ UNCHANGED vars
  BY <1>1, <1>4, TotalKept DEF Fulfil, vars, TotalInv
<1>5. ASSUME NEW r \in Ids, NEW s \in {"succeeded", "failed"}, Settle(r, s) PROVE AllBack'
  BY <1>5, TotalKept DEF Settle, TotalInv
<1>6. ASSUME NEW d \in Disputes, NEW s \in OpenDispute \cup FinalDispute, DisputeEvent(d, s) PROVE AllBack'
  BY <1>6, TotalKept DEF DisputeEvent, TotalInv
<1> QED BY <1>1, <1>2, <1>3, <1>4, <1>5, <1>6 DEF Next, TotalInv

\* The recorded refunds are the one that went through, if any.
LEMMA TotalSafe == ASSUME Externals = {}, TotalInv PROVE TotalIsTrue
<1> DEFINE S == {r \in Ids : r \in ext \/ \E q \in Requests : req[q].status = "succeeded" /\ req[q].pid = r}
<1>1. S \in SUBSET Ids /\ ext = {} /\ Ids = Requests /\ \A q \in Requests : req[q].status = "succeeded" => req[q].pid = q /\ total = Amount
  BY DEF TotalInv, OwnInv, AllBack, Ids
<1>2. S = {q \in Requests : req[q].status = "succeeded"}
  BY <1>1
<1>3. TotalIsTrue <=> total = SumOf(S)
  BY DEF TotalIsTrue
<1> HIDE DEF S
<1>4. CASE S = {}
  <2>1. SumOf(S) = 0 /\ \A q \in Requests : req[q].status # "succeeded"
    BY <1>1, <1>2, <1>4, SumOfFacts
  <2> QED BY <1>1, <1>3, <2>1 DEF TotalInv, PaidInv, FreshStart
<1>5. ASSUME NEW q \in S PROVE TotalIsTrue
  <2>1. q \in Requests /\ req[q].status = "succeeded" /\ total = Amount
    BY <1>1, <1>2
  <2>2. S = {q}
    BY <1>2, <2>1 DEF TotalInv, PaidInv, OneCommitted, Commits
  <2>3. IsFiniteSet({}) /\ q \notin {} /\ S = {} \cup {q} /\ Amounts[q] \in Int /\ Amounts[q] = Amount
    BY <1>1, <2>1, <2>2, FS_EmptySet, AmountAssumption DEF Amounts, AmountOf
  <2>4. SumFunctionOnSet(Amounts, {} \cup {q}) = SumFunctionOnSet(Amounts, {}) + Amounts[q]
    BY <2>3, SumAdded
  <2>5. SumFunctionOnSet(Amounts, {}) = 0
    BY <2>3, SumInt
  <2>6. SumOf(S) = SumFunctionOnSet(Amounts, S)
    BY <1>1, SumOfFacts
  <2> QED BY <1>3, <2>1, <2>3, <2>4, <2>5, <2>6, AmountAssumption
<1> QED BY <1>4, <1>5

\* The total is true at first.
LEMMA TotalInitInv == Init => TotalInv
<1>1. Init => AllBack
  BY DEF Init, AllBack, NoRequest
<1> QED BY <1>1, PaidInitInv, OwnInitInv DEF TotalInv

\* While all refunds are NovaCart's own, the payment's refunded total is what the recorded refunds add up to, whatever order answers and
\* webhooks come in (_confirm_refund); a refund made at the provider breaks this, as the run refunds_total shows.
THEOREM TotalTrue == ASSUME Externals = {} PROVE Spec => []TotalIsTrue
<1>1. TotalInv /\ [Next]_vars => TotalInv'
  BY TotalStep
<1>2. TotalInv => TotalIsTrue
  BY TotalSafe
<1> QED BY <1>1, <1>2, TotalInitInv, PTL DEF Spec
=============================================================================
