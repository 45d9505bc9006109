--------------------------- MODULE GatewayProofs ---------------------------
(***************************************************************************)
(* Proofs about Gateway for every number of slots, requests and numbers    *)
(* and for every environment (all kinds of requests, failing sends, reused *)
(* slots, crashes, orphans).                                               *)
(*                                                                         *)
(* In a quiet environment (every request is forwarded, no send fails, no   *)
(* slot is taken over while its request waits) the gateway implements      *)
(* HttpService, whatever the replies, the timers, the crashes and the      *)
(* orphans do.                                                             *)
(***************************************************************************)
EXTENDS Gateway, TLAPS

----------------------------------------------------------------------------
(* iSender *)

\* The slot and the number that request_cb packs into iSender are the ones
\* that send_response takes out of it, and no packed value is the initial -1.
LEMMA PackUnpack ==
  ASSUME NEW i \in Slot, NEW n \in Nonce
  PROVE  /\ IndexOf(Pack(i, n)) = i
         /\ NumberOf(Pack(i, n)) = n
         /\ Pack(i, n) # -1
<1>1. i \in Nat /\ n \in Nat /\ n < 65536
  BY GatewayAssumption DEF GatewayAssumption, Slot
<1>2. (i * 65536 + n) \div 65536 = i
  BY <1>1
<1>3. (i * 65536 + n) % 65536 = n
  BY <1>1
<1>4. QED
  BY <1>1, <1>2, <1>3 DEF Pack, IndexOf, NumberOf

\* The cursor stays inside the table.
LEMMA AdvanceInSlot == \A c \in Slot : Advance(c) \in Slot
  BY GatewayAssumption DEF GatewayAssumption, Slot, Advance

\* WriteToMsgQue packs a slot and a number; both come out again.
LEMMA SenderParts ==
  ASSUME NEW s \in Sender
  PROVE  /\ IndexOf(s) \in Slot
         /\ NumberOf(s) \in Nonce
         /\ s = Pack(IndexOf(s), NumberOf(s))
         /\ s # -1
  BY PackUnpack DEF Sender

----------------------------------------------------------------------------
(* Types *)

\* A new request gets memory no one else has: fresh, or all pointers to a request
\* that was freed now lead to the new one.
LEMMA AllocateStep ==
  ASSUME TypeOK, Parked, Housed, NEW r \in Req, conn[r] = "new", Allocate(r)
  PROVE  /\ memory' \in [Req -> Req]
         /\ memory'[r] = r
         /\ \A p \in Req \ {r} :
              \/ memory'[p] = memory[p]
              \/ memory'[p] = r /\ conn[p] = "done"
<1>1. memory[r] = r
  BY DEF Housed
<1>2. CASE UNCHANGED memory
  BY <1>1, <1>2 DEF TypeOK
<1>3. CASE ~UNCHANGED memory
  <2>1. PICK i \in Slot :
          /\ Reqs[i].req # None
          /\ Answered(Reqs[i].req)
          /\ memory' = [p \in Req |-> IF memory[p] = memory[Reqs[i].req] THEN r ELSE memory[p]]
    BY <1>3 DEF Allocate
  <2> DEFINE q == memory[Reqs[i].req]
  <2>2. Reqs[i] \in SlotState
    BY DEF TypeOK
  <2>3. q \in Req /\ conn[q] = "done"
    BY <2>1, <2>2 DEF SlotState, TypeOK, Answered
  <2>4. ASSUME NEW p \in Req, memory[p] = q PROVE conn[p] = "done"
    BY <2>4, <2>3 DEF Housed
  <2>5. memory' \in [Req -> Req]
    BY <2>1 DEF TypeOK
  <2>6. memory'[r] = r
    BY <2>1, <1>1
  <2>7. \A p \in Req : memory'[p] = memory[p] \/ (memory'[p] = r /\ conn[p] = "done")
    BY <2>1, <2>4
  <2>8. QED
    BY <2>5, <2>6, <2>7
<1>4. QED
  BY <1>2, <1>3

\* A request that is parked keeps the types.
LEMMA ParkType ==
  ASSUME TypeOK, Parked, Housed, NEW r \in Req, NEW n \in Nonce, Park(r, n)
  PROVE  /\ Reqs' = [Reqs EXCEPT ![shCurrent] = [index |-> n, req |-> r, timer_ev |-> r]]
         /\ iSender' = [iSender EXCEPT ![r] = Pack(shCurrent, n)]
         /\ armed' = armed \cup {r}
         /\ Reqs' \in [Slot -> SlotState]
         /\ memory' \in [Req -> Req]
         /\ armed' \subseteq Req
         /\ iSender' \in [Req -> {-1} \cup Sender]
<1>1. n \in Nonce \cup {-1, 0} /\ r \in Req \cup {None}
  OBVIOUS
<1>2. [index |-> n, req |-> r, timer_ev |-> r] \in SlotState
  BY <1>1 DEF SlotState
<1>3. Pack(shCurrent, n) \in Sender
  BY DEF TypeOK, Sender
<1>4. /\ Reqs' = [Reqs EXCEPT ![shCurrent] = [index |-> n, req |-> r, timer_ev |-> r]]
      /\ iSender' = [iSender EXCEPT ![r] = Pack(shCurrent, n)]
      /\ armed' = armed \cup {r}
  BY DEF Park
<1>5. memory' \in [Req -> Req]
  BY AllocateStep DEF Park
<1>6. QED
  BY <1>2, <1>3, <1>4, <1>5 DEF TypeOK

\* Writing a reply keeps the types.
LEMMA WriteType ==
  ASSUME TypeOK, NEW q \in Req, NEW r \in Req,
         NEW code \in {"result", "timeout", "refused", "local"}, Write(q, code, r)
  PROVE  /\ conn' \in [Req -> {"new", "open", "done", "lost"}]
         /\ answers' \in [Req -> Seq(Entry)]
<1>1. [code |-> code, from |-> r] \in Entry
  BY DEF Entry
<1>2. Append(answers[q], [code |-> code, from |-> r]) \in Seq(Entry)
  BY <1>1 DEF TypeOK
<1>3. QED
  BY <1>2 DEF TypeOK, Write

\* The death of the process, whatever becomes of its reader, keeps the types.
LEMMA DieType ==
  ASSUME TypeOK, Die, orphans' \in Nat
  PROVE  TypeOK'
<1>1. FreeSlot \in SlotState
  BY DEF FreeSlot, SlotState
<1>2. 0 \in Slot
  BY GatewayAssumption DEF GatewayAssumption, Slot
<1>3. QED
  BY <1>1, <1>2 DEF TypeOK, Die

\* A timer that fires and a reply that is delivered find a request that was
\* parked in the slot they lead to.
LEMMA Lookup ==
  ASSUME IInv, NEW r \in armed \cup Outstanding
  PROVE  /\ r \in Req
         /\ SlotOf(r) \in Slot
         /\ Reqs[SlotOf(r)].req \in Req \cup {None}
         /\ Reqs[SlotOf(r)].req # None => memory[Reqs[SlotOf(r)].req] \in Req
         /\ iSender[r] = Pack(SlotOf(r), NumberOf(iSender[r]))
         /\ NumberOf(iSender[r]) \in Nonce
<1>1. r \in Req /\ iSender[r] \in Sender
  BY DEF IInv, TypeOK, Sent, Outstanding
<1>2. SlotOf(r) \in Slot
  BY <1>1, SenderParts DEF SlotOf
<1>3. Reqs[SlotOf(r)] \in SlotState
  BY <1>2 DEF IInv, TypeOK
<1>4. Reqs[SlotOf(r)].req \in Req \cup {None}
  BY <1>3 DEF SlotState
<1>5. Reqs[SlotOf(r)].req # None => memory[Reqs[SlotOf(r)].req] \in Req
  BY <1>4 DEF IInv, TypeOK
<1>6. QED
  BY <1>1, <1>2, <1>4, <1>5, SenderParts DEF SlotOf

\* Every step keeps the types.
LEMMA NextType ==
  ASSUME IInv, [Next]_vars
  PROVE  TypeOK'
<1> USE DEF IInv
<1>1. ASSUME NEW r \in Req, NEW n \in Nonce, Forward(r, n) PROVE TypeOK'
  BY <1>1, ParkType, AdvanceInSlot DEF TypeOK, Forward
<1>2. ASSUME NEW r \in Req, NEW n \in Nonce, ForwardFails(r, n) PROVE TypeOK'
  BY <1>2, ParkType, WriteType, AdvanceInSlot DEF TypeOK, ForwardFails
<1>3. ASSUME NEW r \in Req, NEW n \in Nonce, AnswerLocally(r, n) PROVE TypeOK'
  BY <1>3, ParkType, WriteType DEF TypeOK, AnswerLocally
<1>4. ASSUME NEW r \in Req, NEW n \in Nonce, DropUnparsed(r, n) PROVE TypeOK'
  BY <1>4, ParkType DEF TypeOK, DropUnparsed
<1>5. ASSUME Crash PROVE TypeOK'
  <2>1. orphans' \in Nat
    BY <1>5 DEF Crash, TypeOK
  <2>2. Die
    BY <1>5 DEF Crash
  <2>3. QED
    BY <2>1, <2>2, DieType
<1>6. ASSUME NEW r \in Req, TimerFires(r) PROVE TypeOK'
  <2> DEFINE i == SlotOf(r)
             q == memory[Reqs[i].req]
             new == [Reqs[i] EXCEPT !.index = -1, !.req = None]
  <2>1. Reqs[i].req # None /\ Write(q, "timeout", r) /\ r \in armed
    BY <1>6 DEF TimerFires
  <2>2. i \in Slot /\ q \in Req
    BY <2>1, Lookup
  <2>3. conn' \in [Req -> {"new", "open", "done", "lost"}] /\ answers' \in [Req -> Seq(Entry)]
    BY <2>1, <2>2, WriteType
  <2>4. Reqs' = [Reqs EXCEPT ![i] = new]
    BY <1>6 DEF TimerFires
  <2>5. new \in SlotState
    <3>1. Reqs[i] \in SlotState
      BY <2>2 DEF TypeOK
    <3>2. QED
      BY <3>1 DEF SlotState
  <2>6. Reqs' \in [Slot -> SlotState]
    BY <2>4, <2>5 DEF TypeOK
  <2>7. QED
    BY <1>6, <2>3, <2>6 DEF TypeOK, TimerFires
<1>7. ASSUME NEW r \in Req, SwitchReplies(r) PROVE TypeOK'
  BY <1>7 DEF TypeOK, SwitchReplies
<1>8. ASSUME NEW r \in Req, SwitchStaysSilent(r) PROVE TypeOK'
  BY <1>8 DEF TypeOK, SwitchStaysSilent
<1>9. ASSUME NEW r \in Req, ReaderForwards(r) PROVE TypeOK'
  BY <1>9 DEF TypeOK, ReaderForwards
<1>10. ASSUME NEW r \in Req, OrphanDrops(r) PROVE TypeOK'
  BY <1>10 DEF TypeOK, OrphanDrops
<1>11. ASSUME NEW r \in Req, Deliver(r) PROVE TypeOK'
  <2> DEFINE q == memory[Reqs[SlotOf(r)].req]
  <2>1. Reqs[SlotOf(r)].req # None /\ Write(q, "result", r) /\ r \in Outstanding
    BY <1>11 DEF Deliver, Outstanding
  <2>2. q \in Req
    BY <2>1, Lookup
  <2>3. conn' \in [Req -> {"new", "open", "done", "lost"}] /\ answers' \in [Req -> Seq(Entry)]
    BY <2>1, <2>2, WriteType
  <2>4. QED
    BY <1>11, <2>3 DEF TypeOK, Deliver
<1>12. ASSUME NEW r \in Req, Abandon(r) PROVE TypeOK'
  BY <1>12 DEF TypeOK, Abandon
<1>13. ASSUME ReaderExits PROVE TypeOK'
  BY <1>13 DEF TypeOK, ReaderExits
<1>14. ASSUME LoopExits PROVE TypeOK'
  <2>1. Die /\ orphans' \in Nat
    BY <1>14 DEF LoopExits, TypeOK
  <2>2. QED
    BY <2>1, DieType
<1>15. ASSUME Restart PROVE TypeOK'
  BY <1>15 DEF TypeOK, Restart
<1>16. CASE UNCHANGED vars
  BY <1>16 DEF TypeOK, vars
<1>17. QED
  BY <1>1, <1>2, <1>3, <1>4, <1>5, <1>6, <1>7, <1>8, <1>9, <1>10, <1>11,
     <1>12, <1>13, <1>14, <1>15, <1>16
  DEF Next, RequestArrives, TimerKills, DeliverKills, Killed

----------------------------------------------------------------------------
(* What each kind of step does to the parts of the invariant *)

Places == Sent /\ Parked /\ Housed /\ Elsewhere /\ Unseen /\ Signed

Delivery == Expected /\ ReplyToOwner /\ ResultComesFirst

Meaning == Places /\ Delivery

\* Answers are only added, and to requests that have arrived.
Grows ==
  /\ \A r \in Req : \A k \in DOMAIN answers[r] :
       k \in DOMAIN answers'[r] /\ answers'[r][k] = answers[r][k]
  /\ \A r \in Req : conn[r] # "new" => iSender'[r] = iSender[r]

\* A timer that has strayed has done so for ever.
LEMMA StrayedStays ==
  ASSUME IInv, Strayed, Grows
  PROVE  Delivery'
<1>1. PICK r \in Req : \E k \in DOMAIN answers[r] :
        answers[r][k].code = "timeout" /\ SlotOf(answers[r][k].from) # SlotOf(r)
  BY DEF Strayed
<1>2. PICK k \in DOMAIN answers[r] :
        answers[r][k].code = "timeout" /\ SlotOf(answers[r][k].from) # SlotOf(r)
  BY <1>1
<1>3. answers[r] \in Seq(Entry) /\ answers[r] # <<>>
  BY <1>2 DEF IInv, TypeOK
<1>4. conn[r] # "new"
  BY <1>3 DEF IInv, Unseen
<1>5. answers[r][k] \in Entry
  BY <1>2, <1>3
<1>6. answers[r][k].from \in Req /\ conn[answers[r][k].from] # "new"
  BY <1>2, <1>5 DEF Entry, IInv, Signed
<1>7. SlotOf(r)' = SlotOf(r) /\ SlotOf(answers[r][k].from)' = SlotOf(answers[r][k].from)
  BY <1>4, <1>6 DEF Grows, SlotOf
<1>8. k \in DOMAIN answers'[r] /\ answers'[r][k] = answers[r][k]
  BY <1>2 DEF Grows
<1>9. Strayed'
  BY <1>2, <1>7, <1>8 DEF Strayed, SlotOf
<1>20. QED
  BY <1>9 DEF Delivery, Expected, ReplyToOwner, ResultComesFirst

\* A step that moves or drops messages and disarms timers keeps everything.
LEMMA QuietStep ==
  ASSUME IInv, Outstanding' \subseteq Outstanding, armed' \subseteq armed,
         UNCHANGED <<Reqs, memory, iSender, conn, answers>>
  PROVE  Meaning'
<1> USE DEF IInv
<1>1. Places'
  BY DEF Places, Sent, Parked, Housed, Elsewhere, Unseen, Signed, SlotOf
<1>2. CASE Strayed
  <2>1. Grows
    BY DEF Grows
  <2>2. QED
    BY <2>1, <1>1, <1>2, StrayedStays DEF Meaning
<1>3. CASE ~Strayed
  <2>1. Expected'
    BY <1>3 DEF Expected, Matches, SlotOf
  <2>2. ReplyToOwner' /\ ResultComesFirst'
    BY <1>3 DEF ReplyToOwner, ResultComesFirst
  <2>3. QED
    BY <1>1, <2>1, <2>2 DEF Meaning, Delivery
<1>4. QED
  BY <1>2, <1>3

\* The table a dead process leaves holds no request.
LEMMA DieStep ==
  ASSUME IInv, Die
  PROVE  Meaning'
<1> USE DEF IInv, Die
<1>1. \A r \in Req : conn'[r] = "new" <=> conn[r] = "new"
  BY DEF TypeOK
<1>2. Sent'
  BY <1>1 DEF Sent, Outstanding, TypeOK
<1>3. Unseen'
  BY <1>1 DEF Unseen, TypeOK
<1>4. Signed'
  <2>1. ASSUME NEW r \in Req, NEW k \in DOMAIN answers[r]
        PROVE answers[r][k].from \in Req
    <3>1. answers[r][k] \in Entry
      BY DEF TypeOK
    <3>2. QED
      BY <3>1 DEF Entry
  <2>2. QED
    BY <2>1, <1>1 DEF Signed
<1>5. \A i \in Slot : Reqs'[i].req = None
  BY DEF FreeSlot
<1>6. Parked' /\ Elsewhere' /\ Housed'
  BY <1>5 DEF Parked, Elsewhere, Housed
<1>7. ASSUME NEW r \in Outstanding' PROVE Reqs'[SlotOf(r)'].req = None
  <2>1. r \in Outstanding
    BY DEF Outstanding
  <2>2. SlotOf(r)' \in Slot
    BY <2>1, Lookup DEF SlotOf
  <2>3. QED
    BY <2>2, <1>5
<1>8. Delivery'
  <2>1. Expected'
    BY <1>7 DEF Expected
  <2>2. CASE Strayed
    <3>1. Grows
      BY DEF Grows
    <3>2. QED
      BY <2>2, <3>1, StrayedStays
  <2>3. CASE ~Strayed
    BY <2>1, <2>3 DEF Delivery, ReplyToOwner, ResultComesFirst
  <2>4. QED
    BY <2>2, <2>3
<1>9. QED
  BY <1>2, <1>3, <1>4, <1>6, <1>8 DEF Meaning, Places

\* A request that arrives takes over the slot of the cursor: no message of the
\* slot's earlier requests carries the new number.
LEMMA ParkStep ==
  ASSUME IInv, NEW r \in Req, NEW n \in Nonce, Park(r, n),
         Outstanding' \subseteq Outstanding \cup {r},
         conn'[r] \in {"open", "done"},
         \A q \in Req \ {r} : conn'[q] = conn[q] /\ answers'[q] = answers[q],
         conn'[r] = "open" => answers'[r] = <<>>,
         conn'[r] = "open" \/ r \notin Outstanding',
         \A k \in DOMAIN answers'[r] :
           answers'[r][k].code # "result" /\ answers'[r][k].from = r
  PROVE  Meaning'
<1> USE DEF IInv
<1>1. conn[r] = "new" /\ Fresh(n) /\ shCurrent \in Slot /\ answers[r] = <<>>
  BY DEF Park, TypeOK, Unseen
<1>2. r \notin armed /\ r \notin Outstanding
  BY <1>1 DEF Sent
<1>3. /\ Reqs' = [Reqs EXCEPT ![shCurrent] = [index |-> n, req |-> r, timer_ev |-> r]]
      /\ iSender' = [iSender EXCEPT ![r] = Pack(shCurrent, n)]
      /\ armed' = armed \cup {r}
  BY ParkType
<1>4. /\ Reqs'[shCurrent].index = n /\ Reqs'[shCurrent].req = r
      /\ iSender'[r] = Pack(shCurrent, n)
      /\ \A i \in Slot \ {shCurrent} : Reqs'[i] = Reqs[i]
      /\ \A q \in Req \ {r} : iSender'[q] = iSender[q]
  BY <1>1, <1>3 DEF TypeOK
<1>5. /\ memory'[r] = r
      /\ \A p \in Req \ {r} :
           memory'[p] = memory[p] \/ (memory'[p] = r /\ conn[p] = "done")
  BY <1>1, AllocateStep DEF Park
<1>6. Pack(shCurrent, n) \in Sender /\ SlotOf(r)' = shCurrent
  BY <1>1, <1>4, PackUnpack DEF Sender, SlotOf
<1>7. Sent'
  <2>1. ASSUME NEW q \in armed' \cup Outstanding' PROVE iSender'[q] \in Sender /\ conn'[q] # "new"
    <3>1. CASE q = r
      BY <3>1, <1>4, <1>6
    <3>2. CASE q # r
      <4>1. q \in armed \cup Outstanding /\ q \in Req
        BY <3>2, <1>3 DEF TypeOK, Outstanding
      <4>2. QED
        BY <3>2, <4>1, <1>4 DEF Sent
    <3>3. QED
      BY <3>1, <3>2
  <2>2. QED
    BY <2>1 DEF Sent
<1>8. ASSUME NEW i \in Slot \ {shCurrent}, Reqs'[i].req # None
      PROVE /\ Reqs'[i] = Reqs[i]
            /\ Reqs[i].req \in Req \ {r}
            /\ Reqs[i].index \in Nonce
            /\ iSender[Reqs[i].req] = Pack(i, Reqs[i].index)
            /\ conn[Reqs[i].req] \in {"open", "done"}
  <2>1. Reqs'[i] = Reqs[i] /\ Reqs[i].req # None /\ Reqs[i] \in SlotState
    BY <1>8, <1>4 DEF TypeOK
  <2>2. /\ Reqs[i].index \in Nonce
        /\ iSender[Reqs[i].req] = Pack(i, Reqs[i].index)
        /\ conn[Reqs[i].req] \in {"open", "done"}
    BY <2>1 DEF Parked
  <2>3. Reqs[i].req \in Req \ {r}
    BY <2>1, <2>2, <1>1 DEF SlotState
  <2>4. QED
    BY <2>1, <2>2, <2>3
<1>9. Parked'
  <2>1. ASSUME NEW i \in Slot, Reqs'[i].req # None
        PROVE /\ Reqs'[i].index \in Nonce
              /\ iSender'[Reqs'[i].req] = Pack(i, Reqs'[i].index)
              /\ conn'[Reqs'[i].req] \in {"open", "done"}
    <3>1. CASE i = shCurrent
      BY <3>1, <1>4
    <3>2. CASE i # shCurrent
      BY <2>1, <3>2, <1>4, <1>8
    <3>3. QED
      BY <3>1, <3>2
  <2>2. QED
    BY <2>1 DEF Parked
<1>10. ASSUME NEW p \in Req, memory[p] # p
       PROVE p # r /\ memory[p] \in Req \ {r}
  <2>1. conn[p] = "done" /\ conn[memory[p]] \in {"open", "done"} /\ memory[p] \in Req
    BY <1>10 DEF Housed, TypeOK
  <2>2. QED
    BY <2>1, <1>1
<1>11. Housed'
  <2>1. ASSUME NEW p \in Req, memory'[p] # p
        PROVE conn'[p] = "done" /\ conn'[memory'[p]] \in {"open", "done"}
    <3>1. p # r
      BY <2>1, <1>5
    <3>2. CASE memory'[p] = memory[p]
      BY <2>1, <3>1, <3>2, <1>10 DEF Housed
    <3>3. CASE memory'[p] = r /\ conn[p] = "done"
      BY <3>1, <3>3
    <3>4. QED
      BY <3>1, <3>2, <3>3, <1>5
  <2>2. QED
    BY <2>1 DEF Housed
<1>12. Elsewhere'
  <2>1. ASSUME NEW i \in Slot, Reqs'[i].req # None, memory'[Reqs'[i].req] # Reqs'[i].req
        PROVE IndexOf(iSender'[memory'[Reqs'[i].req]]) # i
    <3>1. i # shCurrent
      BY <2>1, <1>4, <1>5
    <3> DEFINE p == Reqs[i].req
    <3>2. Reqs'[i].req = p /\ p \in Req \ {r} /\ p # None
      BY <2>1, <3>1, <1>8
    <3>3. CASE memory'[p] = memory[p]
      <4>1. memory[p] # p
        BY <2>1, <3>2, <3>3
      <4>2. memory[p] \in Req \ {r} /\ SlotOf(memory[p]) # i
        BY <4>1, <3>2, <1>10 DEF Elsewhere
      <4>3. iSender'[memory[p]] = iSender[memory[p]]
        BY <4>2, <1>4
      <4>4. QED
        BY <4>2, <4>3, <3>2, <3>3 DEF SlotOf
    <3>4. CASE memory'[p] = r
      BY <3>1, <3>2, <3>4, <1>6 DEF SlotOf
    <3>5. QED
      BY <3>2, <3>3, <3>4, <1>5
  <2>2. QED
    BY <2>1 DEF Elsewhere, SlotOf
<1>13. Unseen'
  BY DEF Unseen
<1>14. Signed'
  <2>1. ASSUME NEW q \in Req, NEW k \in DOMAIN answers'[q]
        PROVE conn'[answers'[q][k].from] # "new"
    <3>1. CASE q = r
      BY <3>1
    <3>2. CASE q # r
      <4>1. answers'[q] = answers[q] /\ answers[q][k] \in Entry
        BY <3>2 DEF TypeOK
      <4>2. answers[q][k].from \in Req /\ conn[answers[q][k].from] # "new"
        BY <4>1 DEF Entry, Signed
      <4>3. QED
        BY <4>1, <4>2, <1>1
    <3>3. QED
      BY <3>1, <3>2
  <2>2. QED
    BY <2>1 DEF Signed
<1>15. Places'
  BY <1>7, <1>9, <1>11, <1>12, <1>13, <1>14 DEF Places
<1>16. CASE Strayed
  <2>1. Grows
    <3>1. \A q \in Req : conn[q] # "new" => iSender'[q] = iSender[q]
      BY <1>1, <1>4
    <3>2. ASSUME NEW q \in Req, NEW k \in DOMAIN answers[q]
          PROVE k \in DOMAIN answers'[q] /\ answers'[q][k] = answers[q][k]
      BY <1>1
    <3>3. QED
      BY <3>1, <3>2 DEF Grows
  <2>2. QED
    BY <2>1, <1>15, <1>16, StrayedStays DEF Meaning
<1>17. CASE ~Strayed
  <2>1. ASSUME NEW q \in Outstanding', Matches(q)', Reqs'[SlotOf(q)'].req # None
        PROVE Reqs'[SlotOf(q)'].req = q /\ conn'[q] = "open"
    <3>1. CASE q = r
      BY <3>1, <1>4, <1>6
    <3>2. CASE q # r
      <4>1. q \in Outstanding /\ q \in Req
        BY <3>2 DEF TypeOK, Outstanding
      <4>2. iSender'[q] = iSender[q] /\ SlotOf(q)' = SlotOf(q) /\ SlotOf(q) \in Slot
        BY <4>1, <3>2, <1>4, Lookup DEF SlotOf
      <4>3. SlotOf(q) # shCurrent
        <5>1. SUFFICES ASSUME SlotOf(q) = shCurrent PROVE FALSE
          OBVIOUS
        <5>2. NumberOf(iSender[q]) = n
          BY <5>1, <4>2, <2>1, <1>4 DEF Matches
        <5>3. iSender[q] = Pack(shCurrent, n)
          BY <5>1, <5>2, <4>1, Lookup
        <5>4. QED
          BY <5>3, <4>1, <1>1 DEF Fresh
      <4>4. Reqs'[SlotOf(q)] = Reqs[SlotOf(q)]
        BY <4>2, <4>3, <1>4
      <4>5. Matches(q) /\ Reqs[SlotOf(q)].req # None
        BY <2>1, <4>2, <4>4 DEF Matches
      <4>6. QED
        BY <4>1, <4>2, <4>4, <4>5, <3>2, <1>17 DEF Expected
    <3>3. QED
      BY <3>1, <3>2
  <2>2. Expected'
    BY <2>1 DEF Expected
  <2>3. ReplyToOwner' /\ ResultComesFirst'
    BY <1>17 DEF ReplyToOwner, ResultComesFirst
  <2>4. QED
    BY <2>2, <2>3, <1>15 DEF Meaning, Delivery
<1>18. QED
  BY <1>16, <1>17

\* Something written to a request that has arrived, on behalf of another one.
LEMMA WriteStep ==
  ASSUME IInv, NEW q \in Req, NEW r \in Req, conn[q] \in {"open", "done"}, conn[r] # "new",
         NEW code \in {"result", "timeout"}, Write(q, code, r), UNCHANGED <<memory, iSender>>
  PROVE  /\ conn'[q] = "done"
         /\ answers'[q] = Append(answers[q], [code |-> code, from |-> r])
         /\ \A x \in Req \ {q} : conn'[x] = conn[x] /\ answers'[x] = answers[x]
         /\ Housed' /\ Unseen' /\ Signed' /\ Grows
<1> USE DEF IInv
<1>1. /\ conn'[q] = "done"
      /\ answers'[q] = Append(answers[q], [code |-> code, from |-> r])
      /\ \A x \in Req \ {q} : conn'[x] = conn[x] /\ answers'[x] = answers[x]
  BY DEF Write, TypeOK
<1>2. \A x \in Req : conn[x] \in {"open", "done"} => conn'[x] \in {"open", "done"}
  BY <1>1
<1>3. Housed'
  <2>1. ASSUME NEW p \in Req, memory[p] # p
        PROVE conn'[p] = "done" /\ conn'[memory[p]] \in {"open", "done"}
    <3>1. conn[p] = "done" /\ conn[memory[p]] \in {"open", "done"} /\ memory[p] \in Req
      BY <2>1 DEF Housed, TypeOK
    <3>2. QED
      BY <3>1, <1>1
  <2>2. QED
    BY <2>1 DEF Housed
<1>4. Unseen'
  BY <1>1 DEF Unseen
<1>5. answers[q] \in Seq(Entry)
  BY DEF TypeOK
<1>6. /\ \A k \in DOMAIN answers[q] :
           k \in DOMAIN answers'[q] /\ answers'[q][k] = answers[q][k]
      /\ \A k \in DOMAIN answers'[q] :
           \/ k \in DOMAIN answers[q] /\ answers'[q][k] = answers[q][k]
           \/ answers'[q][k] = [code |-> code, from |-> r]
  BY <1>1, <1>5
<1>7. Grows
  BY <1>1, <1>6 DEF Grows
<1>8. Signed'
  <2>1. ASSUME NEW x \in Req, NEW k \in DOMAIN answers'[x]
        PROVE conn'[answers'[x][k].from] # "new"
    <3>1. \A y \in Req : conn[y] # "new" => conn'[y] # "new"
      BY <1>1
    <3>2. CASE k \in DOMAIN answers[x] /\ answers'[x][k] = answers[x][k]
      <4>1. answers[x][k] \in Entry
        BY <3>2 DEF TypeOK
      <4>2. answers[x][k].from \in Req /\ conn[answers[x][k].from] # "new"
        BY <3>2, <4>1 DEF Entry, Signed
      <4>3. QED
        BY <3>1, <3>2, <4>2
    <3>3. CASE x = q /\ answers'[x][k] = [code |-> code, from |-> r]
      BY <3>1, <3>3
    <3>4. QED
      BY <3>2, <3>3, <1>1, <1>6
  <2>2. QED
    BY <2>1 DEF Signed
<1>9. QED
  BY <1>1, <1>3, <1>4, <1>7, <1>8

\* A timer empties the slot it finds: whatever message still leads there finds
\* no request.  It ends the slot's own request, or it strays to the one of
\* another slot.
LEMMA TimerStep ==
  ASSUME IInv, NEW t \in Req, TimerFires(t)
  PROVE  Meaning'
<1> DEFINE i == SlotOf(t)
           p == Reqs[i].req
           q == memory[p]
<1> USE DEF IInv
<1>1. t \in armed /\ p # None /\ Write(q, "timeout", t) /\ UNCHANGED <<memory, iSender>>
  BY DEF TimerFires
<1>2. i \in Slot /\ p \in Req /\ q \in Req
  BY <1>1, Lookup
<1>3. /\ iSender[p] = Pack(i, Reqs[i].index) /\ Reqs[i].index \in Nonce
      /\ conn[p] \in {"open", "done"}
  BY <1>1, <1>2 DEF Parked
<1>4. conn[q] \in {"open", "done"} /\ conn[t] # "new"
  BY <1>1, <1>2, <1>3 DEF Housed, Sent
<1>5. SlotOf(p) = i
  BY <1>2, <1>3, PackUnpack DEF SlotOf
<1>6. /\ conn'[q] = "done"
      /\ answers'[q] = Append(answers[q], [code |-> "timeout", from |-> t])
      /\ \A r \in Req \ {q} : conn'[r] = conn[r] /\ answers'[r] = answers[r]
      /\ Housed' /\ Unseen' /\ Signed' /\ Grows
  BY <1>1, <1>2, <1>4, WriteStep
<1>7. Reqs'[i].req = None /\ \A j \in Slot \ {i} : Reqs'[j] = Reqs[j]
  BY <1>2 DEF TimerFires, TypeOK
<1>8. Outstanding' = Outstanding /\ armed' \subseteq armed
  BY DEF TimerFires, Outstanding
<1>9. \A r \in armed \cup Outstanding : r \in Req
  BY DEF TypeOK, Outstanding
<1>10. Sent'
  <2>1. ASSUME NEW r \in armed' \cup Outstanding' PROVE iSender'[r] \in Sender /\ conn'[r] # "new"
    <3>1. r \in armed \cup Outstanding
      BY <1>8
    <3>2. r \in Req /\ iSender[r] \in Sender /\ conn[r] # "new"
      BY <3>1, <1>9 DEF Sent
    <3>3. QED
      BY <3>2, <1>1, <1>6
  <2>2. QED
    BY <2>1 DEF Sent
<1>11. Parked'
  <2>1. ASSUME NEW j \in Slot, Reqs'[j].req # None
        PROVE /\ Reqs'[j].index \in Nonce
              /\ iSender'[Reqs'[j].req] = Pack(j, Reqs'[j].index)
              /\ conn'[Reqs'[j].req] \in {"open", "done"}
    <3>1. Reqs'[j] = Reqs[j] /\ Reqs[j].req # None /\ Reqs[j] \in SlotState
      BY <2>1, <1>7 DEF TypeOK
    <3>2. Reqs[j].req \in Req
      BY <3>1 DEF SlotState
    <3>3. QED
      BY <3>1, <3>2, <1>1, <1>6 DEF Parked
  <2>2. QED
    BY <2>1 DEF Parked
<1>12. Elsewhere'
  BY <1>1, <1>7 DEF Elsewhere, SlotOf
<1>13. Places'
  BY <1>6, <1>10, <1>11, <1>12 DEF Places
<1>14. CASE Strayed
  BY <1>6, <1>13, <1>14, StrayedStays DEF Meaning
<1>15. answers[q] \in Seq(Entry)
  BY <1>2 DEF TypeOK
<1>16. CASE q # p
  <2>1. SlotOf(q) # SlotOf(t)
    BY <1>1, <1>2, <1>16 DEF Elsewhere
  <2>2. PICK k \in DOMAIN answers'[q] : answers'[q][k] = [code |-> "timeout", from |-> t]
    <3>1. /\ Len(answers[q]) + 1 \in DOMAIN answers'[q]
          /\ answers'[q][Len(answers[q]) + 1] = [code |-> "timeout", from |-> t]
      BY <1>6, <1>15
    <3>2. QED
      BY <3>1
  <2>3. answers'[q][k].code = "timeout" /\ answers'[q][k].from = t
    BY <2>2
  <2>4. Strayed'
    BY <2>1, <2>3, <1>1, <1>2 DEF Strayed, SlotOf
  <2>5. QED
    BY <2>4, <1>13 DEF Meaning, Delivery, Expected, ReplyToOwner, ResultComesFirst
<1>17. CASE ~Strayed /\ q = p
  <2>1. ASSUME NEW r \in Outstanding, Matches(r)', Reqs'[SlotOf(r)'].req # None
        PROVE Reqs'[SlotOf(r)'].req = r /\ conn'[r] = "open"
    <3>1. r \in Req /\ SlotOf(r)' = SlotOf(r) /\ SlotOf(r) \in Slot
      BY <1>1, <1>9, Lookup DEF SlotOf
    <3>2. SlotOf(r) # i
      BY <2>1, <3>1, <1>7
    <3>3. Reqs'[SlotOf(r)] = Reqs[SlotOf(r)]
      BY <3>1, <3>2, <1>7
    <3>4. Matches(r) /\ Reqs[SlotOf(r)].req # None
      BY <2>1, <3>1, <3>3, <1>1 DEF Matches
    <3>5. Reqs[SlotOf(r)].req = r /\ conn[r] = "open"
      BY <3>4, <1>17 DEF Expected
    <3>6. r # q
      BY <3>2, <1>5, <1>17
    <3>7. QED
      BY <3>1, <3>3, <3>5, <3>6, <1>6
  <2>2. Expected'
    BY <2>1, <1>8 DEF Expected
  <2>3. ASSUME NEW r \in Req, NEW k \in DOMAIN answers'[r], answers'[r][k].code = "result"
        PROVE answers'[r][k].from = r /\ k = 1
    <3>1. CASE r # q
      BY <2>3, <3>1, <1>6, <1>17 DEF ReplyToOwner, ResultComesFirst
    <3>2. CASE r = q
      <4>1. k \in DOMAIN answers[q] /\ answers'[q][k] = answers[q][k]
        BY <2>3, <3>2, <1>15, <1>6
      <4>2. QED
        BY <2>3, <3>2, <4>1, <1>2, <1>17 DEF ReplyToOwner, ResultComesFirst
    <3>3. QED
      BY <3>1, <3>2
  <2>4. ReplyToOwner' /\ ResultComesFirst'
    BY <2>3 DEF ReplyToOwner, ResultComesFirst
  <2>5. QED
    BY <2>2, <2>4, <1>13 DEF Meaning, Delivery
<1>18. QED
  BY <1>14, <1>16, <1>17

\* A reply that meets its number meets its own request, unanswered, unless a timer
\* has strayed before.
LEMMA DeliverStep ==
  ASSUME IInv, NEW r \in Req, Deliver(r)
  PROVE  Meaning'
<1> DEFINE p == Reqs[SlotOf(r)].req
           q == memory[p]
<1> USE DEF IInv
<1>1. r \in pipe /\ r \in Outstanding /\ Matches(r) /\ p # None
  BY DEF Deliver, Outstanding
<1>2. SlotOf(r) \in Slot /\ p \in Req /\ q \in Req
  BY <1>1, Lookup
<1>3. conn[q] \in {"open", "done"} /\ conn[r] # "new"
  BY <1>1, <1>2 DEF Parked, Housed, Sent
<1>4. /\ conn'[q] = "done"
      /\ answers'[q] = Append(answers[q], [code |-> "result", from |-> r])
      /\ \A x \in Req \ {q} : conn'[x] = conn[x] /\ answers'[x] = answers[x]
      /\ Housed' /\ Unseen' /\ Signed' /\ Grows
  BY <1>2, <1>3, WriteStep DEF Deliver
<1>5. Outstanding' \subseteq Outstanding \ {r}
  BY <1>1 DEF Deliver, Outstanding, OnePlace
<1>6. armed' \subseteq armed /\ iSender' = iSender /\ Reqs' = Reqs /\ memory' = memory
  BY DEF Deliver
<1>7. \A x \in armed \cup Outstanding : x \in Req
  BY DEF TypeOK, Outstanding
<1>8. Sent'
  BY <1>4, <1>5, <1>6, <1>7 DEF Sent
<1>9. Parked'
  <2>1. ASSUME NEW i \in Slot, Reqs[i].req # None PROVE conn'[Reqs[i].req] \in {"open", "done"}
    <3>1. Reqs[i] \in SlotState
      BY DEF TypeOK
    <3>2. Reqs[i].req \in Req
      BY <2>1, <3>1 DEF SlotState
    <3>3. QED
      BY <2>1, <3>2, <1>4 DEF Parked
  <2>2. QED
    BY <2>1, <1>6 DEF Parked
<1>10. Elsewhere'
  BY <1>6 DEF Elsewhere, SlotOf
<1>11. Places'
  BY <1>4, <1>8, <1>9, <1>10 DEF Places
<1>12. CASE Strayed
  BY <1>4, <1>11, <1>12, StrayedStays DEF Meaning
<1>13. CASE ~Strayed
  <2>1. p = r /\ conn[r] = "open"
    BY <1>1, <1>13 DEF Expected
  <2>2. q = r /\ answers[r] = <<>>
    BY <2>1 DEF Housed, Unseen
  <2>3. answers'[r] = <<[code |-> "result", from |-> r]>>
    <3>1. answers'[r] = Append(<<>>, [code |-> "result", from |-> r])
      BY <2>2, <1>4
    <3>2. QED
      BY <3>1
  <2>4. ASSUME NEW x \in Outstanding', Matches(x)', Reqs'[SlotOf(x)'].req # None
        PROVE Reqs'[SlotOf(x)'].req = x /\ conn'[x] = "open"
    <3>1. x \in Outstanding /\ x \in Req \ {r}
      BY <1>5, <1>7
    <3>2. SlotOf(x)' = SlotOf(x) /\ Matches(x) /\ Reqs[SlotOf(x)].req # None
      BY <2>4, <1>6 DEF SlotOf, Matches
    <3>3. Reqs[SlotOf(x)].req = x /\ conn[x] = "open"
      BY <3>1, <3>2, <1>13 DEF Expected
    <3>4. QED
      BY <3>1, <3>2, <3>3, <2>2, <1>4, <1>6
  <2>5. Expected'
    BY <2>4 DEF Expected
  <2>6. ASSUME NEW x \in Req, NEW k \in DOMAIN answers'[x], answers'[x][k].code = "result"
        PROVE answers'[x][k].from = x /\ k = 1
    <3>1. CASE x = r
      BY <3>1, <2>3, <2>6
    <3>2. CASE x # r
      BY <2>6, <3>2, <2>2, <1>4, <1>13 DEF ReplyToOwner, ResultComesFirst
    <3>3. QED
      BY <3>1, <3>2
  <2>7. ReplyToOwner' /\ ResultComesFirst'
    BY <2>6 DEF ReplyToOwner, ResultComesFirst
  <2>8. QED
    BY <2>5, <2>7, <1>11 DEF Meaning, Delivery
<1>14. QED
  BY <1>12, <1>13

\* A request that arrives and is only parked, or refused, or answered here.
LEMMA ArrivalStep ==
  ASSUME IInv, NEW r \in Req, NEW n \in Nonce,
         Forward(r, n) \/ ForwardFails(r, n) \/ AnswerLocally(r, n) \/ DropUnparsed(r, n)
  PROVE  Meaning' /\ OnePlace'
<1> USE DEF IInv
<1>1. Park(r, n) /\ conn[r] = "new" /\ answers[r] = <<>>
  BY DEF Forward, ForwardFails, AnswerLocally, DropUnparsed, Park, Unseen
<1>2. r \notin Outstanding
  BY <1>1 DEF Sent
<1>3. CASE Forward(r, n)
  <2>1. Outstanding' = Outstanding \cup {r} /\ OnePlace'
    BY <1>2, <1>3 DEF Forward, Outstanding, OnePlace
  <2>2. /\ conn'[r] = "open" /\ answers' = answers
        /\ \A q \in Req \ {r} : conn'[q] = conn[q]
    BY <1>3 DEF Forward, TypeOK
  <2>3. QED
    BY <1>1, <2>1, <2>2, ParkStep
<1>4. CASE DropUnparsed(r, n)
  <2>1. Outstanding' = Outstanding /\ OnePlace'
    BY <1>4 DEF DropUnparsed, Outstanding, OnePlace
  <2>2. /\ conn'[r] = "open" /\ answers' = answers
        /\ \A q \in Req \ {r} : conn'[q] = conn[q]
    BY <1>4 DEF DropUnparsed, TypeOK
  <2>3. QED
    BY <1>1, <2>1, <2>2, ParkStep
<1>5. ASSUME NEW code \in {"refused", "local"}, Write(r, code, r),
             UNCHANGED <<switchQ, replyQ, pipe>>
      PROVE  Meaning' /\ OnePlace'
  <2>1. Outstanding' = Outstanding /\ OnePlace'
    BY <1>5 DEF Outstanding, OnePlace
  <2>2. /\ conn'[r] = "done"
        /\ \A q \in Req \ {r} : conn'[q] = conn[q] /\ answers'[q] = answers[q]
        /\ answers'[r] = <<[code |-> code, from |-> r]>>
    BY <1>1, <1>5 DEF Write, TypeOK
  <2>3. \A k \in DOMAIN answers'[r] : answers'[r][k].code # "result"
    BY <2>2
  <2>4. QED
    BY <1>1, <1>2, <2>1, <2>2, <2>3, ParkStep
<1>6. CASE ForwardFails(r, n)
  BY <1>5, <1>6 DEF ForwardFails
<1>7. CASE AnswerLocally(r, n)
  BY <1>5, <1>7 DEF AnswerLocally
<1>8. QED
  BY <1>3, <1>4, <1>6, <1>7

\* Every step keeps what slots, messages and timers mean to each other.
LEMMA NextMeaning ==
  ASSUME IInv, [Next]_vars
  PROVE  Meaning' /\ OnePlace'
<1> USE DEF IInv
<1>1. ASSUME Die PROVE Meaning' /\ OnePlace'
  BY <1>1, DieStep DEF OnePlace, Die
<1>2. ASSUME NEW r \in Req, TimerFires(r) PROVE Meaning' /\ OnePlace'
  BY <1>2, TimerStep DEF OnePlace, TimerFires
<1>3. ASSUME NEW r \in Req, SwitchReplies(r) PROVE Meaning' /\ OnePlace'
  <2>1. Outstanding' = Outstanding /\ OnePlace'
    BY <1>3 DEF SwitchReplies, Outstanding, OnePlace
  <2>2. QED
    BY <1>3, <2>1, QuietStep DEF SwitchReplies
<1>4. ASSUME NEW r \in Req, SwitchStaysSilent(r) PROVE Meaning' /\ OnePlace'
  <2>1. Outstanding' \subseteq Outstanding /\ OnePlace'
    BY <1>4 DEF SwitchStaysSilent, Outstanding, OnePlace
  <2>2. QED
    BY <1>4, <2>1, QuietStep DEF SwitchStaysSilent
<1>5. ASSUME NEW r \in Req, ReaderForwards(r) PROVE Meaning' /\ OnePlace'
  <2>1. Outstanding' = Outstanding /\ OnePlace'
    BY <1>5 DEF ReaderForwards, Outstanding, OnePlace
  <2>2. QED
    BY <1>5, <2>1, QuietStep DEF ReaderForwards
<1>6. ASSUME NEW r \in Req, OrphanDrops(r) PROVE Meaning' /\ OnePlace'
  <2>1. Outstanding' \subseteq Outstanding /\ OnePlace'
    BY <1>6 DEF OrphanDrops, Outstanding, OnePlace
  <2>2. QED
    BY <1>6, <2>1, QuietStep DEF OrphanDrops
<1>7. ASSUME NEW r \in Req, Deliver(r) PROVE Meaning' /\ OnePlace'
  BY <1>7, DeliverStep DEF OnePlace, Deliver
<1>8. ASSUME NEW r \in Req, Abandon(r) PROVE Meaning' /\ OnePlace'
  <2>1. Outstanding' \subseteq Outstanding /\ OnePlace'
    BY <1>8 DEF Abandon, Outstanding, OnePlace
  <2>2. QED
    BY <1>8, <2>1, QuietStep DEF Abandon
<1>9. ASSUME ReaderExits PROVE Meaning' /\ OnePlace'
  <2>1. Outstanding' \subseteq Outstanding /\ OnePlace'
    BY <1>9 DEF ReaderExits, Outstanding, OnePlace
  <2>2. QED
    BY <1>9, <2>1, QuietStep DEF ReaderExits
<1>10. ASSUME Restart PROVE Meaning' /\ OnePlace'
  <2>1. Outstanding' = Outstanding /\ OnePlace'
    BY <1>10 DEF Restart, Outstanding, OnePlace
  <2>2. QED
    BY <1>10, <2>1, QuietStep DEF Restart
<1>11. ASSUME UNCHANGED vars PROVE Meaning' /\ OnePlace'
  <2>1. Outstanding' = Outstanding /\ OnePlace'
    BY <1>11 DEF vars, Outstanding, OnePlace
  <2>2. QED
    BY <1>11, <2>1, QuietStep DEF vars
<1>12. QED
  BY <1>1, <1>2, <1>3, <1>4, <1>5, <1>6, <1>7, <1>8, <1>9, <1>10, <1>11, ArrivalStep
  DEF Next, RequestArrives, TimerKills, DeliverKills, Killed, LoopExits, Crash

----------------------------------------------------------------------------
(* The theorems *)

LEMMA InitIInv == Init => IInv
<1> SUFFICES ASSUME Init PROVE IInv
  OBVIOUS
<1>1. FreeSlot \in SlotState /\ 0 \in Slot
  BY GatewayAssumption DEF GatewayAssumption, FreeSlot, SlotState, Slot
<1>2. TypeOK
  <2>1. <<>> \in Seq(Entry)
    OBVIOUS
  <2>2. QED
    BY <1>1, <2>1 DEF Init, TypeOK
<1>3. Outstanding = {} /\ armed = {} /\ OnePlace
  BY DEF Init, Outstanding, OnePlace
<1>4. Sent /\ Expected /\ Unseen /\ Signed
  BY <1>3 DEF Init, Sent, Expected, Unseen, Signed
<1>5. Parked /\ Housed /\ Elsewhere
  BY DEF Init, Parked, Housed, Elsewhere, FreeSlot
<1>6. ReplyToOwner /\ ResultComesFirst
  BY DEF Init, ReplyToOwner, ResultComesFirst
<1>7. QED
  BY <1>2, <1>3, <1>4, <1>5, <1>6 DEF IInv

\* The invariant holds in every state the gateway reaches.
THEOREM Inductive == Spec => []IInv
<1>1. IInv /\ [Next]_vars => IInv'
  BY NextType, NextMeaning DEF IInv, Meaning, Places, Delivery
<1>2. QED
  BY InitIInv, <1>1, PTL DEF Spec

\* The table, the cursor, the numbers and the queues keep their types.
THEOREM TypeCorrect == Spec => []TypeOK
<1>1. IInv => TypeOK
  BY DEF IInv
<1>2. QED
  BY Inductive, <1>1, PTL

\* A result reaches only the client whose request it answers, until a timer has
\* ended a request of another slot: with any number of slots, clients and numbers,
\* slots that are taken over while they wait, memory that is freed and given to
\* others, replies that come late, sends that fail, restarts, orphans.
THEOREM ReplyIsNeverMisdelivered == Spec => []ReplyToOwner
<1>1. IInv => ReplyToOwner
  BY DEF IInv
<1>2. QED
  BY Inductive, <1>1, PTL

\* No result is ever written to a client that already has an answer, until a
\* timer has ended a request of another slot.
THEOREM ResultIsNeverSecond == Spec => []ResultComesFirst
<1>1. IInv => ResultComesFirst
  BY DEF IInv
<1>2. QED
  BY Inductive, <1>1, PTL

----------------------------------------------------------------------------
(* The quiet gateway and HttpService *)

\* A step of a dying gateway.
LEMMA DieQuiet ==
  ASSUME QInv, Die
  PROVE  Timed' /\ Waiting' /\ TimeoutIsOwn' /\ Service!Crash
<1> USE DEF QInv, IInv, Die
<1>1. Timed' /\ TimeoutIsOwn'
  BY DEF Timed, TimeoutIsOwn
<1>2. Waiting'
  BY DEF Waiting, TypeOK, Unseen
<1>3. Service!Crash
  BY DEF Service!Crash
<1>4. QED
  BY <1>1, <1>2, <1>3

\* A forwarded request takes a slot that no pending timer leads to.
LEMMA ForwardQuiet ==
  ASSUME Quiet, QInv, NEW r \in Req, NEW n \in Nonce, Forward(r, n)
  PROVE  Timed' /\ Waiting' /\ TimeoutIsOwn' /\ Service!Accept(r)
<1> USE DEF QInv, IInv
<1>1. /\ Park(r, n) /\ conn[r] = "new" /\ answers[r] = <<>>
      /\ shCurrent \in Slot /\ \A t \in armed : SlotOf(t) # shCurrent
  BY DEF Forward, Park, Quiet, Unseen, Timed, TypeOK
<1>2. /\ Reqs' = [Reqs EXCEPT ![shCurrent] = [index |-> n, req |-> r, timer_ev |-> r]]
      /\ iSender' = [iSender EXCEPT ![r] = Pack(shCurrent, n)]
      /\ armed' = armed \cup {r}
  BY <1>1, ParkType
<1>3. /\ Reqs'[shCurrent] = [index |-> n, req |-> r, timer_ev |-> r]
      /\ iSender'[r] = Pack(shCurrent, n)
      /\ \A i \in Slot \ {shCurrent} : Reqs'[i] = Reqs[i]
      /\ \A q \in Req \ {r} : iSender'[q] = iSender[q]
  BY <1>1, <1>2 DEF TypeOK
<1>4. conn' = [conn EXCEPT ![r] = "open"] /\ answers' = answers
  BY DEF Forward
<1>5. conn'[r] = "open" /\ \A q \in Req \ {r} : conn'[q] = conn[q]
  BY <1>4 DEF TypeOK
<1>6. Timed'
  <2>1. ASSUME NEW t \in armed'
        PROVE /\ conn'[t] = "open"
              /\ Reqs'[SlotOf(t)'].req = t
              /\ Reqs'[SlotOf(t)'].timer_ev = t
    <3>1. CASE t = r
      <4>1. SlotOf(t)' = shCurrent
        BY <3>1, <1>1, <1>3, PackUnpack DEF SlotOf
      <4>2. QED
        BY <3>1, <4>1, <1>3, <1>5
    <3>2. CASE t # r
      <4>1. t \in armed /\ t \in Req
        BY <3>2, <1>2 DEF TypeOK
      <4>2. conn[t] = "open" /\ Reqs[SlotOf(t)].req = t /\ Reqs[SlotOf(t)].timer_ev = t
        BY <4>1 DEF Timed
      <4>3. SlotOf(t) # shCurrent
        BY <4>1, <1>1
      <4>4. SlotOf(t)' = SlotOf(t) /\ SlotOf(t) \in Slot
        BY <3>2, <4>1, <1>3, Lookup DEF SlotOf
      <4>5. QED
        BY <3>2, <4>1, <4>2, <4>3, <4>4, <1>3, <1>5
    <3>3. QED
      BY <3>1, <3>2
  <2>2. QED
    BY <2>1 DEF Timed
<1>7. Waiting'
  <2>1. ASSUME NEW q \in Req
        PROVE /\ conn'[q] = "open" => q \in armed'
              /\ conn'[q] = "done" => Len(answers'[q]) = 1
              /\ conn'[q] = "lost" => answers'[q] = <<>>
    <3>1. CASE q = r
      BY <3>1, <1>1, <1>2, <1>4, <1>5
    <3>2. CASE q # r
      BY <3>2, <1>2, <1>4, <1>5 DEF Waiting
    <3>3. QED
      BY <3>1, <3>2
  <2>2. QED
    BY <2>1 DEF Waiting
<1>8. TimeoutIsOwn' /\ Service!Accept(r)
  BY <1>1, <1>4 DEF TimeoutIsOwn, Service!Accept
<1>9. QED
  BY <1>6, <1>7, <1>8

\* A request that waits is answered once: its answer disarms its timer.
LEMMA AnswerQuiet ==
  ASSUME QInv, NEW r \in Req, conn[r] = "open",
         NEW code \in {"result", "timeout"}, Write(r, code, r),
         armed' = armed \ {r}, UNCHANGED iSender,
         \A i \in Slot \ {SlotOf(r)} : Reqs'[i] = Reqs[i]
  PROVE  Timed' /\ Waiting' /\ TimeoutIsOwn' /\ Service!Answer(r)
<1> USE DEF QInv, IInv
<1>1. r \in armed /\ answers[r] = <<>> /\ Reqs[SlotOf(r)].req = r
  BY DEF Waiting, Timed, Unseen
<1>2. /\ conn' = [conn EXCEPT ![r] = "done"]
      /\ answers' = [answers EXCEPT ![r] = <<[code |-> code, from |-> r]>>]
  BY <1>1 DEF Write, TypeOK
<1>3. /\ conn'[r] = "done" /\ answers'[r] = <<[code |-> code, from |-> r]>>
      /\ \A q \in Req \ {r} : conn'[q] = conn[q] /\ answers'[q] = answers[q]
  BY <1>2 DEF TypeOK
<1>4. Timed'
  <2>1. ASSUME NEW t \in armed'
        PROVE /\ conn'[t] = "open"
              /\ Reqs'[SlotOf(t)'].req = t
              /\ Reqs'[SlotOf(t)'].timer_ev = t
    <3>1. t \in armed /\ t \in Req /\ t # r
      BY DEF TypeOK
    <3>2. conn[t] = "open" /\ Reqs[SlotOf(t)].req = t /\ Reqs[SlotOf(t)].timer_ev = t
      BY <3>1 DEF Timed
    <3>3. SlotOf(t)' = SlotOf(t) /\ SlotOf(t) \in Slot /\ SlotOf(t) # SlotOf(r)
      BY <3>1, <3>2, <1>1, Lookup DEF SlotOf
    <3>4. QED
      BY <3>1, <3>2, <3>3, <1>3
  <2>2. QED
    BY <2>1 DEF Timed
<1>5. Waiting'
  <2>1. Len(answers'[r]) = 1
    BY <1>3
  <2>2. ASSUME NEW q \in Req, q # r
        PROVE /\ conn'[q] = "open" => q \in armed'
              /\ conn'[q] = "done" => Len(answers'[q]) = 1
              /\ conn'[q] = "lost" => answers'[q] = <<>>
    BY <2>2, <1>3 DEF Waiting
  <2>3. QED
    BY <2>1, <2>2, <1>3 DEF Waiting
<1>6. TimeoutIsOwn'
  BY <1>3 DEF TimeoutIsOwn
<1>7. Service!Answer(r)
  BY <1>2 DEF Service!Answer
<1>8. QED
  BY <1>4, <1>5, <1>6, <1>7

\* A timer that fires answers a request that waits, and its own.
LEMMA TimerQuiet ==
  ASSUME QInv, NEW t \in Req, TimerFires(t)
  PROVE  Timed' /\ Waiting' /\ TimeoutIsOwn' /\ Service!Answer(t)
<1> USE DEF QInv, IInv
<1>1. t \in armed /\ conn[t] = "open" /\ Reqs[SlotOf(t)].req = t
  BY DEF TimerFires, Timed
<1>2. Write(t, "timeout", t) /\ armed' = armed \ {t} /\ UNCHANGED iSender
  <2>1. memory[t] = t
    BY <1>1 DEF Housed, TypeOK
  <2>2. QED
    BY <1>1, <2>1 DEF TimerFires
<1>3. SlotOf(t) \in Slot
  BY <1>1, Lookup
<1>4. \A i \in Slot \ {SlotOf(t)} : Reqs'[i] = Reqs[i]
  BY <1>1, <1>3 DEF TimerFires, TypeOK
<1>5. QED
  BY <1>1, <1>2, <1>4, AnswerQuiet

\* A reply that meets its slot answers a request that waits.
LEMMA DeliverQuiet ==
  ASSUME QInv, NEW r \in Req, Deliver(r)
  PROVE  Timed' /\ Waiting' /\ TimeoutIsOwn' /\ Service!Answer(r)
<1> USE DEF QInv, IInv
<1>1. r \in Outstanding /\ Matches(r) /\ Reqs[SlotOf(r)].req # None
  BY DEF Deliver, Outstanding
<1>2. ~Strayed
  BY DEF TimeoutIsOwn, Strayed
<1>3. Reqs[SlotOf(r)].req = r /\ conn[r] = "open"
  BY <1>1, <1>2 DEF Expected
<1>4. memory[r] = r
  BY <1>3 DEF Housed
<1>5. Reqs[SlotOf(r)].timer_ev = r
  BY <1>3 DEF Waiting, Timed
<1>6. Write(r, "result", r) /\ armed' = armed \ {r} /\ UNCHANGED <<iSender, Reqs>>
  BY <1>3, <1>4, <1>5 DEF Deliver
<1>7. QED
  BY <1>3, <1>6, AnswerQuiet

\* Every other step leaves the table, the timers and the clients alone, or dies.
LEMMA NextQuiet ==
  ASSUME Quiet, QInv, [Next]_vars
  PROVE  Timed' /\ Waiting' /\ TimeoutIsOwn' /\ [Service!Next]_(Service!vars)
<1> DEFINE Goal == Timed' /\ Waiting' /\ TimeoutIsOwn' /\ [Service!Next]_(Service!vars)
<1>1. ASSUME UNCHANGED <<Reqs, armed, iSender, conn, answers>> PROVE Goal
  BY <1>1 DEF QInv, Timed, Waiting, TimeoutIsOwn, SlotOf, Service!vars
<1>2. ASSUME Die PROVE Goal
  BY <1>2, DieQuiet DEF Service!Next
<1>3. ASSUME NEW r \in Req, NEW n \in Nonce, Forward(r, n) PROVE Goal
  BY <1>3, ForwardQuiet DEF Service!Next
<1>4. ASSUME NEW r \in Req, TimerFires(r) PROVE Goal
  BY <1>4, TimerQuiet DEF Service!Next
<1>5. ASSUME NEW r \in Req, Deliver(r) PROVE Goal
  BY <1>5, DeliverQuiet DEF Service!Next
<1>6. ASSUME NEW r \in Req,
             \/ SwitchReplies(r) \/ SwitchStaysSilent(r) \/ ReaderForwards(r)
             \/ OrphanDrops(r) \/ Abandon(r) \/ ReaderExits \/ Restart
      PROVE  Goal
  <2>1. UNCHANGED <<Reqs, armed, iSender, conn, answers>>
    BY <1>6 DEF SwitchReplies, SwitchStaysSilent, ReaderForwards, OrphanDrops, Abandon,
                ReaderExits, Restart
  <2>2. QED
    BY <2>1, <1>1
<1>7. ASSUME ReaderExits \/ Restart PROVE Goal
  <2>1. UNCHANGED <<Reqs, armed, iSender, conn, answers>>
    BY <1>7 DEF ReaderExits, Restart
  <2>2. QED
    BY <2>1, <1>1
<1>8. CASE UNCHANGED vars
  BY <1>8, <1>1 DEF vars
<1>9. CASE RequestArrives
  <2>1. "local" \notin Kinds /\ "unparsed" \notin Kinds /\ ~SendFails
    BY DEF Quiet
  <2>2. PICK r \in Req, n \in Nonce : Forward(r, n)
    BY <1>9, <2>1 DEF RequestArrives, ForwardFails, AnswerLocally, DropUnparsed
  <2>3. QED
    BY <2>2, <1>3
<1>10. QED
  BY <1>2, <1>4, <1>5, <1>6, <1>7, <1>8, <1>9
  DEF Next, TimerKills, DeliverKills, Killed, LoopExits, Crash

\* The parts of QInv hold at the start.
LEMMA InitQuiet == Init => Timed /\ Waiting /\ TimeoutIsOwn /\ Service!Init
  BY DEF Init, Timed, Waiting, TimeoutIsOwn, Service!Init

\* QInv holds always when all requests are forwarded and nothing overruns.
LEMMA QuietInvariant == ASSUME Quiet PROVE Spec => []QInv
<1>1. Init => QInv
  BY InitIInv, InitQuiet DEF QInv
<1>2. QInv /\ [Next]_vars => QInv'
  BY NextType, NextMeaning, NextQuiet DEF QInv, IInv, Meaning, Places, Delivery
<1>3. QED
  BY <1>1, <1>2, PTL DEF Spec

\* No client is answered twice: libevent never gets a freed request back.
THEOREM OneAnswer == ASSUME Quiet PROVE Spec => []AnsweredOnce
<1>1. QInv => AnsweredOnce
  <2>1. ASSUME QInv, NEW r \in Req PROVE Len(answers[r]) <= 1
    <3>1. conn[r] \in {"new", "open", "done", "lost"}
      BY <2>1 DEF QInv, IInv, TypeOK
    <3>2. answers[r] = <<>> \/ Len(answers[r]) = 1
      BY <2>1, <3>1 DEF QInv, IInv, Unseen, Waiting
    <3>3. CASE answers[r] = <<>>
      <4>1. Len(answers[r]) = 0
        BY <3>3
      <4>2. QED
        BY <4>1
    <3>4. CASE Len(answers[r]) = 1
      BY <3>4
    <3>5. QED
      BY <3>2, <3>3, <3>4
  <2>2. QED
    BY <2>1 DEF AnsweredOnce
<1>2. QED
  BY <1>1, QuietInvariant, PTL

\* A client is never timed out by the timer of another request.
THEOREM OwnTimeout == ASSUME Quiet PROVE Spec => []TimeoutIsOwn
<1>1. QInv => TimeoutIsOwn
  BY DEF QInv
<1>2. QED
  BY <1>1, QuietInvariant, PTL

\* No timer strays, so that ReplyToOwner and ResultComesFirst hold without their
\* exception: each result reaches its own client, and as its first answer.
THEOREM NothingStrays == ASSUME Quiet PROVE Spec => []~Strayed
<1>1. QInv => ~Strayed
  BY DEF QInv, TimeoutIsOwn, Strayed
<1>2. QED
  BY <1>1, QuietInvariant, PTL

\* Every step of the gateway is a step of the service or changes nothing its
\* clients see.
THEOREM ImplementsService == ASSUME Quiet PROVE Spec => Service!Safe
<1>1. Init => Service!Init
  BY InitQuiet
<1>2. QInv /\ [Next]_vars => [Service!Next]_(Service!vars)
  BY NextQuiet
<1>3. QED
  BY <1>1, <1>2, QuietInvariant, PTL DEF Spec, Service!Safe
=============================================================================
