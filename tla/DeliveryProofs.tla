---------------------------- MODULE DeliveryProofs ----------------------------
(***************************************************************************)
(* Proof that a transfer is delivered once, that remote operations are     *)
(* handed in the order they were sent; in the last three parts, that both  *)
(* ends of an association agree on who has the turn, that checkpoints stay *)
(* inside the window, and that what is indicated is the whole APDU.        *)
(*                                                                         *)
(* The end of an activity is followed from the MAP its sender writes to the*)
(* MAA it reads, and an interrupt or discard from the AI or AD to the AIA: *)
(* each is in one place at a time.                                         *)
(***************************************************************************)
EXTENDS TransferProofs

(* The activity of s was ended and the end is neither confirmed nor given  *)
(* up (an association that is lost leaves it open).                        *)
Open(s) == acb[s].pc = "gone" \/ (acb[s].pc = "end" /\ ~In(s, "TIMER"))

(* The end of the activity of s, on its way, and its confirmation.         *)
Ends(s)     == Tally(net[Peer(s)], "MAP") + Bit(acb[Peer(s)].ind = "endind")
Confirmed(s) == Tally(net[s], "MAA") + Bit(acb[s].ind = "endcnf")

(* The interrupt or discard, and its answer.                               *)
Halts(s) ==
    Tally(net[Peer(s)], "AI") + Tally(net[Peer(s)], "AD")
        + Bit(acb[Peer(s)].ind = "discind") + Tally(net[s], "AIA")

(* At most one end is under way, and only while it is waited for.          *)
EndChain(s) == Ends(s) + Confirmed(s) <= Bit(Open(s))

DiscChain(s) == Halts(s) <= Bit("AI" \in sb[s].flags \/ acb[s].pc = "gone")

(* Who waits for an end did not interrupt, and the end is not confirmed.   *)
Ending(s) ==
    acb[s].pc = "end" /\ ~In(s, "TIMER") =>
        /\ "AI" \notin sb[s].flags /\ acb[s].ind # "disccnf"
        /\ acb[s].ind # "endcnf" => "MAP" \in sb[s].flags

(* What returned OK and what is confirmed was taken; what was taken and    *)
(* what is to be taken returned OK or is being waited for.                 *)
OkBelow(s)    == log[s].ok + Confirmed(s) <= log[Peer(s)].taken
TakenBelow(s) == log[Peer(s)].taken + Ends(s) <= log[s].ok + Bit(Open(s))

Delivering(s) ==
    EndChain(s) /\ DiscChain(s) /\ Ending(s) /\ OkBelow(s) /\ TakenBelow(s)

DeliveryInv == \A s \in Side : Delivering(s)

(* The numbers these are about.                                            *)
Naturals(s) ==
    /\ \A k : Tally(net[s], k) \in Nat /\ Tally(net[Peer(s)], k) \in Nat
    /\ Ends(s) \in Nat /\ Confirmed(s) \in Nat /\ Halts(s) \in Nat
    /\ log[s].ok \in Nat /\ log[s].taken \in Nat
    /\ log[Peer(s)].ok \in Nat /\ log[Peer(s)].taken \in Nat

(* They are natural numbers, before a step and after it.                   *)
LEMMA Numbers ==
    ASSUME NEW s \in Side
    PROVE  (TransferInv => Naturals(s)) /\ (TransferInv' => Naturals(s)')
<1>1. s \in Side /\ Peer(s) \in Side
  BY PeerSide
<1>2. ASSUME TransferInv PROVE Naturals(s)
  <2>1. net[s] \in Seq(SpduSet) /\ net[Peer(s)] \in Seq(SpduSet)
    BY <1>1, <1>2 DEF TransferInv, TypeOK
  <2>2. \A k : Tally(net[s], k) \in Nat /\ Tally(net[Peer(s)], k) \in Nat
    BY <2>1, TallyTyped
  <2>3. Ends(s) \in Nat /\ Confirmed(s) \in Nat /\ Halts(s) \in Nat
    BY <2>2 DEF Ends, Confirmed, Halts, Bit
  <2> QED BY <1>1, <1>2, <2>2, <2>3 DEF TransferInv, RtTypeOK, Log, Naturals
<1>3. ASSUME TransferInv' PROVE Naturals(s)'
  <2>1. net'[s] \in Seq(SpduSet) /\ net'[Peer(s)] \in Seq(SpduSet)
    BY <1>1, <1>3 DEF TransferInv, TypeOK
  <2>2. \A k : Tally(net'[s], k) \in Nat /\ Tally(net'[Peer(s)], k) \in Nat
    BY <2>1, TallyTyped
  <2>3. Ends(s)' \in Nat /\ Confirmed(s)' \in Nat /\ Halts(s)' \in Nat
    BY <2>2 DEF Ends, Confirmed, Halts, Bit
  <2> QED BY <1>1, <1>3, <2>2, <2>3 DEF TransferInv, RtTypeOK, Log, Naturals
<1> QED BY <1>2, <1>3

(* What a step of s that writes at most one SPDU of code c and reads one of*)
(* code h ("none": no such SPDU) does to these numbers.                    *)
Deltas(s, c, h) ==
    /\ Ends(s)' <= Ends(s) + Bit(c = "MAP")
    /\ Confirmed(s)' = Confirmed(s) - Bit(h = "MAA")
                        - Bit(acb[s].ind = "endcnf") + Bit(acb'[s].ind = "endcnf")
    /\ Halts(s)' <= Halts(s) + Bit(c = "AI") + Bit(c = "AD") - Bit(h = "AIA")
    /\ Ends(Peer(s))' = Ends(Peer(s)) - Bit(h = "MAP")
                          - Bit(acb[s].ind = "endind") + Bit(acb'[s].ind = "endind")
    /\ Confirmed(Peer(s))' <= Confirmed(Peer(s)) + Bit(c = "MAA")
    /\ Halts(Peer(s))' <= Halts(Peer(s)) + Bit(c = "AIA") - Bit(h = "AI") - Bit(h = "AD")
                            - Bit(acb[s].ind = "discind") + Bit(acb'[s].ind = "discind")

(* ... and one that frees the block of s.                                  *)
Drops(s) ==
    /\ Ends(s)' <= Ends(s) /\ Confirmed(s)' = 0 /\ Halts(s)' <= Halts(s)
    /\ Ends(Peer(s))' = 0 /\ Confirmed(Peer(s))' <= Confirmed(Peer(s))
    /\ Halts(Peer(s))' <= Halts(Peer(s))

(* How the counts move with what a step puts on the queues and takes off.  *)
LEMMA CountsMove ==
    ASSUME TransferInv, NEW s \in Side, acb'[Peer(s)] = acb[Peer(s)]
    PROVE  /\ \A c : Puts(s, c) => Deltas(s, c, "none")
           /\ Untouched => Deltas(s, "none", "none")
           /\ Gets(s) => Deltas(s, "none", Head(net[s]).code)
           /\ Loses(s) /\ acb'[s].ind = "none" => Drops(s)
<1>1. s \in Side /\ Peer(s) \in Side /\ Peer(Peer(s)) = s
  BY DEF Peer, Side
<1>2. /\ \A k : Tally(net[s], k) \in Nat /\ Tally(net[Peer(s)], k) \in Nat
      /\ \A k : Tally(<<>>, k) = 0
  BY Numbers, TallyEmpty DEF Naturals
<1> DEFINE mine(k)   == Tally(net[s], k)
           theirs(k) == Tally(net[Peer(s)], k)
           mineN(k)   == Tally(net'[s], k)
           theirsN(k) == Tally(net'[Peer(s)], k)
<1>3. /\ Ends(s) = theirs("MAP") + Bit(acb[Peer(s)].ind = "endind")
      /\ Confirmed(s) = mine("MAA") + Bit(acb[s].ind = "endcnf")
      /\ Halts(s) = theirs("AI") + theirs("AD") + Bit(acb[Peer(s)].ind = "discind")
                      + mine("AIA")
      /\ Ends(Peer(s)) = mine("MAP") + Bit(acb[s].ind = "endind")
      /\ Confirmed(Peer(s)) = theirs("MAA") + Bit(acb[Peer(s)].ind = "endcnf")
      /\ Halts(Peer(s)) = mine("AI") + mine("AD") + Bit(acb[s].ind = "discind")
                            + theirs("AIA")
  BY <1>1 DEF Ends, Confirmed, Halts
<1>4. /\ Ends(s)' = theirsN("MAP") + Bit(acb[Peer(s)].ind = "endind")
      /\ Confirmed(s)' = mineN("MAA") + Bit(acb'[s].ind = "endcnf")
      /\ Halts(s)' = theirsN("AI") + theirsN("AD") + Bit(acb[Peer(s)].ind = "discind")
                       + mineN("AIA")
      /\ Ends(Peer(s))' = mineN("MAP") + Bit(acb'[s].ind = "endind")
      /\ Confirmed(Peer(s))' = theirsN("MAA") + Bit(acb[Peer(s)].ind = "endcnf")
      /\ Halts(Peer(s))' = mineN("AI") + mineN("AD") + Bit(acb'[s].ind = "discind")
                             + theirsN("AIA")
  BY <1>1 DEF Ends, Confirmed, Halts
<1> DEFINE codes == {"MAP", "MAA", "AI", "AD", "AIA"}
<1>5. codes \subseteq Watched /\ \A k : mine(k) \in Nat /\ theirs(k) \in Nat
  BY <1>2 DEF Watched
<1>6. \A P : Bit(P) \in Nat
  BY DEF Bit
<1>7. ASSUME NEW c, NEW h,
             \A k \in codes : /\ mineN(k) = mine(k) - Bit(h = k)
                              /\ theirsN(k) \in Nat /\ theirsN(k) <= theirs(k) + Bit(k = c)
      PROVE  Deltas(s, c, h)
  <2> HIDE DEF mine, theirs, mineN, theirsN
  <2>1. /\ mineN("MAP") = mine("MAP") - Bit(h = "MAP")
        /\ mineN("MAA") = mine("MAA") - Bit(h = "MAA")
        /\ mineN("AI") = mine("AI") - Bit(h = "AI")
        /\ mineN("AD") = mine("AD") - Bit(h = "AD")
        /\ mineN("AIA") = mine("AIA") - Bit(h = "AIA")
    BY <1>7
  <2>2. /\ theirsN("MAP") \in Nat /\ theirsN("MAP") <= theirs("MAP") + Bit(c = "MAP")
        /\ theirsN("MAA") \in Nat /\ theirsN("MAA") <= theirs("MAA") + Bit(c = "MAA")
        /\ theirsN("AI") \in Nat /\ theirsN("AI") <= theirs("AI") + Bit(c = "AI")
        /\ theirsN("AD") \in Nat /\ theirsN("AD") <= theirs("AD") + Bit(c = "AD")
        /\ theirsN("AIA") \in Nat /\ theirsN("AIA") <= theirs("AIA") + Bit(c = "AIA")
    BY <1>7 DEF Bit
  <2> QED BY <1>3, <1>4, <1>5, <2>1, <2>2 DEF Deltas, Bit
<1>8. ASSUME NEW c, Puts(s, c) PROVE Deltas(s, c, "none")
  <2>1. \A k \in codes : /\ mineN(k) = mine(k) - Bit("none" = k)
                         /\ theirsN(k) \in Nat /\ theirsN(k) <= theirs(k) + Bit(k = c)
    BY <1>5, <1>8 DEF Puts, Bit
  <2> QED BY <2>1, <1>7
<1>9. ASSUME Untouched PROVE Deltas(s, "none", "none")
  <2>1. \A k \in codes : /\ mineN(k) = mine(k) - Bit("none" = k)
                         /\ theirsN(k) \in Nat /\ theirsN(k) <= theirs(k) + Bit(k = "none")
    BY <1>5, <1>9 DEF Untouched, Bit
  <2> QED BY <2>1, <1>7
<1>10. ASSUME Gets(s) PROVE Deltas(s, "none", Head(net[s]).code)
  <2>1. \A k \in codes : /\ mineN(k) = mine(k) - Bit(Head(net[s]).code = k)
                         /\ theirsN(k) \in Nat /\ theirsN(k) <= theirs(k)
    BY <1>5, <1>10 DEF Gets
  <2>2. \A k \in codes : Bit(k = "none") = 0 /\ theirs(k) + 0 = theirs(k)
    BY <1>5 DEF Bit
  <2> QED BY <2>1, <2>2, <1>7
<1>11. ASSUME Loses(s), acb'[s].ind = "none" PROVE Drops(s)
  <2>1. \A k \in codes : /\ mineN(k) = 0
                         /\ theirsN(k) \in Nat /\ theirsN(k) <= theirs(k)
    BY <1>2, <1>5, <1>11 DEF Loses
  <2> HIDE DEF mine, theirs, mineN, theirsN
  <2>2. /\ mineN("MAP") = 0 /\ mineN("MAA") = 0 /\ mineN("AI") = 0 /\ mineN("AD") = 0
        /\ mineN("AIA") = 0
        /\ theirsN("MAP") \in Nat /\ theirsN("MAP") <= theirs("MAP")
        /\ theirsN("MAA") \in Nat /\ theirsN("MAA") <= theirs("MAA")
        /\ theirsN("AI") \in Nat /\ theirsN("AI") <= theirs("AI")
        /\ theirsN("AD") \in Nat /\ theirsN("AD") <= theirs("AD")
        /\ theirsN("AIA") \in Nat /\ theirsN("AIA") <= theirs("AIA")
    BY <2>1
  <2> QED BY <1>3, <1>4, <1>5, <1>11, <2>2 DEF Drops, Bit
<1> QED BY <1>8, <1>9, <1>10, <1>11

-----------------------------------------------------------------------------
(* A step of the side whose transfer it is.                                *)
LEMMA MineKept ==
    ASSUME TransferInv, TransferInv', DeliveryInv, NEW s \in Side, Event(s), Frame(s)
    PROVE  Delivering(s)'
<1>1. /\ Peer(s) \in Side /\ Peer(s) # s /\ Peer(Peer(s)) = s /\ s \in Side
      /\ acb'[Peer(s)] = acb[Peer(s)] /\ log'[Peer(s)] = log[Peer(s)]
  BY DEF Frame, Peer, Side
<1>2. /\ Ends(s) \in Nat /\ Confirmed(s) \in Nat /\ Halts(s) \in Nat
      /\ Ends(s)' \in Nat /\ Confirmed(s)' \in Nat /\ Halts(s)' \in Nat
      /\ log[s].ok \in Nat /\ log[s].taken \in Nat
      /\ log[Peer(s)].ok \in Nat /\ log[Peer(s)].taken \in Nat
  BY Numbers DEF Naturals
<1>3. /\ Placed(s) /\ Busy(s)
      /\ EndChain(s) /\ DiscChain(s) /\ Ending(s) /\ OkBelow(s) /\ TakenBelow(s)
  BY SideInv DEF DeliveryInv, Delivering
<1> USE <1>1, <1>2, <1>3 DEF Bit
<1>4. CASE LosesAssoc(s)
  <2>1. Loses(s) /\ acb'[s].ind = "none"
    BY <1>4 DEF LosesAssoc, Fields
  <2>2. Drops(s)
    BY <2>1, CountsMove
  <2> QED BY <1>4, <2>2 DEF LosesAssoc, Fields, Loses, Drops, Placed, Busy, Idle, In, Sends,
            Open, EndChain, DiscChain, Ending, OkBelow, TakenBelow, Delivering
<1>5. CASE StaysPut(s)
  <2>2. Deltas(s, "none", "none")
    BY <1>5, CountsMove DEF StaysPut
  <2> QED BY <1>5, <2>2 DEF StaysPut, Untouched, SameTurn, SameWindow, Counts, Deltas,
            Placed, Busy, Idle, In, Sends, Open, EndChain, DiscChain, Ending, OkBelow,
            TakenBelow, Delivering
<1>6. CASE AsksTurn(s)
  <2>1. PICK c \in {"DT", "PT"} : Puts(s, c)
    BY <1>6 DEF AsksTurn
  <2>2. Deltas(s, c, "none")
    BY <2>1, CountsMove
  <2> QED BY <1>6, <2>2 DEF AsksTurn, Counts, Deltas, Placed, Busy, Idle, In, Sends, Open,
            EndChain, DiscChain, Ending, OkBelow, TakenBelow, Delivering
<1>7. CASE GivesTurn(s)
  <2>2. Deltas(s, "GTC", "none")
    BY <1>7, CountsMove DEF GivesTurn
  <2> QED BY <1>7, <2>2 DEF GivesTurn, Steady, SameWindow, Fields, Counts, Deltas, Placed,
            Busy, Idle, In, Sends, Open, EndChain, DiscChain, Ending, OkBelow, TakenBelow,
            Delivering
<1>8. CASE StartsActivity(s)
  <2>2. Deltas(s, "AS", "none")
    BY <1>8, CountsMove DEF StartsActivity
  <2> QED BY <1>8, <2>2 DEF StartsActivity, Steady, Fields, Deltas, Placed, Busy, Idle, In,
            Sends, Open, EndChain, DiscChain, Ending, OkBelow, TakenBelow, Delivering
<1>9. CASE SendsPart(s)
  <2>1. PICK c \in {"DT", "PT"} : Puts(s, c)
    BY <1>9 DEF SendsPart
  <2>2. Deltas(s, c, "none")
    BY <2>1, CountsMove
  <2> QED BY <1>9, <2>2 DEF SendsPart, Counts, Deltas, Placed, Busy, Idle, In, Sends, Open,
            EndChain, DiscChain, Ending, OkBelow, TakenBelow, Delivering
<1>10. CASE SendsCheckpoint(s)
  <2>1. PICK c \in {"MIP"} : Puts(s, c)
    BY <1>10 DEF SendsCheckpoint
  <2>2. Deltas(s, c, "none")
    BY <2>1, CountsMove
  <2> QED BY <1>10, <2>2 DEF SendsCheckpoint, Steady, Counts, Deltas, Placed, Busy, Idle,
            In, Sends, Open, EndChain, DiscChain, Ending, OkBelow, TakenBelow, Delivering
<1>11. CASE EndsActivity(s)
  <2>2. Deltas(s, "MAP", "none")
    BY <1>11, CountsMove DEF EndsActivity
  <2> QED BY <1>11, <2>2 DEF EndsActivity, Steady, Fields, Counts, ssapPsig, Has, Deltas,
            Placed, Busy, Idle, In, Sends, Open, EndChain, DiscChain, Ending, OkBelow,
            TakenBelow, Delivering
<1>12. CASE InterruptsActivity(s)
  <2>1. PICK c \in {"AI", "AD"} : Puts(s, c)
    BY <1>12 DEF InterruptsActivity
  <2>2. Deltas(s, c, "none")
    BY <2>1, CountsMove
  <2> QED BY <1>12, <2>2 DEF InterruptsActivity, Steady, SameTurn, SameWindow, Fields,
            Counts, ssapXsig, Has, Deltas, Placed, Busy, Idle, In, Sends, Open, EndChain,
            DiscChain, Ending, OkBelow, TakenBelow, Delivering
<1>13. CASE ReportsProblem(s)
  <2>2. Deltas(s, "ED", "none")
    BY <1>13, CountsMove DEF ReportsProblem
  <2> QED BY <1>13, <2>2 DEF ReportsProblem, Steady, SameWindow, Fields, Counts, Deltas,
            Placed, Busy, Idle, In, Sends, Open, EndChain, DiscChain, Ending, OkBelow,
            TakenBelow, Delivering
<1>14. CASE NotesIndication(s)
  <2>2. Deltas(s, "none", "none")
    BY <1>14, CountsMove DEF NotesIndication
  <2> QED BY <1>14, <2>2 DEF NotesIndication, Untouched, SameTurn, Counts, Deltas, Placed,
            Busy, Idle, In, Sends, Open, EndChain, DiscChain, Ending, OkBelow, TakenBelow,
            Delivering
<1>15. CASE GainsTurn(s)
  <2>2. Deltas(s, "none", "none")
    BY <1>15, CountsMove DEF GainsTurn
  <2> QED BY <1>15, <2>2 DEF GainsTurn, Untouched, SameWindow, Counts, Deltas, Placed, Busy,
            Idle, In, Sends, Open, EndChain, DiscChain, Ending, OkBelow, TakenBelow,
            Delivering
<1>16. CASE ConfirmsCheckpoint(s)
  <2>1. PICK c \in {"MIA"} : Puts(s, c)
    BY <1>16 DEF ConfirmsCheckpoint
  <2>2. Deltas(s, c, "none")
    BY <2>1, CountsMove
  <2> QED BY <1>16, <2>2 DEF ConfirmsCheckpoint, Steady, SameWindow, Receives, Fields,
            Counts, Deltas, Placed, Busy, Idle, In, Sends, Open, EndChain, DiscChain,
            Ending, OkBelow, TakenBelow, Delivering
<1>17. CASE OpensActivity(s)
  <2>2. Deltas(s, "none", "none")
    BY <1>17, CountsMove DEF OpensActivity
  <2> QED BY <1>17, <2>2 DEF OpensActivity, Untouched, SameWindow, Fields, Counts, Deltas,
            Placed, Busy, Idle, In, Sends, Open, EndChain, DiscChain, Ending, OkBelow,
            TakenBelow, Delivering
<1>18. CASE AcceptsDiscard(s)
  <2>2. Deltas(s, "AIA", "none")
    BY <1>18, CountsMove DEF AcceptsDiscard
  <2> QED BY <1>18, <2>2 DEF AcceptsDiscard, Steady, SameWindow, Receives, Fields, Counts,
            ssapAsig, Has, Deltas, Placed, Busy, Idle, In, Sends, Open, EndChain, DiscChain,
            Ending, OkBelow, TakenBelow, Delivering
<1>19. CASE ClosesActivity(s)
  <2>2. Deltas(s, "none", "none")
    BY <1>19, CountsMove DEF ClosesActivity
  <2> QED BY <1>19, <2>2 DEF ClosesActivity, Untouched, SameWindow, Fields, Deltas, Placed,
            Busy, Idle, In, Sends, Open, EndChain, DiscChain, Ending, OkBelow, TakenBelow,
            Delivering
<1>20. CASE AcceptsEnd(s)
  <2>2. Deltas(s, "MAA", "none")
    BY <1>20, CountsMove DEF AcceptsEnd
  <2> QED BY <1>20, <2>2 DEF AcceptsEnd, Steady, SameWindow, Receives, ActivityAfterMajor,
            Fields, ssapPsig, Has, Deltas, Placed, Busy, Idle, In, Sends, Open, EndChain,
            DiscChain, Ending, OkBelow, TakenBelow, Delivering
<1>21. CASE AsksRelease(s)
  <2>2. Deltas(s, "FN", "none")
    BY <1>21, CountsMove DEF AsksRelease
  <2> QED BY <1>21, <2>2 DEF AsksRelease, SameWindow, Fields, Counts, Deltas, Placed, Busy,
            Idle, In, Sends, Open, EndChain, DiscChain, Ending, OkBelow, TakenBelow,
            Delivering
<1>22. CASE LeavesRelease(s)
  <2>2. Deltas(s, "DN", "none")
    BY <1>22, CountsMove DEF LeavesRelease
  <2> QED BY <1>22, <2>2 DEF LeavesRelease, Fields, Counts, Deltas, Placed, Busy, Idle, In,
            Sends, Open, EndChain, DiscChain, Ending, OkBelow, TakenBelow, Delivering
<1>23. CASE ReadsNext(s)
  <2>2. Deltas(s, "none", Head(net[s]).code)
    BY <1>23, CountsMove DEF ReadsNext
  <2> QED BY <1>23, <2>2 DEF ReadsNext, Effect, SameWindow, Counts, IndicationOf, Deltas,
            Placed, Busy, Idle, In, Sends, Open, EndChain, DiscChain, Ending, OkBelow,
            TakenBelow, Delivering
<1> QED BY <1>4, <1>5, <1>6, <1>7, <1>8, <1>9, <1>10, <1>11, <1>12, <1>13, <1>14, <1>15,
           <1>16, <1>17, <1>18, <1>19, <1>20, <1>21, <1>22, <1>23
        DEF Event

(* A step of the side that receives it.                                    *)
LEMMA TheirsKept ==
    ASSUME TransferInv, TransferInv', DeliveryInv, NEW s \in Side, Event(s), Frame(s)
    PROVE  Delivering(Peer(s))'
<1>1. /\ Peer(s) \in Side /\ Peer(s) # s /\ Peer(Peer(s)) = s /\ s \in Side
      /\ acb'[Peer(s)] = acb[Peer(s)] /\ log'[Peer(s)] = log[Peer(s)]
  BY DEF Frame, Peer, Side
<1>2. /\ Ends(Peer(s)) \in Nat /\ Confirmed(Peer(s)) \in Nat /\ Halts(Peer(s)) \in Nat
      /\ Ends(Peer(s))' \in Nat /\ Confirmed(Peer(s))' \in Nat /\ Halts(Peer(s))' \in Nat
      /\ log[s].ok \in Nat /\ log[s].taken \in Nat
      /\ log[Peer(s)].ok \in Nat /\ log[Peer(s)].taken \in Nat
  BY <1>1, Numbers DEF Naturals
<1>3. /\ Placed(s) /\ Busy(s)
      /\ EndChain(Peer(s)) /\ DiscChain(Peer(s)) /\ Ending(Peer(s))
      /\ OkBelow(Peer(s)) /\ TakenBelow(Peer(s))
  BY <1>1, SideInv DEF DeliveryInv, Delivering
<1>4. sb'[Peer(s)] = sb[Peer(s)]
  BY OtherSide
<1> USE <1>1, <1>2, <1>3, <1>4 DEF Bit
<1>5. CASE LosesAssoc(s)
  <2>1. Loses(s) /\ acb'[s].ind = "none"
    BY <1>5 DEF LosesAssoc, Fields
  <2>2. Drops(s)
    BY <2>1, CountsMove
  <2> QED BY <1>5, <2>2 DEF LosesAssoc, Fields, Loses, Drops, Placed, Busy, Idle, In, Sends,
            Open, EndChain, DiscChain, Ending, OkBelow, TakenBelow, Delivering
<1>6. CASE StaysPut(s)
  <2>2. Deltas(s, "none", "none")
    BY <1>6, CountsMove DEF StaysPut
  <2> QED BY <1>6, <2>2 DEF StaysPut, Untouched, SameTurn, SameWindow, Counts, Deltas,
            Placed, Busy, Idle, In, Sends, Open, EndChain, DiscChain, Ending, OkBelow,
            TakenBelow, Delivering
<1>7. CASE AsksTurn(s)
  <2>1. PICK c \in {"DT", "PT"} : Puts(s, c)
    BY <1>7 DEF AsksTurn
  <2>2. Deltas(s, c, "none")
    BY <2>1, CountsMove
  <2> QED BY <1>7, <2>2 DEF AsksTurn, Counts, Deltas, Placed, Busy, Idle, In, Sends, Open,
            EndChain, DiscChain, Ending, OkBelow, TakenBelow, Delivering
<1>8. CASE GivesTurn(s)
  <2>2. Deltas(s, "GTC", "none")
    BY <1>8, CountsMove DEF GivesTurn
  <2> QED BY <1>8, <2>2 DEF GivesTurn, Steady, SameWindow, Fields, Counts, Deltas, Placed,
            Busy, Idle, In, Sends, Open, EndChain, DiscChain, Ending, OkBelow, TakenBelow,
            Delivering
<1>9. CASE StartsActivity(s)
  <2>2. Deltas(s, "AS", "none")
    BY <1>9, CountsMove DEF StartsActivity
  <2> QED BY <1>9, <2>2 DEF StartsActivity, Steady, Fields, Deltas, Placed, Busy, Idle, In,
            Sends, Open, EndChain, DiscChain, Ending, OkBelow, TakenBelow, Delivering
<1>10. CASE SendsPart(s)
  <2>1. PICK c \in {"DT", "PT"} : Puts(s, c)
    BY <1>10 DEF SendsPart
  <2>2. Deltas(s, c, "none")
    BY <2>1, CountsMove
  <2>3. acb[s].ind = "none" /\ acb'[s].ind = "none"
    BY <1>10 DEF SendsPart, Placed
  <2> QED BY <1>10, <2>2, <2>3 DEF SendsPart, Counts, Deltas, Placed, Busy, Idle, In, Sends,
            Open, EndChain, DiscChain, Ending, OkBelow, TakenBelow, Delivering
<1>11. CASE SendsCheckpoint(s)
  <2>1. Deltas(s, "MIP", "none")
    BY <1>11, CountsMove DEF SendsCheckpoint
  <2>2. acb[s].ind = "none" /\ acb'[s].ind = "none"
    BY <1>11 DEF SendsCheckpoint, Placed
  <2> QED BY <1>11, <2>1, <2>2 DEF SendsCheckpoint, Steady, Counts, Deltas, Placed, Busy,
            Idle, In, Sends, Open, EndChain, DiscChain, Ending, OkBelow, TakenBelow,
            Delivering
<1>12. CASE EndsActivity(s)
  <2>2. Deltas(s, "MAP", "none")
    BY <1>12, CountsMove DEF EndsActivity
  <2> QED BY <1>12, <2>2 DEF EndsActivity, Steady, Fields, Counts, ssapPsig, Has, Deltas,
            Placed, Busy, Idle, In, Sends, Open, EndChain, DiscChain, Ending, OkBelow,
            TakenBelow, Delivering
<1>13. CASE InterruptsActivity(s)
  <2>1. PICK c \in {"AI", "AD"} : Puts(s, c)
    BY <1>13 DEF InterruptsActivity
  <2>2. Deltas(s, c, "none")
    BY <2>1, CountsMove
  <2>3. acb'[s].ind = "none" /\ log'[s].ok = log[s].ok /\ log'[s].taken = log[s].taken
    BY <1>13 DEF InterruptsActivity, Counts
  <2> QED BY <2>1, <2>2, <2>3 DEF Deltas, In, Open, EndChain, DiscChain, Ending, OkBelow,
            TakenBelow, Delivering
<1>14. CASE ReportsProblem(s)
  <2>2. Deltas(s, "ED", "none")
    BY <1>14, CountsMove DEF ReportsProblem
  <2> QED BY <1>14, <2>2 DEF ReportsProblem, Steady, SameWindow, Fields, Counts, Deltas,
            Placed, Busy, Idle, In, Sends, Open, EndChain, DiscChain, Ending, OkBelow,
            TakenBelow, Delivering
<1>15. CASE NotesIndication(s)
  <2>2. Deltas(s, "none", "none")
    BY <1>15, CountsMove DEF NotesIndication
  <2> QED BY <1>15, <2>2 DEF NotesIndication, Untouched, SameTurn, Counts, Deltas, Placed,
            Busy, Idle, In, Sends, Open, EndChain, DiscChain, Ending, OkBelow, TakenBelow,
            Delivering
<1>16. CASE GainsTurn(s)
  <2>2. Deltas(s, "none", "none")
    BY <1>16, CountsMove DEF GainsTurn
  <2> QED BY <1>16, <2>2 DEF GainsTurn, Untouched, SameWindow, Counts, Deltas, Placed, Busy,
            Idle, In, Sends, Open, EndChain, DiscChain, Ending, OkBelow, TakenBelow,
            Delivering
<1>17. CASE ConfirmsCheckpoint(s)
  <2>1. PICK c \in {"MIA"} : Puts(s, c)
    BY <1>17 DEF ConfirmsCheckpoint
  <2>2. Deltas(s, c, "none")
    BY <2>1, CountsMove
  <2> QED BY <1>17, <2>2 DEF ConfirmsCheckpoint, Steady, SameWindow, Receives, Fields,
            Counts, Deltas, Placed, Busy, Idle, In, Sends, Open, EndChain, DiscChain,
            Ending, OkBelow, TakenBelow, Delivering
<1>18. CASE OpensActivity(s)
  <2>2. Deltas(s, "none", "none")
    BY <1>18, CountsMove DEF OpensActivity
  <2> QED BY <1>18, <2>2 DEF OpensActivity, Untouched, SameWindow, Fields, Counts, Deltas,
            Placed, Busy, Idle, In, Sends, Open, EndChain, DiscChain, Ending, OkBelow,
            TakenBelow, Delivering
<1>19. CASE AcceptsDiscard(s)
  <2>2. Deltas(s, "AIA", "none")
    BY <1>19, CountsMove DEF AcceptsDiscard
  <2> QED BY <1>19, <2>2 DEF AcceptsDiscard, Steady, SameWindow, Receives, Fields, Counts,
            ssapAsig, Has, Deltas, Placed, Busy, Idle, In, Sends, Open, EndChain, DiscChain,
            Ending, OkBelow, TakenBelow, Delivering
<1>20. CASE ClosesActivity(s)
  <2>2. Deltas(s, "none", "none")
    BY <1>20, CountsMove DEF ClosesActivity
  <2> QED BY <1>20, <2>2 DEF ClosesActivity, Untouched, SameWindow, Fields, Deltas, Placed,
            Busy, Idle, In, Sends, Open, EndChain, DiscChain, Ending, OkBelow, TakenBelow,
            Delivering
<1>21. CASE AcceptsEnd(s)
  <2>2. Deltas(s, "MAA", "none")
    BY <1>21, CountsMove DEF AcceptsEnd
  <2> QED BY <1>21, <2>2 DEF AcceptsEnd, Steady, SameWindow, Receives, ActivityAfterMajor,
            Fields, ssapPsig, Has, Deltas, Placed, Busy, Idle, In, Sends, Open, EndChain,
            DiscChain, Ending, OkBelow, TakenBelow, Delivering
<1>22. CASE AsksRelease(s)
  <2>2. Deltas(s, "FN", "none")
    BY <1>22, CountsMove DEF AsksRelease
  <2> QED BY <1>22, <2>2 DEF AsksRelease, SameWindow, Fields, Counts, Deltas, Placed, Busy,
            Idle, In, Sends, Open, EndChain, DiscChain, Ending, OkBelow, TakenBelow,
            Delivering
<1>23. CASE LeavesRelease(s)
  <2>2. Deltas(s, "DN", "none")
    BY <1>23, CountsMove DEF LeavesRelease
  <2> QED BY <1>23, <2>2 DEF LeavesRelease, Fields, Counts, Deltas, Placed, Busy, Idle, In,
            Sends, Open, EndChain, DiscChain, Ending, OkBelow, TakenBelow, Delivering
<1>24. CASE ReadsNext(s)
  <2>2. Deltas(s, "none", Head(net[s]).code)
    BY <1>24, CountsMove DEF ReadsNext
  <2>3. /\ acb'[s].ind = "endind" => Head(net[s]).code = "MAP"
        /\ acb'[s].ind = "discind" => Head(net[s]).code \in {"AI", "AD"}
        /\ acb[s].ind = "none"
    BY <1>24 DEF ReadsNext, Effect, IndicationOf
  <2> QED BY <1>24, <2>2, <2>3 DEF ReadsNext, Counts, Deltas, Placed, Busy, Idle, In, Sends,
            Open, EndChain, DiscChain, Ending, OkBelow, TakenBelow, Delivering
<1> QED BY <1>5, <1>6, <1>7, <1>8, <1>9, <1>10, <1>11, <1>12, <1>13, <1>14, <1>15, <1>16,
           <1>17, <1>18, <1>19, <1>20, <1>21, <1>22, <1>23, <1>24
        DEF Event

(* Both sides together: the invariant is inductive.                        *)
LEMMA DeliveryKept ==
    ASSUME TransferInv, DeliveryInv, [RoNext]_rovars
    PROVE  DeliveryInv'
<1>1. TransferInv'
  BY TransferKept
<1>2. CASE UNCHANGED rovars
  BY <1>2 DEF rovars, DeliveryInv, Delivering, EndChain, DiscChain, Ending, OkBelow,
              TakenBelow, Ends, Confirmed, Halts, Open, In
<1>3. CASE RoNext
  <2>1. PICK s \in Side : RoStep(s)
    BY <1>3 DEF RoNext, RoStep
  <2>2. Event(s) /\ Frame(s)
    BY <2>1, EveryStep
  <2>3. Delivering(s)' /\ Delivering(Peer(s))'
    BY <1>1, <2>2, MineKept, TheirsKept
  <2>4. \A t \in Side : t = s \/ t = Peer(s)
    BY DEF Peer, Side
  <2> QED BY <2>3, <2>4 DEF DeliveryInv
<1> QED BY <1>2, <1>3

(* Nothing is under way at first.                                          *)
LEMMA DeliveryInit == RoInit => DeliveryInv
<1> SUFFICES ASSUME RoInit, NEW s \in Side PROVE Delivering(s)
  BY DEF DeliveryInv
<1>1. \A t \in Side : /\ net[t] = <<>> /\ log[t].ok = 0 /\ log[t].taken = 0
                      /\ acb[t].pc = "user" /\ acb[t].ind = "none"
  BY DEF RoInit, RtInit, NewAcb
<1>2. Peer(s) \in Side /\ \A k : Tally(<<>>, k) = 0
  BY TallyEmpty, PeerSide
<1>3. Ends(s) = 0 /\ Confirmed(s) = 0 /\ Halts(s) = 0
  BY <1>1, <1>2 DEF Ends, Confirmed, Halts, Bit
<1> QED BY <1>1, <1>2, <1>3
        DEF Delivering, EndChain, DiscChain, Ending, OkBelow, TakenBelow, Open, Bit

(* A transfer that returned OK was indicated to the peer, and no transfer  *)
(* is indicated twice or without being made: rtsap's RT-TRANSFER.REQUEST   *)
(* and RT-TRANSFER.INDICATION never disagree by more than the one transfer *)
(* whose sender still waits, or has lost the association.                  *)
THEOREM TransferAlwaysDeliveredOnce == RoSpec => []DeliveredOnce
<1>1. TransferInv /\ DeliveryInv => DeliveredOnce
  <2> SUFFICES ASSUME TransferInv, DeliveryInv, NEW s \in Side
               PROVE  /\ log[s].ok <= log[Peer(s)].taken
                      /\ log[Peer(s)].taken <= log[s].ok + Bit(acb[s].pc \in {"end", "gone"})
    BY DEF DeliveredOnce
  <2>1. Naturals(s) /\ OkBelow(s) /\ TakenBelow(s)
    BY Numbers DEF DeliveryInv, Delivering
  <2> QED BY <2>1 DEF Naturals, OkBelow, TakenBelow, Open, Bit
<1>2. TransferInv /\ DeliveryInv /\ [RoNext]_rovars => TransferInv' /\ DeliveryInv'
  BY TransferKept, DeliveryKept
<1>3. RoInit => TransferInv /\ DeliveryInv
  BY TransferInit, DeliveryInit
<1> QED BY <1>1, <1>2, <1>3, PTL DEF RoSpec

-----------------------------------------------------------------------------
(* The account of a side: under remote operations it starts a transfer     *)
(* only when the one before has returned, so the transfer whose end is     *)
(* under way is the last it started.                                       *)

InTransfer(s) == acb[s].pc \in {"data", "ckpoint", "window", "done", "end"}

Account(s) ==
    /\ ~In(s, "TIMER")
    /\ Alive(s) => log[s].started = log[s].ok + Bit(InTransfer(s))
    /\ Ends(s) >= 1 => log[s].started = log[Peer(s)].taken + 1
    /\ log[Peer(s)].taken <= log[s].started

(* The ends of activities on their way become more only when one is        *)
(* written, and fewer when one is accepted.                                *)
LEMMA EndsMove ==
    ASSUME TransferInv, TransferInv', NEW s \in Side, Event(s), Frame(s)
    PROVE  /\ Ends(s)' <= Ends(s) \/ (acb[s].pc = "done" /\ acb'[s].pc = "end")
           /\ Ends(s)' <= Ends(s) + 1
           /\ Ends(Peer(s))' <= Ends(Peer(s))
           /\ AcceptsEnd(s) => Ends(Peer(s))' = Ends(Peer(s)) - 1 /\ Ends(Peer(s)) >= 1
<1>1. /\ Peer(s) \in Side /\ Peer(s) # s /\ Peer(Peer(s)) = s /\ s \in Side
      /\ acb'[Peer(s)] = acb[Peer(s)]
  BY DEF Frame, Peer, Side
<1>2. /\ Ends(s) \in Nat /\ Ends(s)' \in Nat
      /\ Ends(Peer(s)) \in Nat /\ Ends(Peer(s))' \in Nat /\ Placed(s)
  BY <1>1, Numbers, SideInv DEF Naturals
<1>3. ASSUME AcceptsEnd(s) PROVE Ends(Peer(s))' = Ends(Peer(s)) - 1 /\ Ends(Peer(s)) >= 1
  <2>1. Tally(net[s], "MAP") \in Nat
    BY <1>1, Numbers DEF Naturals
  <2>2. acb[s].ind = "endind" /\ acb'[s].ind = "none" /\ Puts(s, "MAA")
    BY <1>3 DEF AcceptsEnd, Fields
  <2>3. Deltas(s, "MAA", "none")
    BY <1>1, <2>2, CountsMove
  <2>4. Ends(Peer(s)) >= 1
    BY <1>1, <2>1, <2>2 DEF Ends, Bit
  <2> QED BY <1>2, <2>2, <2>3, <2>4 DEF Deltas, Bit
<1> SUFFICES /\ Ends(s)' <= Ends(s) \/ (acb[s].pc = "done" /\ acb'[s].pc = "end")
             /\ Ends(s)' <= Ends(s) + 1 /\ Ends(Peer(s))' <= Ends(Peer(s))
  BY <1>3
<1> USE <1>1, <1>2 DEF Bit
<1>4. CASE LosesAssoc(s)
  <2>1. Loses(s) /\ acb'[s].ind = "none"
    BY <1>4 DEF LosesAssoc, Fields
  <2>2. Drops(s)
    BY <2>1, CountsMove
  <2> QED BY <1>4, <2>2 DEF LosesAssoc, Fields, Drops
<1>5. CASE StaysPut(s)
  <2>2. Deltas(s, "none", "none")
    BY <1>5, CountsMove DEF StaysPut
  <2>3. acb'[s].ind = "endind" => acb[s].ind = "endind"
    BY <1>5 DEF StaysPut, Placed, Idle
  <2> QED BY <2>2, <2>3 DEF Deltas
<1>6. CASE AsksTurn(s)
  <2>1. PICK c \in {"DT", "PT"} : Puts(s, c)
    BY <1>6 DEF AsksTurn
  <2>2. Deltas(s, c, "none")
    BY <2>1, CountsMove
  <2>3. acb'[s].ind = "endind" => acb[s].ind = "endind"
    BY <1>6 DEF AsksTurn, Placed, Idle
  <2> QED BY <2>2, <2>3 DEF Deltas
<1>7. CASE GivesTurn(s)
  <2>2. Deltas(s, "GTC", "none")
    BY <1>7, CountsMove DEF GivesTurn
  <2>3. acb'[s].ind = "endind" => acb[s].ind = "endind"
    BY <1>7 DEF GivesTurn, Fields, Placed, Idle
  <2> QED BY <2>2, <2>3 DEF Deltas
<1>8. CASE StartsActivity(s)
  <2>2. Deltas(s, "AS", "none")
    BY <1>8, CountsMove DEF StartsActivity
  <2>3. acb'[s].ind = "endind" => acb[s].ind = "endind"
    BY <1>8 DEF StartsActivity, Fields, Placed, Idle
  <2> QED BY <2>2, <2>3 DEF Deltas
<1>9. CASE SendsPart(s)
  <2>1. PICK c \in {"DT", "PT"} : Puts(s, c)
    BY <1>9 DEF SendsPart
  <2>2. Deltas(s, c, "none")
    BY <2>1, CountsMove
  <2>3. acb'[s].ind = "endind" => acb[s].ind = "endind"
    BY <1>9 DEF SendsPart, Placed, Idle
  <2> QED BY <2>2, <2>3 DEF Deltas
<1>10. CASE SendsCheckpoint(s)
  <2>1. PICK c \in {"MIP"} : Puts(s, c)
    BY <1>10 DEF SendsCheckpoint
  <2>2. Deltas(s, c, "none")
    BY <2>1, CountsMove
  <2>3. acb'[s].ind = "endind" => acb[s].ind = "endind"
    BY <1>10 DEF SendsCheckpoint, Placed, Idle
  <2> QED BY <2>2, <2>3 DEF Deltas
<1>11. CASE EndsActivity(s)
  <2>2. Deltas(s, "MAP", "none")
    BY <1>11, CountsMove DEF EndsActivity
  <2>3. acb'[s].ind = "endind" => acb[s].ind = "endind"
    BY <1>11 DEF EndsActivity, Fields, Placed, Idle
  <2> QED BY <1>11, <2>2, <2>3 DEF Deltas, EndsActivity, Fields
<1>12. CASE InterruptsActivity(s)
  <2>1. PICK c \in {"AI", "AD"} : Puts(s, c)
    BY <1>12 DEF InterruptsActivity
  <2>2. Deltas(s, c, "none")
    BY <2>1, CountsMove
  <2>3. acb'[s].ind = "endind" => acb[s].ind = "endind"
    BY <1>12 DEF InterruptsActivity, Fields, Placed, Idle
  <2> QED BY <2>2, <2>3 DEF Deltas
<1>13. CASE ReportsProblem(s)
  <2>2. Deltas(s, "ED", "none")
    BY <1>13, CountsMove DEF ReportsProblem
  <2>3. acb'[s].ind = "endind" => acb[s].ind = "endind"
    BY <1>13 DEF ReportsProblem, Fields, Placed, Idle
  <2> QED BY <2>2, <2>3 DEF Deltas
<1>14. CASE NotesIndication(s)
  <2>2. Deltas(s, "none", "none")
    BY <1>14, CountsMove DEF NotesIndication
  <2>3. acb'[s].ind = "endind" => acb[s].ind = "endind"
    BY <1>14 DEF NotesIndication, Placed, Idle
  <2> QED BY <2>2, <2>3 DEF Deltas
<1>15. CASE GainsTurn(s)
  <2>2. Deltas(s, "none", "none")
    BY <1>15, CountsMove DEF GainsTurn
  <2>3. acb'[s].ind = "endind" => acb[s].ind = "endind"
    BY <1>15 DEF GainsTurn, Placed, Idle
  <2> QED BY <2>2, <2>3 DEF Deltas
<1>16. CASE ConfirmsCheckpoint(s)
  <2>1. PICK c \in {"MIA"} : Puts(s, c)
    BY <1>16 DEF ConfirmsCheckpoint
  <2>2. Deltas(s, c, "none")
    BY <2>1, CountsMove
  <2>3. acb'[s].ind = "endind" => acb[s].ind = "endind"
    BY <1>16 DEF ConfirmsCheckpoint, Fields, Placed, Idle
  <2> QED BY <2>2, <2>3 DEF Deltas
<1>17. CASE OpensActivity(s)
  <2>2. Deltas(s, "none", "none")
    BY <1>17, CountsMove DEF OpensActivity
  <2>3. acb'[s].ind = "endind" => acb[s].ind = "endind"
    BY <1>17 DEF OpensActivity, Fields, Placed, Idle
  <2> QED BY <2>2, <2>3 DEF Deltas
<1>18. CASE AcceptsDiscard(s)
  <2>2. Deltas(s, "AIA", "none")
    BY <1>18, CountsMove DEF AcceptsDiscard
  <2>3. acb'[s].ind = "endind" => acb[s].ind = "endind"
    BY <1>18 DEF AcceptsDiscard, Fields, Placed, Idle
  <2> QED BY <2>2, <2>3 DEF Deltas
<1>19. CASE ClosesActivity(s)
  <2>2. Deltas(s, "none", "none")
    BY <1>19, CountsMove DEF ClosesActivity
  <2>3. acb'[s].ind = "endind" => acb[s].ind = "endind"
    BY <1>19 DEF ClosesActivity, Fields, Placed, Idle
  <2> QED BY <2>2, <2>3 DEF Deltas
<1>20. CASE AcceptsEnd(s)
  <2>2. Deltas(s, "MAA", "none")
    BY <1>20, CountsMove DEF AcceptsEnd
  <2>3. acb'[s].ind = "endind" => acb[s].ind = "endind"
    BY <1>20 DEF AcceptsEnd, Fields, Placed, Idle
  <2> QED BY <2>2, <2>3 DEF Deltas
<1>21. CASE AsksRelease(s)
  <2>2. Deltas(s, "FN", "none")
    BY <1>21, CountsMove DEF AsksRelease
  <2>3. acb'[s].ind = "endind" => acb[s].ind = "endind"
    BY <1>21 DEF AsksRelease, Fields, Placed, Idle
  <2> QED BY <2>2, <2>3 DEF Deltas
<1>22. CASE LeavesRelease(s)
  <2>2. Deltas(s, "DN", "none")
    BY <1>22, CountsMove DEF LeavesRelease
  <2>3. acb'[s].ind = "endind" => acb[s].ind = "endind"
    BY <1>22 DEF LeavesRelease, Fields, Placed, Idle
  <2> QED BY <2>2, <2>3 DEF Deltas
<1>23. CASE ReadsNext(s)
  <2>2. Deltas(s, "none", Head(net[s]).code)
    BY <1>23, CountsMove DEF ReadsNext
  <2>3. /\ acb'[s].ind = "endind" => Head(net[s]).code = "MAP"
        /\ acb[s].ind = "none"
    BY <1>23 DEF ReadsNext, Effect, IndicationOf
  <2> QED BY <2>2, <2>3 DEF Deltas
<1> QED BY <1>4, <1>5, <1>6, <1>7, <1>8, <1>9, <1>10, <1>11, <1>12, <1>13, <1>14, <1>15,
           <1>16, <1>17, <1>18, <1>19, <1>20, <1>21, <1>22, <1>23
        DEF Event

(* A step of the side whose account it is.                                 *)
LEMMA AccountMine ==
    ASSUME TransferInv, TransferInv', DeliveryInv, NEW s \in Side, Event(s), Frame(s),
           Account(s), ~In(s, "TIMER")'
    PROVE  Account(s)'
<1>1. /\ Peer(s) \in Side /\ log'[Peer(s)] = log[Peer(s)]
      /\ log[s].ok \in Nat /\ log[s].started \in Nat /\ log[Peer(s)].taken \in Nat
      /\ Ends(s) \in Nat /\ Ends(s)' \in Nat /\ Confirmed(s) \in Nat
  BY PeerSide, Numbers, LogTyped DEF Frame, Naturals, TransferInv
<1>2. /\ Placed(s) /\ Busy(s)
      /\ Ends(s)' <= Ends(s) \/ (acb[s].pc = "done" /\ acb'[s].pc = "end")
      /\ log[s].ok <= log[Peer(s)].taken /\ log[Peer(s)].taken + Ends(s) <= log[s].ok + Bit(Open(s))
      /\ Ends(s) <= Bit(Open(s))
  BY <1>1, SideInv, EndsMove
     DEF DeliveryInv, Delivering, OkBelow, TakenBelow, EndChain, Bit
<1> USE <1>1, <1>2 DEF Bit
<1>3. CASE LosesAssoc(s)
  BY <1>3 DEF LosesAssoc, Fields, Placed, Busy, Idle, In, Open, Alive, InTransfer, Account
<1>4. CASE StaysPut(s)
  BY <1>4 DEF StaysPut, Untouched, SameTurn, SameWindow, Counts, Placed, Busy, Idle, In,
     Open, Alive, InTransfer, Account
<1>5. CASE AsksTurn(s)
  BY <1>5 DEF AsksTurn, Counts, Placed, Busy, Idle, In, Open, Alive, InTransfer, Account
<1>6. CASE GivesTurn(s)
  BY <1>6 DEF GivesTurn, Steady, SameWindow, Fields, Counts, Placed, Busy, Idle, In, Open,
     Alive, InTransfer, Account
<1>7. CASE StartsActivity(s)
  BY <1>7 DEF StartsActivity, Steady, Fields, Placed, Busy, Idle, In, Open, Alive,
     InTransfer, Account
<1>8. CASE SendsPart(s)
  BY <1>8 DEF SendsPart, Counts, Placed, Busy, Idle, In, Open, Alive, InTransfer, Account
<1>9. CASE SendsCheckpoint(s)
  BY <1>9 DEF SendsCheckpoint, Steady, Counts, Placed, Busy, Idle, In, Open, Alive,
     InTransfer, Account
<1>10. CASE EndsActivity(s)
  BY <1>10 DEF EndsActivity, Steady, Fields, Counts, Placed, Busy, Idle, In, Open, Alive,
     InTransfer, Account
<1>11. CASE InterruptsActivity(s)
  BY <1>11 DEF InterruptsActivity, Steady, SameTurn, SameWindow, Fields, Counts, Placed,
     Busy, Idle, In, Open, Alive, InTransfer, Account
<1>12. CASE ReportsProblem(s)
  BY <1>12 DEF ReportsProblem, Steady, SameWindow, Fields, Counts, Placed, Busy, Idle, In,
     Open, Alive, InTransfer, Account
<1>13. CASE NotesIndication(s)
  BY <1>13 DEF NotesIndication, Untouched, SameTurn, Counts, Placed, Busy, Idle, In, Open,
     Alive, InTransfer, Account
<1>14. CASE GainsTurn(s)
  BY <1>14 DEF GainsTurn, Untouched, SameWindow, Counts, Placed, Busy, Idle, In, Open,
     Alive, InTransfer, Account
<1>15. CASE ConfirmsCheckpoint(s)
  BY <1>15 DEF ConfirmsCheckpoint, Steady, SameWindow, Receives, Fields, Counts, Placed,
     Busy, Idle, In, Open, Alive, InTransfer, Account
<1>16. CASE OpensActivity(s)
  BY <1>16 DEF OpensActivity, Untouched, SameWindow, Fields, Counts, Placed, Busy, Idle, In,
     Open, Alive, InTransfer, Account
<1>17. CASE AcceptsDiscard(s)
  BY <1>17 DEF AcceptsDiscard, Steady, SameWindow, Receives, Fields, Counts, Placed, Busy,
     Idle, In, Open, Alive, InTransfer, Account
<1>18. CASE ClosesActivity(s)
  BY <1>18 DEF ClosesActivity, Untouched, SameWindow, Fields, Placed, Busy, Idle, In, Open,
     Alive, InTransfer, Account
<1>19. CASE AcceptsEnd(s)
  BY <1>19 DEF AcceptsEnd, Steady, SameWindow, Receives, ActivityAfterMajor, Fields, Placed,
     Busy, Idle, In, Open, Alive, InTransfer, Account
<1>20. CASE AsksRelease(s)
  BY <1>20 DEF AsksRelease, SameWindow, Fields, Counts, Placed, Busy, Idle, In, Open, Alive,
     InTransfer, Account
<1>21. CASE LeavesRelease(s)
  BY <1>21 DEF LeavesRelease, Fields, Counts, Placed, Busy, Idle, In, Open, Alive,
     InTransfer, Account
<1>22. CASE ReadsNext(s)
  BY <1>22 DEF ReadsNext, Effect, SameWindow, Counts, Placed, Busy, Idle, In, Open, Alive,
     InTransfer, Account
<1> QED BY <1>3, <1>4, <1>5, <1>6, <1>7, <1>8, <1>9, <1>10, <1>11, <1>12, <1>13, <1>14,
           <1>15, <1>16, <1>17, <1>18, <1>19, <1>20, <1>21, <1>22
        DEF Event

(* A step of the other side.                                               *)
LEMMA AccountTheirs ==
    ASSUME TransferInv, TransferInv', DeliveryInv, NEW s \in Side, Event(s), Frame(s),
           Account(Peer(s))
    PROVE  Account(Peer(s))'
<1>1. /\ Peer(s) \in Side /\ Peer(Peer(s)) = s /\ log'[Peer(s)] = log[Peer(s)]
      /\ acb'[Peer(s)] = acb[Peer(s)]
      /\ log[s].taken \in Nat /\ log[Peer(s)].started \in Nat
  BY LogTyped DEF Frame, TransferInv, Peer, Side
<1>2. /\ Ends(Peer(s)) \in Nat /\ Ends(Peer(s))' \in Nat /\ Ends(Peer(s)) <= 1
      /\ Confirmed(Peer(s)) \in Nat
  BY <1>1, Numbers DEF Naturals, DeliveryInv, Delivering, EndChain, Bit
<1>3. CASE AcceptsEnd(s)
  <2>1. log'[s].taken = log[s].taken + 1 /\ Ends(Peer(s)) = 1 /\ Ends(Peer(s))' = 0
    BY <1>2, <1>3, EndsMove DEF AcceptsEnd
  <2> QED BY <1>1, <2>1 DEF Account, In, Alive, InTransfer
<1>4. CASE ~AcceptsEnd(s)
  <2>1. log'[s].taken = log[s].taken
    BY <1>4
       DEF Event, LosesAssoc, StaysPut, AsksTurn, GivesTurn, StartsActivity, SendsPart,
           SendsCheckpoint, EndsActivity, InterruptsActivity, ReportsProblem,
           NotesIndication, GainsTurn, ConfirmsCheckpoint, OpensActivity, AcceptsDiscard,
           ClosesActivity, AsksRelease, LeavesRelease, ReadsNext, Counts
  <2>2. Ends(Peer(s))' <= Ends(Peer(s))
    BY EndsMove
  <2> QED BY <1>1, <1>2, <2>1, <2>2 DEF Account, In, Alive, InTransfer
<1> QED BY <1>3, <1>4

(* A time limit is not for remote operations: it calls RtTransferRequest   *)
(* without one.                                                            *)
LEMMA NoTimer ==
    ASSUME TransferInv, NEW s \in Side, RoStep(s), assoc.ros, ~In(s, "TIMER")
    PROVE  ~In(s, "TIMER")'
<1>1. Event(s) /\ Placed(s) /\ Busy(s)
  BY EveryStep, SideInv
<1>2. CASE acb[s].pc = "ckpoint" /\ acb[s].ind = "none"
  <2>1. acb[s].rti = "none"
    BY <1>1, <1>2 DEF Busy
  <2>2. Checkpoint(s)
    BY <1>2, <2>1
       DEF RoStep, RoInvokeRequest, RoResultRequest, Call, MayCall, RoCloses, RtEndRequest,
           RoEvent, RoReady, RoTransfer, RoTurn, RoClose, RoWaitRequest, Callable, Idle,
           Waiting, RtRead, Reading, WaitPlease, Goes, Progress, RtEndResponse, SendPart,
           EndActivity, RtIndication, doSSdata, doSStoken, doSSsync, doSSactivity,
           ActStartInd, ActDiscInd, ActCnf, ActEndInd, doSSreport, doSSfinish, RtDrain,
           RtUser
  <2> QED BY <2>2, CheckpointEvent DEF SendsCheckpoint, LosesAssoc, In
<1>3. CASE ~(acb[s].pc = "ckpoint" /\ acb[s].ind = "none")
  BY <1>1, <1>3
     DEF Event, LosesAssoc, StaysPut, AsksTurn, GivesTurn, StartsActivity, SendsPart,
         SendsCheckpoint, EndsActivity, InterruptsActivity, ReportsProblem,
         NotesIndication, GainsTurn, ConfirmsCheckpoint, OpensActivity, AcceptsDiscard,
         ClosesActivity, AcceptsEnd, AsksRelease, LeavesRelease, ReadsNext, SameTurn, In
<1> QED BY <1>2, <1>3

-----------------------------------------------------------------------------
(* What remote operations has of the APDUs of the other side.              *)

(* An APDU is kept for the user; one is in reliable transfer's hands.      *)
KeptOne(s) == Bit(ro[s].apdu # None)
LentOne(s) == Bit(acb[s].rti = "transfer")

(* Every transfer a side started carries one APDU it wrote.                *)
SentAll(s) ==
    /\ ro[s].calling => ro[s].todo.id > 0 /\ ro[s].apdu = None
    /\ Len(ro[s].sent) = log[s].started
    /\ \A i \in 1..Len(ro[s].sent) : ro[s].sent[i].id > 0

(* Of those its peer took, one may be in reliable transfer's hands, one may*)
(* be kept for the user, and the user has all that came before.            *)
HasTaken(s) ==
    /\ \A i \in 1..Len(ro[s].handed) : ro[s].handed[i] = ro[Peer(s)].sent[i]
    /\ Len(ro[s].handed) + KeptOne(s) <= log[s].taken
    /\ Alive(s) => log[s].taken = Len(ro[s].handed) + KeptOne(s) + LentOne(s)
    /\ acb[s].rti = "transfer" => log[s].of = log[s].taken /\ ~In(s, "TURN")
    /\ ro[s].apdu # None => /\ ro[s].apdu = ro[Peer(s)].sent[Len(ro[s].handed) + 1]
                            /\ Idle(s) \/ (~Alive(s) /\ acb[s].ind = "none")
                            /\ ~In(s, "TURN")

Handing(s) == SentAll(s) /\ HasTaken(s)

(* Nothing of this is used by who is not bound to remote operations.       *)
Unused(s) == ~ro[s].calling /\ ro[s].sent = <<>> /\ ro[s].handed = <<>>

HandInv ==
    /\ ro \in [Side -> Ro]
    /\ \A s \in Side : IF assoc.ros THEN Account(s) /\ Handing(s) ELSE Unused(s)

(* The steps of remote operations, by what they do to APDUs.               *)
Writes(s) ==
    /\ Idle(s) /\ In(s, "TURN") /\ log'[s].started = log[s].started + 1
    /\ acb'[s].rti = "none" /\ acb'[s].ind = "none"
    /\ log'[s].taken = log[s].taken
    /\ \E a \in Apdu : a.id > 0 /\ ro'[s].sent = Append(ro[s].sent, a)
    /\ ro'[s].handed = ro[s].handed /\ ro'[s].apdu = ro[s].apdu /\ ~ro'[s].calling

TakesKept(s) ==
    /\ ro[s].apdu # None /\ Idle(s) /\ UNCHANGED <<acb, log>>
    /\ ro'[s].handed = Append(ro[s].handed, ro[s].apdu) /\ ro'[s].apdu = None
    /\ ro'[s].sent = ro[s].sent /\ ro'[s].calling = ro[s].calling

Rests(s) ==
    /\ acb[s].rti # "transfer" /\ log'[s].started = log[s].started
    /\ ro'[s].sent = ro[s].sent /\ ro'[s].handed = ro[s].handed
    /\ ro'[s].apdu = ro[s].apdu
    /\ ro'[s].calling => ro'[s].todo.id > 0 /\ ro[s].apdu = None
    /\ ro[s].apdu # None /\ Idle(s) => acb'[s].ind = "none" /\ acb'[s].rti = "none"

RoFrame(s) == ro' \in [Side -> Ro] /\ ro'[Peer(s)] = ro[Peer(s)]

(* What reached the user of s came from the peer's, so it has an id.       *)
LEMMA WhatArrived ==
    ASSUME TransferInv, HandInv, assoc.ros, NEW s \in Side
    PROVE  /\ ro[s] \in Ro /\ Account(s) /\ Account(Peer(s)) /\ Handing(s) /\ Handing(Peer(s))
           /\ log[s].taken <= Len(ro[Peer(s)].sent)
           /\ \A i \in 1..log[s].taken : /\ ro[Peer(s)].sent[i] \in Apdu
                                         /\ ro[Peer(s)].sent[i].id > 0
           /\ \A i \in 1..Len(ro[s].handed) : ro[s].handed[i].id > 0
           /\ acb[s].rti = "transfer" => /\ Arrived(s) \in Apdu /\ Arrived(s).id > 0
                                         /\ Arrived(s) = ro[Peer(s)].sent[log[s].taken]
                                         /\ log[s].taken >= 1
<1>1. /\ Peer(s) \in Side /\ Peer(Peer(s)) = s
      /\ ro[s] \in Ro /\ ro[Peer(s)] \in Ro
      /\ Account(s) /\ Account(Peer(s)) /\ Handing(s) /\ Handing(Peer(s))
  BY DEF HandInv, Peer, Side
<1>2. /\ KeptOne(s) \in {0, 1} /\ LentOne(s) \in {0, 1} /\ (acb[s].rti = "transfer" => LentOne(s) = 1)
  BY DEF KeptOne, LentOne, Bit
<1>3. /\ ro[s].handed \in Seq(Apdu) /\ ro[Peer(s)].sent \in Seq(Apdu)
      /\ Len(ro[s].handed) \in Nat /\ Len(ro[Peer(s)].sent) \in Nat
      /\ log[s].taken \in Nat
  BY <1>1, LogTyped DEF Ro, TransferInv
<1>4. log[s].taken <= Len(ro[Peer(s)].sent)
  BY <1>1 DEF Account, Handing, SentAll
<1>5. \A i \in 1..log[s].taken : ro[Peer(s)].sent[i] \in Apdu /\ ro[Peer(s)].sent[i].id > 0
  BY <1>1, <1>3, <1>4 DEF Handing, SentAll
<1>6. Len(ro[s].handed) <= log[s].taken
  BY <1>1, <1>2, <1>3 DEF Handing, HasTaken
<1>7. \A i \in 1..Len(ro[s].handed) : ro[s].handed[i].id > 0
  BY <1>1, <1>3, <1>5, <1>6 DEF Handing, HasTaken
<1>8. ASSUME acb[s].rti = "transfer"
      PROVE  log[s].taken >= 1 /\ log[s].of = log[s].taken
  <2>1. Alive(s)
    BY <1>8, SideInv DEF Placed, Alive
  <2> QED BY <1>1, <1>2, <1>3, <1>8, <2>1 DEF Handing, HasTaken
<1> QED BY <1>1, <1>3, <1>4, <1>5, <1>7, <1>8 DEF Arrived

(* An APDU that is written has an id.                                      *)
LEMMA WritesApdu ==
    ASSUME TransferInv, HandInv, assoc.ros, NEW s \in Side, Idle(s), UNCHANGED assoc,
           NEW a \in Apdu, a.id > 0, ro2rtswrite(s, a)
    PROVE  RoFrame(s) /\ Writes(s)
<1>1. PICK size \in 1..MaxChunks : rt2sstrans(s, size)
  BY DEF ro2rtswrite
<1>2. StartsActivity(s) \/ LosesAssoc(s)
  BY <1>1, StartEvent
<1>3. /\ In(s, "TURN") /\ log'[s].started = log[s].started + 1
      /\ log'[s].taken = log[s].taken
  <2>1. log' = [log EXCEPT ![s].size = size, ![s].started = @ + 1]
    BY <1>1 DEF rt2sstrans
  <2>2. log \in [Side -> Log]
    BY DEF TransferInv, RtTypeOK
  <2> QED BY <1>1, <2>1, <2>2 DEF rt2sstrans, Log
<1>4. acb'[s].rti = "none" /\ acb'[s].ind = "none"
  BY <1>2 DEF StartsActivity, LosesAssoc, Fields
<1>5. /\ ro \in [Side -> Ro] /\ ro[s] \in Ro /\ Peer(s) \in Side /\ Peer(s) # s
  BY DEF HandInv, Peer, Side
<1>6. ro' = [ro EXCEPT ![s].calling = FALSE, ![s].todo = None, ![s].sent = Append(@, a)]
  BY DEF ro2rtswrite
<1>7. /\ ro'[Peer(s)] = ro[Peer(s)] /\ ro'[s].sent = Append(ro[s].sent, a)
      /\ ro'[s].handed = ro[s].handed /\ ro'[s].apdu = ro[s].apdu /\ ro'[s].calling = FALSE
  BY <1>5, <1>6 DEF Ro
<1>8. ro' \in [Side -> Ro]
  <2>1. Append(ro[s].sent, a) \in Seq(Apdu)
    BY <1>5 DEF Ro
  <2>2. None \in Apdu
    BY DEF None, Apdu, Kind
  <2> QED BY <1>5, <1>6, <2>1, <2>2 DEF Ro
<1> QED BY <1>3, <1>4, <1>7, <1>8 DEF RoFrame, Writes

(* A call that waits for the turn has an APDU with an id to write.         *)
LEMMA AsksApdu ==
    ASSUME TransferInv, HandInv, assoc.ros, NEW s \in Side, Idle(s), UNCHANGED assoc,
           NEW a \in Apdu, a.id > 0, ro2rtsready(s, a)
    PROVE  RoFrame(s) /\ Rests(s)
<1>1. rt2sspturn(s) /\ ro[s].apdu = None
  BY DEF ro2rtsready
<1>2. log'[s].started = log[s].started
  BY <1>1 DEF rt2sspturn, TransferInv, RtTypeOK, Log
<1>3. /\ ro \in [Side -> Ro] /\ ro[s] \in Ro /\ Peer(s) \in Side /\ Peer(s) # s
  BY DEF HandInv, Peer, Side
<1>4. ro' = [ro EXCEPT ![s].calling = TRUE, ![s].todo = a]
  BY DEF ro2rtsready
<1>5. /\ ro'[Peer(s)] = ro[Peer(s)] /\ ro'[s].sent = ro[s].sent
      /\ ro'[s].handed = ro[s].handed /\ ro'[s].apdu = ro[s].apdu /\ ro'[s].todo = a
  BY <1>3, <1>4 DEF Ro
<1>6. ro' \in [Side -> Ro]
  BY <1>3, <1>4 DEF Ro
<1> QED BY <1>1, <1>2, <1>5, <1>6 DEF RoFrame, Rests, Idle

(* The requests of the user.                                               *)
LEMMA CallKinds ==
    ASSUME TransferInv, HandInv, assoc.ros, NEW s \in Side,
           RoInvokeRequest(s) \/ RoResultRequest(s) \/ RoReady(s)
    PROVE  RoFrame(s) /\ (Writes(s) \/ Rests(s))
<1>1. ro[s] \in Ro /\ \A i \in 1..Len(ro[s].handed) : ro[s].handed[i].id > 0
  BY WhatArrived
<1>2. Idle(s) /\ UNCHANGED assoc
  BY DEF RoInvokeRequest, RoResultRequest, RoReady, Call, MayCall, Callable
<1>3. ASSUME NEW kind \in Kind, NEW id \in Nat, id > 0,
             Call(s, [kind |-> kind, id |-> id])
      PROVE  RoFrame(s) /\ (Writes(s) \/ Rests(s))
  <2> DEFINE a == [kind |-> kind, id |-> id]
  <2>1. a \in Apdu /\ a.id > 0 /\ (ro2rtswrite(s, a) \/ ro2rtsready(s, a))
    BY <1>3 DEF Apdu, Call
  <2> HIDE DEF a
  <2> QED BY <1>2, <2>1, WritesApdu, AsksApdu
<1>4. CASE RoInvokeRequest(s)
  <2>1. Cardinality(Sent(s, "invoke")) \in Nat
    <3> DEFINE J == {j \in 1..Len(ro[s].sent) : ro[s].sent[j].kind = "invoke"}
               f == [j \in J |-> ro[s].sent[j].id]
    <3>1. Len(ro[s].sent) \in Nat
      BY <1>1 DEF Ro
    <3>2. IsFiniteSet(1..Len(ro[s].sent))
      BY <3>1, FS_Interval
    <3>3. J \in SUBSET (1..Len(ro[s].sent))
      OBVIOUS
    <3>4. IsFiniteSet(J)
      BY <3>2, <3>3, FS_Subset, Zenon
    <3>5. Sent(s, "invoke") = {f[j] : j \in J}
      BY DEF Sent
    <3>6. f \in Surjection(J, Sent(s, "invoke"))
      BY <3>5 DEF Surjection
    <3>7. IsFiniteSet(Sent(s, "invoke"))
      BY <3>4, <3>6, FS_Surjection, Zenon
    <3> QED BY <3>7, FS_CardinalityType, Zenon
  <2> DEFINE n == Cardinality(Sent(s, "invoke")) + 1
  <2>2. n \in Nat /\ n > 0 /\ "invoke" \in Kind
    BY <2>1 DEF Kind
  <2>3. Call(s, [kind |-> "invoke", id |-> n])
    BY <1>4 DEF RoInvokeRequest
  <2> HIDE DEF n
  <2> QED BY <1>3, <2>2, <2>3
<1>5. CASE RoResultRequest(s)
  <2>1. PICK id \in Handed(s, "invoke") \ Sent(s, "result") :
            Call(s, [kind |-> "result", id |-> id])
    BY <1>5 DEF RoResultRequest
  <2>2. PICK i \in 1..Len(ro[s].handed) : id = ro[s].handed[i].id
    BY DEF Handed
  <2>3. ro[s].handed \in Seq(Apdu)
    BY <1>1 DEF Ro
  <2>4. ro[s].handed[i] \in Apdu
    BY <2>3
  <2>5. id \in Nat /\ "result" \in Kind
    BY <2>2, <2>4 DEF Apdu, Kind
  <2>6. id > 0
    BY <1>1, <2>2
  <2> QED BY <1>3, <2>1, <2>5, <2>6
<1>6. CASE RoReady(s)
  <2>1. ro[s].todo \in Apdu /\ ro[s].todo.id > 0 /\ ro2rtswrite(s, ro[s].todo)
    BY <1>1, <1>6, WhatArrived DEF RoReady, Handing, SentAll, Ro
  <2> QED BY <1>2, <2>1, WritesApdu
<1> QED BY <1>4, <1>5, <1>6

(* A step that leaves the APDUs alone, and the calls with them.            *)
LEMMA RestsSame ==
    ASSUME TransferInv, HandInv, assoc.ros, NEW s \in Side, UNCHANGED ro,
           acb[s].rti # "transfer", log'[s].started = log[s].started,
           ro[s].apdu # None /\ Idle(s) => acb'[s].ind = "none" /\ acb'[s].rti = "none"
    PROVE  RoFrame(s) /\ Rests(s)
<1>1. ro \in [Side -> Ro] /\ SentAll(s)
  BY WhatArrived DEF HandInv, Handing
<1> QED BY <1>1 DEF RoFrame, Rests, SentAll

(* The indications of reliable transfer.                                   *)
LEMMA EventKinds ==
    ASSUME TransferInv, HandInv, assoc.ros, NEW s \in Side, RoTurn(s) \/ RoClose(s)
    PROVE  RoFrame(s) /\ Rests(s)
<1>1. /\ ro \in [Side -> Ro] /\ ro[s] \in Ro /\ SentAll(s) /\ Peer(s) \in Side /\ Peer(s) # s
  BY WhatArrived DEF HandInv, Handing, Peer, Side
<1>2. acb[s].rti \in {"turn", "please", "close"} /\ UNCHANGED log
  BY DEF RoTurn, RoClose
<1>3. \/ ro' = ro
      \/ ro' = [ro EXCEPT ![s].calling = FALSE]
      \/ ro' = [ro EXCEPT ![s].calling = FALSE, ![s].todo = None]
  BY DEF RoTurn, RoClose
<1>4. CASE ro' = ro
  BY <1>2, <1>4, RestsSame DEF Idle
<1>5. CASE ro' = [ro EXCEPT ![s].calling = FALSE]
  <2>1. /\ ro' \in [Side -> Ro] /\ ro'[Peer(s)] = ro[Peer(s)] /\ ro'[s].sent = ro[s].sent
        /\ ro'[s].handed = ro[s].handed /\ ro'[s].apdu = ro[s].apdu
        /\ ro'[s].calling = FALSE
    BY <1>1, <1>5 DEF Ro
  <2> QED BY <1>2, <2>1 DEF RoFrame, Rests, Idle
<1>6. CASE ro' = [ro EXCEPT ![s].calling = FALSE, ![s].todo = None]
  <2>1. /\ ro' \in [Side -> Ro] /\ ro'[Peer(s)] = ro[Peer(s)] /\ ro'[s].sent = ro[s].sent
        /\ ro'[s].handed = ro[s].handed /\ ro'[s].apdu = ro[s].apdu
        /\ ro'[s].calling = FALSE
    BY <1>1, <1>6 DEF Ro, None, Apdu, Kind
  <2> QED BY <1>2, <2>1 DEF RoFrame, Rests, Idle
<1> QED BY <1>3, <1>4, <1>5, <1>6

(* The wait of the user takes what was kept before anything else.          *)
LEMMA WaitKinds ==
    ASSUME TransferInv, HandInv, assoc.ros, NEW s \in Side, RoWaitRequest(s) \/ Waiting(s)
    PROVE  RoFrame(s) /\ (TakesKept(s) \/ Rests(s))
<1>1. /\ ro \in [Side -> Ro] /\ ro[s] \in Ro /\ Peer(s) \in Side /\ Peer(s) # s
  BY WhatArrived DEF HandInv, Peer, Side
<1>2. CASE Waiting(s)
  <2>1. UNCHANGED <<ro, log>> /\ acb[s].rti = "none" /\ ro[s].apdu = None
    BY <1>2 DEF Waiting, RtRead, Reading, WaitPlease, Callable, Idle, Keeps
  <2> QED BY <2>1, RestsSame
<1>3. CASE RoWaitRequest(s) /\ ro[s].apdu = None
  <2>1. UNCHANGED <<ro, log>> /\ acb[s].rti = "none"
    BY <1>3 DEF RoWaitRequest, Callable, Idle
  <2> QED BY <1>3, <2>1, RestsSame
<1>4. CASE RoWaitRequest(s) /\ ro[s].apdu # None
  <2>1. /\ Idle(s) /\ UNCHANGED <<acb, log>>
        /\ ro' = [ro EXCEPT ![s].apdu = None, ![s].handed = Append(@, ro[s].apdu)]
    BY <1>4 DEF RoWaitRequest, Callable
  <2>2. None \in Apdu /\ Append(ro[s].handed, ro[s].apdu) \in Seq(Apdu)
    BY <1>1 DEF Ro, None, Apdu, Kind
  <2>3. /\ ro' \in [Side -> Ro] /\ ro'[Peer(s)] = ro[Peer(s)] /\ ro'[s].sent = ro[s].sent
        /\ ro'[s].handed = Append(ro[s].handed, ro[s].apdu) /\ ro'[s].apdu = None
        /\ ro'[s].calling = ro[s].calling
    BY <1>1, <2>1, <2>2 DEF Ro
  <2> QED BY <1>4, <2>1, <2>3 DEF RoFrame, TakesKept
<1> QED BY <1>2, <1>3, <1>4

(* What goes on inside a call, and the calls that close.                   *)
LEMMA GoingKinds ==
    ASSUME TransferInv, HandInv, assoc.ros, NEW s \in Side, RoCloses(s) \/ Goes(s)
    PROVE  RoFrame(s) /\ Rests(s)
<1>1. Event(s) /\ Placed(s) /\ Busy(s)
  BY EveryStep, SideInv DEF RoStep
<1>2. ~Idle(s) => log'[s].started = log[s].started
  BY <1>1
     DEF Event, LosesAssoc, StaysPut, AsksTurn, GivesTurn, StartsActivity, SendsPart,
         SendsCheckpoint, EndsActivity, InterruptsActivity, ReportsProblem,
         NotesIndication, GainsTurn, ConfirmsCheckpoint, OpensActivity, AcceptsDiscard,
         ClosesActivity, AcceptsEnd, AsksRelease, LeavesRelease, ReadsNext, Counts
<1>3. CASE RoCloses(s)
  <2>1. UNCHANGED ro /\ Idle(s) /\ RtEndRequest(s)
    BY <1>3 DEF RoCloses, RtEndRequest, Callable
  <2>2. log'[s].started = log[s].started
    BY <2>1 DEF RtEndRequest, TransferInv, RtTypeOK, Log
  <2>3. acb'[s].ind = "none" /\ acb'[s].rti = "none"
    <3>1. /\ acb \in [Side -> assocblk] /\ "release" \in Pc
          /\ acb[s].ind = "none" /\ acb[s].rti = "none"
      BY <2>1 DEF TransferInv, RtTypeOK, Pc, Idle
    <3>2. CASE acb' = [acb EXCEPT ![s] = [acb[s] EXCEPT !.pc = "release"]]
      BY <3>1, <3>2 DEF assocblk
    <3>3. CASE rtpktlose(s)
      BY <3>3, LosingFields DEF Fields
    <3> QED BY <2>1, <3>2, <3>3 DEF RtEndRequest, Performs
  <2> QED BY <2>1, <2>2, <2>3, RestsSame DEF Idle
<1>4. CASE RtEndResponse(s) /\ UNCHANGED ro
  <2>1. Idle(s) /\ UNCHANGED log /\ (Gone(s) \/ rtpktlose(s))
    BY <1>4 DEF RtEndResponse
  <2>2. acb'[s].ind = "none" /\ acb'[s].rti = "none"
    BY <2>1 DEF rtpktlose, Gone, NewAcb, TransferInv, RtTypeOK
  <2> QED BY <1>4, <2>1, <2>2, RestsSame DEF Idle
<1>5. CASE Progress(s) /\ UNCHANGED ro
  <2>1. ~Idle(s)
    BY <1>5
       DEF Progress, SendPart, Checkpoint, EndActivity, RtIndication, doSSdata, doSStoken,
           doSSsync, doSSactivity, ActStartInd, ActDiscInd, ActCnf, ActEndInd, doSSreport,
           doSSfinish, RtDrain, Idle
  <2>2. acb[s].rti = "none"
    BY <1>1, <1>5
       DEF Progress, SendPart, Checkpoint, EndActivity, RtIndication, doSSdata, doSStoken,
           doSSsync, doSSactivity, ActStartInd, ActDiscInd, ActCnf, ActEndInd, doSSreport,
           doSSfinish, RtDrain, Placed, Busy
  <2> QED BY <1>2, <1>5, <2>1, <2>2, RestsSame
<1> QED BY <1>3, <1>4, <1>5 DEF Goes

(* Every step of remote operations is of one of these kinds.               *)
LEMMA Kinds ==
    ASSUME TransferInv, HandInv, assoc.ros, NEW s \in Side, RoStep(s)
    PROVE  \/ RoTransfer(s)
           \/ RoFrame(s) /\ (Writes(s) \/ TakesKept(s) \/ Rests(s))
BY CallKinds, EventKinds, WaitKinds, GoingKinds DEF RoStep, RoEvent, RtUser

-----------------------------------------------------------------------------
(* The APDUs stay in order.                                                *)

(* What the other side has written only grows.                             *)
LEMMA Grows ==
    ASSUME TransferInv, HandInv, assoc.ros, NEW s \in Side, RoStep(s)
    PROVE  /\ ro' \in [Side -> Ro] /\ ro'[Peer(s)] = ro[Peer(s)]
           /\ SentAll(s)'
           /\ Len(ro[s].sent) <= Len(ro'[s].sent)
           /\ \A i \in 1..Len(ro[s].sent) : ro'[s].sent[i] = ro[s].sent[i]
<1>1. /\ ro \in [Side -> Ro] /\ ro[s] \in Ro /\ SentAll(s) /\ Peer(s) # s /\ Peer(s) \in Side
  BY WhatArrived DEF HandInv, Handing, Peer, Side
<1>2. ro[s].sent \in Seq(Apdu) /\ Len(ro[s].sent) \in Nat
  BY <1>1 DEF Ro
<1>3. CASE RoTransfer(s)
  <2>1. Arrived(s) \in Apdu /\ UNCHANGED log
    BY <1>3, WhatArrived DEF RoTransfer
  <2>2. CASE ro[s].calling
    <3>1. ro' = [ro EXCEPT ![s].calling = FALSE, ![s].todo = None, ![s].apdu = Arrived(s)]
      BY <1>3, <2>2 DEF RoTransfer
    <3>2. None \in Apdu
      BY DEF None, Apdu, Kind
    <3> HIDE DEF Arrived
    <3>3. /\ ro' \in [Side -> Ro] /\ ro'[Peer(s)] = ro[Peer(s)]
          /\ ro'[s].sent = ro[s].sent /\ ro'[s].calling = FALSE
      BY <1>1, <2>1, <3>1, <3>2 DEF Ro
    <3> QED BY <1>1, <1>2, <2>1, <3>3 DEF SentAll
  <2>3. CASE ~ro[s].calling
    <3>1. ro' = [ro EXCEPT ![s].handed = Append(@, Arrived(s))]
      BY <1>3, <2>3 DEF RoTransfer
    <3>2. Append(ro[s].handed, Arrived(s)) \in Seq(Apdu)
      BY <1>1, <2>1 DEF Ro
    <3>3. /\ ro' \in [Side -> Ro] /\ ro'[Peer(s)] = ro[Peer(s)]
          /\ ro'[s].sent = ro[s].sent /\ ro'[s].calling = ro[s].calling
      BY <1>1, <3>1, <3>2 DEF Ro
    <3> QED BY <1>1, <1>2, <2>1, <2>3, <3>3 DEF SentAll
  <2> QED BY <2>2, <2>3
<1>4. CASE RoFrame(s) /\ (TakesKept(s) \/ Rests(s))
  BY <1>1, <1>2, <1>4 DEF RoFrame, TakesKept, Rests, SentAll
<1>5. CASE RoFrame(s) /\ Writes(s)
  <2>1. PICK a \in Apdu : a.id > 0 /\ ro'[s].sent = Append(ro[s].sent, a)
    BY <1>5 DEF Writes
  <2>2. /\ Len(ro'[s].sent) = Len(ro[s].sent) + 1
        /\ \A i \in 1..Len(ro[s].sent) : ro'[s].sent[i] = ro[s].sent[i]
        /\ ro'[s].sent[Len(ro[s].sent) + 1] = a
    BY <1>2, <2>1
  <2>3. \A i \in 1..Len(ro'[s].sent) : ro'[s].sent[i].id > 0
    <3> SUFFICES ASSUME NEW i \in 1..Len(ro'[s].sent) PROVE ro'[s].sent[i].id > 0
      OBVIOUS
    <3>1. i \in 1..Len(ro[s].sent) \/ i = Len(ro[s].sent) + 1
      BY <1>2, <2>2
    <3> QED BY <1>1, <2>1, <2>2, <3>1 DEF SentAll
  <2> QED BY <1>1, <1>2, <1>5, <2>2, <2>3 DEF RoFrame, Writes, SentAll
<1> QED BY <1>3, <1>4, <1>5, Kinds

(* A step of the side the APDUs are for.                                   *)
LEMMA HasTakenMine ==
    ASSUME TransferInv, HandInv, assoc.ros, NEW s \in Side, RoStep(s)
    PROVE  HasTaken(s)'
<1>1. /\ Peer(s) \in Side /\ Peer(s) # s /\ ro[s] \in Ro /\ ro'[Peer(s)] = ro[Peer(s)]
      /\ Account(s) /\ Account(Peer(s)) /\ SentAll(s) /\ HasTaken(s)
      /\ assoc' = assoc /\ Event(s) /\ Placed(s) /\ Busy(s)
  BY WhatArrived, Grows, EveryStep, SideInv DEF Handing, Frame, Peer, Side
<1>2. /\ ro[s].handed \in Seq(Apdu) /\ Len(ro[s].handed) \in Nat
      /\ log[s].taken \in Nat /\ log[s].taken <= Len(ro[Peer(s)].sent)
      /\ KeptOne(s) = IF ro[s].apdu # None THEN 1 ELSE 0
      /\ LentOne(s) = IF acb[s].rti = "transfer" THEN 1 ELSE 0
      /\ KeptOne(s)' = IF ro'[s].apdu # None THEN 1 ELSE 0
      /\ LentOne(s)' = IF acb'[s].rti = "transfer" THEN 1 ELSE 0
  BY <1>1, WhatArrived, LogTyped DEF Ro, TransferInv, KeptOne, LentOne, Bit
<1>3. CASE RoTransfer(s)
  <2>1. /\ acb[s].rti = "transfer" /\ UNCHANGED log /\ Alive(s) /\ acb[s].ind = "none"
        /\ acb' = [acb EXCEPT ![s].rti = "none"]
    BY <1>1, <1>3 DEF RoTransfer, Taken_, Placed, Alive
  <2>2. /\ acb'[s].rti = "none" /\ acb'[s].ind = "none" /\ acb'[s].pc = acb[s].pc
        /\ acb'[s].flags = acb[s].flags
    BY <2>1 DEF TransferInv, RtTypeOK, assocblk
  <2>3. acb[s].pc = "user" /\ ~In(s, "TURN") /\ ro[s].apdu = None
    <3>1. ro[s].apdu = None /\ ~In(s, "TURN")
      BY <1>1, <2>1 DEF HasTaken, Idle
    <3>2. acb[s].pc \in Pc
      BY AcbFields DEF TransferInv, RtTypeOK
    <3> QED BY <1>1, <2>1, <3>1, <3>2 DEF Placed, Busy, Sends, Pc, Alive
  <2>4. /\ Arrived(s) \in Apdu /\ Arrived(s) # None
        /\ Arrived(s) = ro[Peer(s)].sent[Len(ro[s].handed) + 1]
        /\ log[s].taken = Len(ro[s].handed) + 1
    <3>1. log[s].taken = Len(ro[s].handed) + 1
      BY <1>1, <1>2, <2>1, <2>3 DEF HasTaken
    <3> QED BY <2>1, <3>1, WhatArrived DEF None
  <2> HIDE DEF Arrived
  <2>5. CASE ro[s].calling
    <3>1. ro' = [ro EXCEPT ![s].calling = FALSE, ![s].todo = None, ![s].apdu = Arrived(s)]
      BY <1>3, <2>5 DEF RoTransfer
    <3>2. ro'[s].handed = ro[s].handed /\ ro'[s].apdu = Arrived(s)
      BY <1>1, <3>1 DEF HandInv, Ro
    <3>3. KeptOne(s)' = 1 /\ LentOne(s)' = 0
      BY <1>2, <2>2, <2>4, <3>2
    <3>4. Idle(s)' /\ ~In(s, "TURN")' /\ acb'[s].rti # "transfer"
      BY <2>2, <2>3 DEF Idle, In
    <3>5. \A i \in 1..Len(ro'[s].handed) : ro'[s].handed[i] = ro'[Peer(s)].sent[i]
      BY <1>1, <3>2 DEF HasTaken
    <3> QED BY <1>1, <1>2, <2>1, <2>4, <3>2, <3>3, <3>4, <3>5 DEF HasTaken
  <2>6. CASE ~ro[s].calling
    <3>1. ro' = [ro EXCEPT ![s].handed = Append(@, Arrived(s))]
      BY <1>3, <2>6 DEF RoTransfer
    <3>2. ro'[s].handed = Append(ro[s].handed, Arrived(s)) /\ ro'[s].apdu = ro[s].apdu
      BY <1>1, <3>1 DEF HandInv, Ro
    <3>3. /\ Len(ro'[s].handed) = Len(ro[s].handed) + 1
          /\ \A i \in 1..Len(ro[s].handed) : ro'[s].handed[i] = ro[s].handed[i]
          /\ ro'[s].handed[Len(ro[s].handed) + 1] = Arrived(s)
      BY <1>2, <2>4, <3>2
    <3>4. ASSUME NEW i \in 1..Len(ro'[s].handed)
          PROVE  ro'[s].handed[i] = ro'[Peer(s)].sent[i]
      <4>1. i \in 1..Len(ro[s].handed) \/ i = Len(ro[s].handed) + 1
        BY <1>2, <3>3
      <4> QED BY <1>1, <2>4, <3>3, <4>1 DEF HasTaken
    <3>5. KeptOne(s)' = 0 /\ LentOne(s)' = 0 /\ ro'[s].apdu = None
      BY <1>2, <2>2, <2>3, <3>2
    <3>6. Len(ro'[s].handed) = log[s].taken
      BY <2>4, <3>3
    <3> QED BY <1>2, <2>1, <2>2, <3>4, <3>5, <3>6 DEF HasTaken
  <2> QED BY <2>5, <2>6
<1>4. CASE RoFrame(s) /\ Writes(s)
  <2>1. Idle(s) /\ In(s, "TURN")
    BY <1>4 DEF Writes
  <2>2. /\ ro[s].apdu = None /\ Alive(s) /\ acb[s].rti = "none"
        /\ ro'[s].handed = ro[s].handed /\ ro'[s].apdu = ro[s].apdu
        /\ acb'[s].rti = "none" /\ log'[s].taken = log[s].taken
    BY <1>1, <1>4, <2>1 DEF HasTaken, Idle, Alive, Writes
  <2> QED BY <1>1, <1>2, <2>2 DEF HasTaken
<1>5. CASE RoFrame(s) /\ TakesKept(s)
  <2>1. /\ ro[s].apdu # None /\ Idle(s) /\ UNCHANGED <<acb, log>> /\ ro'[s].apdu = None
        /\ ro'[s].handed = Append(ro[s].handed, ro[s].apdu)
        /\ ro[s].apdu = ro[Peer(s)].sent[Len(ro[s].handed) + 1] /\ ro[s].apdu \in Apdu
    BY <1>1, <1>5 DEF TakesKept, HasTaken, Ro
  <2>2. /\ Len(ro'[s].handed) = Len(ro[s].handed) + 1
        /\ \A i \in 1..Len(ro[s].handed) : ro'[s].handed[i] = ro[s].handed[i]
        /\ ro'[s].handed[Len(ro[s].handed) + 1] = ro[s].apdu
    BY <1>2, <2>1
  <2>3. ASSUME NEW i \in 1..Len(ro'[s].handed)
        PROVE  ro'[s].handed[i] = ro'[Peer(s)].sent[i]
    <3>1. i \in 1..Len(ro[s].handed) \/ i = Len(ro[s].handed) + 1
      BY <1>2, <2>2
    <3> QED BY <1>1, <2>1, <2>2, <3>1 DEF HasTaken
  <2>4. /\ acb' = acb /\ log' = log /\ ro'[s].apdu = None /\ acb[s].rti = "none"
        /\ KeptOne(s) = 1 /\ KeptOne(s)' = 0 /\ LentOne(s) = 0 /\ LentOne(s)' = 0
    BY <1>2, <2>1 DEF Idle
  <2>5. log[s].taken = Len(ro[s].handed) + 1
    BY <1>1, <1>2, <2>1, <2>4 DEF HasTaken, Alive, Idle
  <2> QED BY <1>2, <2>2, <2>3, <2>4, <2>5 DEF HasTaken
<1>6. CASE RoFrame(s) /\ Rests(s) /\ AcceptsEnd(s)
  <2>1. /\ acb[s].ind = "endind" /\ Receives(s) /\ acb[s].rti = "none"
        /\ ro[s].apdu = None /\ ro'[s].apdu = None /\ ro'[s].handed = ro[s].handed
        /\ acb'[s].rti = "transfer" /\ ~In(s, "TURN")' /\ Alive(s)
        /\ log'[s].taken = log[s].taken + 1 /\ log'[s].of = log[Peer(s)].started
    BY <1>1, <1>6
       DEF AcceptsEnd, Receives, Placed, Rests, HasTaken, Fields, In, Alive, Idle
  <2>2. log[Peer(s)].started = log[s].taken + 1
    <3>1. Ends(Peer(s)) >= 1
      <4>1. Tally(net[s], "MAP") \in Nat /\ Peer(Peer(s)) = s
        BY <1>1, Numbers DEF Naturals, Peer, Side
      <4> QED BY <2>1, <4>1 DEF Ends, Bit
    <3>2. Peer(Peer(s)) = s
      BY DEF Peer, Side
    <3> QED BY <1>1, <3>1, <3>2 DEF Account
  <2> QED BY <1>1, <1>2, <2>1, <2>2 DEF HasTaken, Alive
<1>7. CASE RoFrame(s) /\ Rests(s) /\ ~AcceptsEnd(s)
  <2>1. /\ ro'[s].handed = ro[s].handed /\ ro'[s].apdu = ro[s].apdu
        /\ acb[s].rti # "transfer"
        /\ ro[s].apdu # None /\ Idle(s) => acb'[s].ind = "none" /\ acb'[s].rti = "none"
    BY <1>7 DEF Rests
  <2>2. /\ log'[s].taken = log[s].taken /\ acb'[s].rti # "transfer"
        /\ Alive(s)' => Alive(s)
    BY <1>1, <1>7, <2>1
       DEF Event, LosesAssoc, StaysPut, AsksTurn, GivesTurn, StartsActivity, SendsPart,
           SendsCheckpoint, EndsActivity, InterruptsActivity, ReportsProblem,
           NotesIndication, GainsTurn, ConfirmsCheckpoint, OpensActivity, AcceptsDiscard,
           ClosesActivity, AsksRelease, LeavesRelease, ReadsNext, Counts, Fields, Alive,
           Placed, Idle
  <2>3. ASSUME ro[s].apdu # None
        PROVE  (Idle(s)' \/ (~Alive(s)' /\ acb'[s].ind = "none")) /\ ~In(s, "TURN")'
    <3>1. ~In(s, "TURN") /\ (Idle(s) \/ (~Alive(s) /\ acb[s].ind = "none"))
      BY <1>1, <2>3 DEF HasTaken
    <3>2. CASE Idle(s)
      <4>1. acb'[s].ind = "none" /\ acb'[s].rti = "none"
        BY <2>1, <2>3, <3>2
      <4>2. acb'[s].pc \in {"user", "gone"} /\ ~In(s, "TURN")'
        BY <1>1, <1>7, <3>1, <3>2
           DEF Event, LosesAssoc, StaysPut, AsksTurn, GivesTurn, StartsActivity, SendsPart,
               SendsCheckpoint, EndsActivity, InterruptsActivity, ReportsProblem,
               NotesIndication, GainsTurn, ConfirmsCheckpoint, OpensActivity,
               AcceptsDiscard, ClosesActivity, AsksRelease, LeavesRelease, ReadsNext,
               Fields, SameTurn, Idle, In
      <4> QED BY <4>1, <4>2 DEF Idle, Alive
    <3>3. CASE ~Alive(s) /\ acb[s].ind = "none"
      <4>1. sb[s].mode # "open"
        BY <1>1, <3>3 DEF Placed, Alive
      <4> QED
        BY <1>1, <1>7, <3>1, <3>3, <4>1
           DEF Event, LosesAssoc, StaysPut, AsksTurn, GivesTurn, StartsActivity, SendsPart,
               SendsCheckpoint, EndsActivity, InterruptsActivity, ReportsProblem,
               NotesIndication, GainsTurn, ConfirmsCheckpoint, OpensActivity,
               AcceptsDiscard, ClosesActivity, AsksRelease, LeavesRelease, ReadsNext,
               Fields, SameTurn, Idle, Alive, In
    <3> QED BY <3>1, <3>2, <3>3
  <2> QED BY <1>1, <1>2, <2>1, <2>2, <2>3 DEF HasTaken
<1> QED BY <1>3, <1>4, <1>5, <1>6, <1>7, Kinds

(* A step of the side that wrote them.                                     *)
LEMMA HasTakenTheirs ==
    ASSUME TransferInv, HandInv, assoc.ros, NEW s \in Side, RoStep(s)
    PROVE  HasTaken(Peer(s))'
<1>1. /\ Peer(s) \in Side /\ Peer(Peer(s)) = s /\ ro'[Peer(s)] = ro[Peer(s)]
      /\ acb'[Peer(s)] = acb[Peer(s)] /\ log'[Peer(s)] = log[Peer(s)]
  BY Grows, EveryStep DEF Frame, Peer, Side
<1>2. /\ HasTaken(Peer(s)) /\ log[Peer(s)].taken <= Len(ro[s].sent)
      /\ ro[Peer(s)] \in Ro /\ ro[s] \in Ro /\ log[Peer(s)].taken \in Nat
  BY <1>1, WhatArrived, LogTyped DEF Handing, TransferInv
<1>3. /\ ro[Peer(s)].handed \in Seq(Apdu) /\ Len(ro[Peer(s)].handed) \in Nat
      /\ Len(ro[s].sent) \in Nat
  BY <1>2 DEF Ro
<1>4. /\ KeptOne(Peer(s)) = IF ro[Peer(s)].apdu # None THEN 1 ELSE 0
      /\ KeptOne(Peer(s))' = KeptOne(Peer(s)) /\ LentOne(Peer(s))' = LentOne(Peer(s))
      /\ Alive(Peer(s))' <=> Alive(Peer(s))
      /\ Idle(Peer(s))' <=> Idle(Peer(s))
      /\ In(Peer(s), "TURN")' <=> In(Peer(s), "TURN")
  BY <1>1 DEF KeptOne, LentOne, Bit, Alive, Idle, In
<1>5. \A i \in 1..Len(ro[s].sent) : ro'[s].sent[i] = ro[s].sent[i]
  BY Grows
<1>6. /\ Len(ro[Peer(s)].handed) <= Len(ro[s].sent)
      /\ ro[Peer(s)].apdu # None => Len(ro[Peer(s)].handed) + 1 <= Len(ro[s].sent)
  <2>1. Len(ro[Peer(s)].handed) + KeptOne(Peer(s)) <= log[Peer(s)].taken
    BY <1>2 DEF HasTaken
  <2>2. KeptOne(Peer(s)) \in {0, 1} /\ (ro[Peer(s)].apdu # None => KeptOne(Peer(s)) = 1)
    BY <1>4
  <2>3. log[Peer(s)].taken <= Len(ro[s].sent) /\ log[Peer(s)].taken \in Nat
    BY <1>2
  <2> DEFINE h == Len(ro[Peer(s)].handed)
             k == KeptOne(Peer(s))
             t == log[Peer(s)].taken
             m == Len(ro[s].sent)
             kept == ro[Peer(s)].apdu # None
  <2>4. h \in Nat /\ m \in Nat /\ t \in Nat
    BY <1>3, <2>3
  <2>5. h + k <= t /\ k \in {0, 1} /\ (kept => k = 1) /\ t <= m
    BY <2>1, <2>2, <2>3
  <2> HIDE DEF h, k, t, m, kept
  <2>6. h <= m /\ (kept => h + 1 <= m)
    BY <2>4, <2>5
  <2> QED BY <2>6 DEF h, m, kept
<1>7. \A i \in 1..Len(ro[Peer(s)].handed) : ro[Peer(s)].handed[i] = ro'[s].sent[i]
  <2> SUFFICES ASSUME NEW i \in 1..Len(ro[Peer(s)].handed)
               PROVE  ro[Peer(s)].handed[i] = ro'[s].sent[i]
    OBVIOUS
  <2>1. i \in 1..Len(ro[s].sent)
    BY <1>3, <1>6
  <2> QED BY <1>1, <1>2, <1>5, <2>1 DEF HasTaken
<1>8. ASSUME ro[Peer(s)].apdu # None
      PROVE  ro[Peer(s)].apdu = ro'[s].sent[Len(ro[Peer(s)].handed) + 1]
  <2>1. Len(ro[Peer(s)].handed) + 1 \in 1..Len(ro[s].sent)
    BY <1>3, <1>8, <1>6
  <2> QED BY <1>1, <1>2, <1>5, <1>8, <2>1 DEF HasTaken
<1> QED BY <1>1, <1>2, <1>4, <1>7, <1>8 DEF HasTaken

(* Reliable transfer without remote operations leaves them alone.          *)
LEMMA UnusedKept ==
    ASSUME TransferInv, HandInv, ~assoc.ros, NEW s \in Side, RoStep(s)
    PROVE  UNCHANGED ro
<1>1. ~ro[s].calling /\ acb[s].rti = "none"
  BY SideInv DEF HandInv, Unused, Placed
<1> QED BY <1>1
        DEF RoStep, RoInvokeRequest, RoResultRequest, Call, MayCall, RoCloses, RoEvent,
            RoReady, RoTransfer, RoTurn, RoClose, RoWaitRequest, Waiting, Goes

(* The order of the APDUs is inductive.                                    *)
LEMMA HandKept ==
    ASSUME TransferInv, DeliveryInv, HandInv, [RoNext]_rovars
    PROVE  HandInv'
<1>1. TransferInv'
  BY TransferKept
<1>2. CASE UNCHANGED rovars
  <2>1. HandInv' <=> HandInv
    BY <1>2 DEF rovars, HandInv, Account, Handing, SentAll, HasTaken, Unused, KeptOne,
                LentOne, Ends, Alive, Idle, In, InTransfer
  <2> QED BY <2>1
<1>3. CASE RoNext
  <2>1. PICK s \in Side : RoStep(s)
    BY <1>3 DEF RoNext, RoStep
  <2>2. /\ Event(s) /\ Frame(s) /\ assoc' = assoc /\ Peer(s) \in Side
        /\ \A t \in Side : t = s \/ t = Peer(s)
    BY <2>1, EveryStep DEF Frame, Peer, Side
  <2>3. CASE ~assoc.ros
    <3>1. UNCHANGED <<ro, assoc>>
      BY <2>1, <2>2, <2>3, UnusedKept
    <3> QED BY <2>3, <3>1 DEF HandInv, Unused
  <2>4. CASE assoc.ros
    <3>1. Account(s) /\ Account(Peer(s)) /\ SentAll(Peer(s))
      BY <2>2, <2>4 DEF HandInv, Handing
    <3>2. ~In(s, "TIMER")'
      BY <2>1, <2>4, <3>1, NoTimer DEF Account
    <3>3. Account(s)' /\ Account(Peer(s))'
      BY <1>1, <2>2, <3>1, <3>2, AccountMine, AccountTheirs
    <3>4. ro' \in [Side -> Ro] /\ ro'[Peer(s)] = ro[Peer(s)] /\ SentAll(s)'
      BY <2>1, <2>4, Grows
    <3>5. HasTaken(s)' /\ HasTaken(Peer(s))'
      BY <2>1, <2>4, HasTakenMine, HasTakenTheirs
    <3>6. SentAll(Peer(s))'
      BY <2>2, <3>1, <3>4 DEF SentAll, Frame
    <3> QED BY <2>2, <2>4, <3>3, <3>4, <3>5, <3>6 DEF HandInv, Handing
  <2> QED BY <2>3, <2>4
<1> QED BY <1>2, <1>3

(* Nothing was sent and nothing was handed over on a fresh association.    *)
LEMMA HandInit == RoInit => HandInv
<1> SUFFICES ASSUME RoInit PROVE HandInv
  OBVIOUS
<1>1. \A s \in Side :
        /\ net[s] = <<>> /\ log[s].ok = 0 /\ log[s].taken = 0 /\ log[s].started = 0
        /\ acb[s].pc = "user" /\ acb[s].ind = "none" /\ acb[s].rti = "none"
        /\ "TIMER" \notin acb[s].flags
  BY DEF RoInit, RtInit, NewAcb
<1>2. ro = [s \in Side |-> [ calling |-> FALSE, todo |-> None, apdu |-> None,
                             sent |-> <<>>, handed |-> <<>>]]
  BY DEF RoInit
<1>3. None \in Apdu /\ <<>> \in Seq(Apdu)
  BY DEF None, Apdu, Kind
<1>4. ro \in [Side -> Ro]
  BY <1>2, <1>3 DEF Ro
<1>5. ASSUME NEW s \in Side PROVE Account(s) /\ Handing(s) /\ Unused(s)
  <2>1. /\ ~ro[s].calling /\ ro[s].apdu = None /\ ro[s].sent = <<>> /\ ro[s].handed = <<>>
    BY <1>2
  <2>2. Peer(s) \in Side /\ \A k : Tally(<<>>, k) = 0
    BY PeerSide, TallyEmpty
  <2>3. Ends(s) = 0
    BY <1>1, <2>2 DEF Ends, Bit
  <2>4. Account(s)
    BY <1>1, <2>2, <2>3 DEF Account, In, Bit, InTransfer
  <2>5. Len(ro[s].sent) = 0 /\ Len(ro[s].handed) = 0
    BY <2>1
  <2>6. KeptOne(s) = 0 /\ LentOne(s) = 0
    BY <1>1, <2>1 DEF KeptOne, LentOne, Bit
  <2> QED BY <1>1, <2>1, <2>4, <2>5, <2>6 DEF Handing, SentAll, HasTaken, Unused
<1> QED BY <1>4, <1>5 DEF HandInv

(* The whole invariant of remote operations.                               *)
LEMMA RoInvariant == RoSpec => [](TransferInv /\ DeliveryInv /\ HandInv)
<1>1. /\ TransferInv /\ DeliveryInv /\ HandInv /\ [RoNext]_rovars
      => TransferInv' /\ DeliveryInv' /\ HandInv'
  BY TransferKept, DeliveryKept, HandKept
<1>2. RoInit => TransferInv /\ DeliveryInv /\ HandInv
  BY TransferInit, DeliveryInit, HandInit
<1> QED BY <1>1, <1>2, PTL DEF RoSpec

(* The association block of remote operations stays well typed: what is    *)
(* taken from the peer is an APDU the peer has written, never one read out *)
(* of bounds.                                                              *)
THEOREM RoTyping == RoSpec => []RoTypeOK
<1>1. TransferInv /\ DeliveryInv /\ HandInv => RoTypeOK
  BY DEF TransferInv, HandInv, RoTypeOK
<1> QED BY <1>1, RoInvariant, PTL

(* The user is handed the APDUs its peer wrote, in their order, without a  *)
(* gap and without a repetition: though ro2rtsready keeps one that arrives *)
(* in the middle of a call, it is taken before the next is read.           *)
THEOREM TransferAlwaysInOrder == RoSpec => []HandedInOrder
<1>1. TransferInv /\ DeliveryInv /\ HandInv => HandedInOrder
  <2> SUFFICES ASSUME TransferInv, DeliveryInv, HandInv, NEW s \in Side
               PROVE  ro[s].handed = SubSeq(ro[Peer(s)].sent, 1, Len(ro[s].handed))
    BY DEF HandedInOrder
  <2> DEFINE h == ro[s].handed
             q == ro[Peer(s)].sent
  <2>1. h \in Seq(Apdu) /\ q \in Seq(Apdu) /\ Len(h) \in Nat /\ Len(q) \in Nat
    BY PeerSide DEF HandInv, Ro
  <2>2. Len(h) <= Len(q) /\ \A i \in 1..Len(h) : h[i] = q[i]
    <3>1. CASE assoc.ros
      <4>1. HasTaken(s) /\ log[s].taken <= Len(q) /\ log[s].taken \in Nat
        BY <3>1, WhatArrived, LogTyped DEF Handing, TransferInv
      <4>2. KeptOne(s) \in {0, 1}
        BY DEF KeptOne, Bit
      <4>3. /\ Len(h) + KeptOne(s) <= log[s].taken
            /\ \A i \in 1..Len(h) : h[i] = q[i]
        BY <4>1 DEF HasTaken
      <4> HIDE DEF h, q
      <4> QED BY <2>1, <4>1, <4>2, <4>3
    <3>2. CASE ~assoc.ros
      BY <2>1, <3>2 DEF HandInv, Unused
    <3> QED BY <3>1, <3>2
  <2> HIDE DEF h, q
  <2>3. /\ SubSeq(q, 1, Len(h)) \in Seq(Apdu) /\ Len(SubSeq(q, 1, Len(h))) = Len(h)
        /\ \A i \in 1..Len(h) : SubSeq(q, 1, Len(h))[i] = q[i]
    BY <2>1, <2>2
  <2>4. h = SubSeq(q, 1, Len(h))
    BY <2>1, <2>2, <2>3
  <2> QED BY <2>4 DEF h, q
<1> QED BY <1>1, RoInvariant, PTL

-----------------------------------------------------------------------------
(* The turn moves with a GTC, so what has to be shown is that no GTC is    *)
(* discarded.  A provider discards whatever it reads while it prepares for *)
(* an SPDU; that this SPDU is then ahead of it (PreparationAnnounced, in   *)
(* TokenProofs) says where its peer is.                                    *)

(* Where the turn is, and where the activity.                              *)

Active(s) == "Vact" \in sb[s].flags

(* What s has to read: the turn, starts of activities, and answers to the  *)
(* end or the interruption of its own.                                     *)
Turns(s)    == Tally(net[s], "GTC")
Begins(s)   == Tally(net[s], "AS")
Closings(s) == Tally(net[s], "MAA") + Tally(net[s], "AIA")

TurnAt(s) == Bit(In(s, "TURN")) + Turns(s) + Bit(acb[s].ind = "control")

(* The turn is in one place, unless it left with an association.           *)
OneTurn(s) ==
    /\ TurnAt(s) + TurnAt(Peer(s)) <= 1
    /\ BothAlive => TurnAt(s) + TurnAt(Peer(s)) >= 1

(* What follows for one side from the turn and from receiving.             *)
Owner(s) ==
    /\ In(s, "TURN") \/ acb[s].ind = "control" => sb[s].owned = Tokens
    /\ "AI" \in sb[s].flags \/ acb[s].pc = "release" => In(s, "TURN")
    /\ Receives(s) \/ acb[s].ind = "start" => Active(s)
    /\ Active(s) \/ Turns(s) > 0 \/ Begins(s) > 0 => Needs("ACTIVITY")
    /\ "ED" \in sb[s].flags /\ Needs("ACTIVITY") =>
           Active(s) /\ ~In(s, "TURN") /\ acb[s].ind # "control"

(* The activity of who has the turn begins there first and ends there last,*)
(* and its start and its end are never under way together.                 *)
ActChain(s) ==
    Begins(Peer(s)) + Closings(s) + Bit(Active(Peer(s)) /\ In(s, "TURN"))
        <= Bit(Active(s) /\ In(s, "TURN"))

(* While the turn changes hands there is no activity.                      *)
Changing(s) ==
    Turns(s) > 0 \/ acb[s].ind = "control" => ~Active(s) /\ ~Active(Peer(s))

Turning(s) == OneTurn(s) /\ Owner(s) /\ (BothAlive => ActChain(s) /\ Changing(s))

TurnInv == \A s \in Side : Turning(s)

(* What s has to read is counted in natural numbers.                       *)
LEMMA TurnNumbers ==
    ASSUME NEW s \in Side
    PROVE  /\ TransferInv => Turns(s) \in Nat /\ Begins(s) \in Nat /\ Closings(s) \in Nat
           /\ TransferInv' => Turns(s)' \in Nat /\ Begins(s)' \in Nat /\ Closings(s)' \in Nat
<1>1. TransferInv => net[s] \in Seq(SpduSet)
  BY DEF TransferInv, TypeOK
<1>2. TransferInv' => net'[s] \in Seq(SpduSet)
  BY DEF TransferInv, TypeOK
<1>3. TransferInv => \A k : Tally(net[s], k) \in Nat
  BY <1>1, TallyTyped
<1>4. TransferInv' => \A k : Tally(net'[s], k) \in Nat
  BY <1>2, TallyTyped
<1> QED BY <1>3, <1>4 DEF Turns, Begins, Closings

(* What a step of s does to these that writes at most one SPDU of code c   *)
(* and reads one of code h.                                                *)
TurnMoves(s, c, h) ==
    /\ Turns(s)' = Turns(s) - Bit(h = "GTC")
    /\ Begins(s)' = Begins(s) - Bit(h = "AS")
    /\ Closings(s)' = Closings(s) - Bit(h = "MAA") - Bit(h = "AIA")
    /\ Turns(Peer(s))' <= Turns(Peer(s)) + Bit(c = "GTC")
    /\ ~Closed(sb[Peer(s)]) => Turns(Peer(s))' = Turns(Peer(s)) + Bit(c = "GTC")
    /\ Begins(Peer(s))' <= Begins(Peer(s)) + Bit(c = "AS")
    /\ Closings(Peer(s))' <= Closings(Peer(s)) + Bit(c = "MAA") + Bit(c = "AIA")

(* ... and one that frees the block of s.                                  *)
TurnDrops(s) ==
    /\ Turns(s)' = 0 /\ Begins(s)' = 0
    /\ Turns(Peer(s))' <= Turns(Peer(s)) /\ Begins(Peer(s))' <= Begins(Peer(s))

(* How they move with what a step puts on the queues and takes off.        *)
LEMMA TurnsMove ==
    ASSUME TransferInv, NEW s \in Side
    PROVE  /\ \A c : Puts(s, c) => TurnMoves(s, c, "none")
           /\ Untouched => TurnMoves(s, "none", "none")
           /\ Gets(s) => TurnMoves(s, "none", Head(net[s]).code)
           /\ Loses(s) => TurnDrops(s)
<1> DEFINE mine(k)   == Tally(net[s], k)
           theirs(k) == Tally(net[Peer(s)], k)
           mineN(k)   == Tally(net'[s], k)
           theirsN(k) == Tally(net'[Peer(s)], k)
           codes == {"GTC", "AS", "MAA", "AIA"}
<1>1. \A k : mine(k) \in Nat /\ theirs(k) \in Nat /\ Tally(<<>>, k) = 0
  BY Numbers, TallyEmpty DEF Naturals
<1>2. /\ Turns(s) = mine("GTC") /\ Begins(s) = mine("AS")
      /\ Closings(s) = mine("MAA") + mine("AIA")
      /\ Turns(Peer(s)) = theirs("GTC") /\ Begins(Peer(s)) = theirs("AS")
      /\ Closings(Peer(s)) = theirs("MAA") + theirs("AIA")
  BY DEF Turns, Begins, Closings
<1>3. /\ Turns(s)' = mineN("GTC") /\ Begins(s)' = mineN("AS")
      /\ Closings(s)' = mineN("MAA") + mineN("AIA")
      /\ Turns(Peer(s))' = theirsN("GTC") /\ Begins(Peer(s))' = theirsN("AS")
      /\ Closings(Peer(s))' = theirsN("MAA") + theirsN("AIA")
  BY DEF Turns, Begins, Closings
<1>4. codes \subseteq Watched
  BY DEF Watched
<1> DEFINE live == ~Closed(sb[Peer(s)])
<1>5. ASSUME NEW c, NEW h,
             \A k \in codes : /\ mineN(k) = mine(k) - Bit(h = k)
                              /\ theirsN(k) \in Nat /\ theirsN(k) <= theirs(k) + Bit(k = c)
                              /\ live => theirsN(k) = theirs(k) + Bit(k = c)
      PROVE  TurnMoves(s, c, h)
  <2> HIDE DEF mine, theirs, mineN, theirsN
  <2>1. /\ mineN("GTC") = mine("GTC") - Bit(h = "GTC")
        /\ mineN("AS") = mine("AS") - Bit(h = "AS")
        /\ mineN("MAA") = mine("MAA") - Bit(h = "MAA")
        /\ mineN("AIA") = mine("AIA") - Bit(h = "AIA")
    BY <1>5
  <2>2. /\ theirsN("GTC") \in Nat /\ theirsN("GTC") <= theirs("GTC") + Bit(c = "GTC")
        /\ live => theirsN("GTC") = theirs("GTC") + Bit(c = "GTC")
        /\ theirsN("AS") \in Nat /\ theirsN("AS") <= theirs("AS") + Bit(c = "AS")
        /\ theirsN("MAA") \in Nat /\ theirsN("MAA") <= theirs("MAA") + Bit(c = "MAA")
        /\ theirsN("AIA") \in Nat /\ theirsN("AIA") <= theirs("AIA") + Bit(c = "AIA")
    BY <1>5 DEF Bit
  <2>3. Turns(s)' = Turns(s) - Bit(h = "GTC")
    BY <1>2, <1>3, <2>1
  <2>4. Begins(s)' = Begins(s) - Bit(h = "AS")
    BY <1>2, <1>3, <2>1
  <2>5. Closings(s)' = Closings(s) - Bit(h = "MAA") - Bit(h = "AIA")
    <3>1. /\ mine("MAA") \in Nat /\ mine("AIA") \in Nat
          /\ Bit(h = "MAA") \in {0, 1} /\ Bit(h = "AIA") \in {0, 1}
      BY <1>1 DEF Bit
    <3> QED BY <1>2, <1>3, <2>1, <3>1
  <2>6. /\ Turns(Peer(s))' <= Turns(Peer(s)) + Bit(c = "GTC")
        /\ live => Turns(Peer(s))' = Turns(Peer(s)) + Bit(c = "GTC")
        /\ Begins(Peer(s))' <= Begins(Peer(s)) + Bit(c = "AS")
    BY <1>2, <1>3, <2>2
  <2>7. Closings(Peer(s))' <= Closings(Peer(s)) + Bit(c = "MAA") + Bit(c = "AIA")
    <3>1. /\ theirs("MAA") \in Nat /\ theirs("AIA") \in Nat
          /\ Bit(c = "MAA") \in {0, 1} /\ Bit(c = "AIA") \in {0, 1}
      BY <1>1 DEF Bit
    <3> QED BY <1>2, <1>3, <2>2, <3>1
  <2> QED BY <2>3, <2>4, <2>5, <2>6, <2>7 DEF TurnMoves
<1>6. ASSUME NEW c, Puts(s, c) PROVE TurnMoves(s, c, "none")
  <2>1. \A k \in codes : /\ mineN(k) = mine(k) - Bit("none" = k)
                         /\ theirsN(k) \in Nat /\ theirsN(k) <= theirs(k) + Bit(k = c)
                         /\ live => theirsN(k) = theirs(k) + Bit(k = c)
    BY <1>1, <1>4, <1>6 DEF Puts, Bit
  <2> QED BY <2>1, <1>5
<1>7. ASSUME Untouched PROVE TurnMoves(s, "none", "none")
  <2>1. \A k \in codes : /\ mineN(k) = mine(k) - Bit("none" = k)
                         /\ theirsN(k) \in Nat /\ theirsN(k) <= theirs(k) + Bit(k = "none")
                         /\ live => theirsN(k) = theirs(k) + Bit(k = "none")
    BY <1>1, <1>7 DEF Untouched, Bit
  <2> QED BY <2>1, <1>5
<1>8. ASSUME Gets(s) PROVE TurnMoves(s, "none", Head(net[s]).code)
  <2>1. \A k \in codes : /\ mineN(k) = mine(k) - Bit(Head(net[s]).code = k)
                         /\ theirsN(k) \in Nat /\ theirsN(k) <= theirs(k)
                         /\ live => theirsN(k) = theirs(k)
    BY <1>4, <1>8 DEF Gets
  <2>2. \A k \in codes : Bit(k = "none") = 0 /\ theirs(k) + 0 = theirs(k)
    BY <1>1 DEF Bit
  <2> QED BY <2>1, <2>2, <1>5
<1>9. ASSUME Loses(s) PROVE TurnDrops(s)
  <2>1. \A k \in codes : mineN(k) = 0 /\ theirsN(k) <= theirs(k)
    BY <1>1, <1>4, <1>9 DEF Loses
  <2> QED BY <1>2, <1>3, <2>1 DEF TurnDrops
<1> QED BY <1>6, <1>7, <1>8, <1>9

(* The codes that two disjuncts of an event leave open do not count here.  *)
LEMMA OtherCodes ==
    ASSUME NEW s \in Side, NEW C, C \cap {"GTC", "AS", "MAA", "AIA"} = {},
           \E c \in C : TurnMoves(s, c, "none")
    PROVE  TurnMoves(s, "none", "none")
<1>1. PICK c \in C : TurnMoves(s, c, "none")
  OBVIOUS
<1>2. /\ Bit(c = "GTC") = Bit("none" = "GTC") /\ Bit(c = "AS") = Bit("none" = "AS")
      /\ Bit(c = "MAA") = Bit("none" = "MAA") /\ Bit(c = "AIA") = Bit("none" = "AIA")
  BY DEF Bit
<1> QED BY <1>1, <1>2 DEF TurnMoves


(* What is in a queue is counted.                                          *)
LEMMA Counted ==
    ASSUME NEW q \in Seq(SpduSet), NEW j \in 1..Len(q), NEW k, q[j].code = k
    PROVE  Tally(q, k) >= 1
<1>1. IsFiniteSet(Places(q, k)) /\ Tally(q, k) \in Nat
  BY TallyTyped
<1>2. Places(q, k) # {}
  BY DEF Places
<1>3. Tally(q, k) # 0
  BY <1>1, <1>2, FS_EmptySet, Zenon DEF Tally
<1> QED BY <1>1, <1>3

(* Answers come to who has the turn, and from who has it come the end and  *)
(* the interruption of an activity: unless that side lost the association. *)
LEMMA TurnOfActivity ==
    ASSUME TransferInv, DeliveryInv, TurnInv, NEW s \in Side
    PROVE  /\ Closings(s) > 0 => acb[s].pc = "gone" \/ In(s, "TURN")
           /\ Tally(net[s], "AI") > 0 \/ Tally(net[s], "AD") > 0
                  \/ acb[s].ind \in {"discind", "endind"}
                => acb[Peer(s)].pc = "gone" \/ In(Peer(s), "TURN")
<1>1. Peer(s) \in Side /\ Peer(Peer(s)) = s
  BY DEF Peer, Side
<1>2. \A t \in Side : /\ EndChain(t) /\ DiscChain(t) /\ Busy(t) /\ Owner(t)
                      /\ Ends(t) \in Nat /\ Confirmed(t) \in Nat /\ Halts(t) \in Nat
  BY Numbers DEF DeliveryInv, Delivering, TransferInv, TurnInv, Turning, Naturals
<1>3. \A k : Tally(net[s], k) \in Nat /\ Tally(net[Peer(s)], k) \in Nat
  BY Numbers DEF Naturals
<1>4. \A t \in Side : /\ Ends(t) > 0 \/ Confirmed(t) > 0 => Open(t)
                      /\ Halts(t) > 0 => "AI" \in sb[t].flags \/ acb[t].pc = "gone"
  BY <1>2 DEF EndChain, DiscChain, Bit
<1>5. \A t \in Side : Ends(t) > 0 \/ Confirmed(t) > 0 \/ Halts(t) > 0
                          => acb[t].pc = "gone" \/ In(t, "TURN")
  BY <1>2, <1>4 DEF Open, Busy, Sends, Owner
<1>6. Closings(s) > 0 => Confirmed(s) > 0 \/ Halts(s) > 0
  BY <1>3 DEF Closings, Confirmed, Halts, Bit
<1>7. Tally(net[s], "AI") > 0 \/ Tally(net[s], "AD") > 0
          \/ acb[s].ind \in {"discind", "endind"}
        => Ends(Peer(s)) > 0 \/ Halts(Peer(s)) > 0
  BY <1>1, <1>3 DEF Ends, Halts, Bit
<1> QED BY <1>1, <1>5, <1>6, <1>7

(* A turn that is given is not discarded: who prepares for an SPDU that    *)
(* only the side with the turn sends, or that answers one of its own, and  *)
(* who has reported an exception, is not given the turn.                   *)
LEMMA TurnArrives ==
    ASSUME TransferInv, DeliveryInv, TurnInv, PrepInv, NEW s \in Side, BothAlive,
           ReadsNext(s), Head(net[s]).code = "GTC"
    PROVE  acb'[s].ind = "control"
<1> DEFINE p == Peer(s)
           m == Head(net[s])
<1>1. p \in Side /\ net[s] \in Seq(SpduSet) /\ net[s] # <<>>
  BY PeerSide DEF ReadsNext, Gets, TransferInv, TypeOK
<1>2. Turns(s) >= 1
  <2>1. 1 \in 1..Len(net[s]) /\ net[s][1].code = "GTC"
    BY <1>1
  <2> QED BY <1>1, <2>1, Counted DEF Turns
<1>3. ~In(s, "TURN") /\ ~In(p, "TURN")
  <2>1. TurnAt(s) + TurnAt(p) <= 1 /\ Turns(s) \in Nat /\ Turns(p) \in Nat
    BY <1>1, TurnNumbers DEF TurnInv, Turning, OneTurn
  <2> QED BY <1>2, <2>1 DEF TurnAt, Bit
<1>4. Alive(s) /\ Alive(p) /\ Placed(s) /\ Placed(p) /\ Carried(s) /\ TypeOK
  BY <1>1 DEF BothAlive, TransferInv
<1>5. Owner(s) /\ Owner(p) /\ Changing(s)
  BY <1>1 DEF TurnInv, Turning
<1>6. sb[s].mode = "open" /\ sb[p].mode = "open"
  BY <1>3, <1>4, <1>5 DEF Placed, Alive, Owner
<1>7. /\ Incoming(s) = m /\ acb'[s].ind = Indication(s)
  BY <1>1, <1>4, <1>6, FirstRead DEF ReadsNext, Readable
<1>8. "Vact" \notin sb[s].flags /\ "ED" \notin sb[s].flags
  <2>1. Turns(s) > 0
    BY <1>2, TurnNumbers
  <2> QED BY <1>5, <2>1 DEF Changing, Active, Owner
<1>9. ~PreparationDrops(sb[s].pr, m)
  <2>1. Prepared(s)
    <3>1. BothLive
      BY <1>6 DEF BothLive, Live, Peer, Side
    <3> QED BY <3>1 DEF PrepInv
  <2>2. sb[s].pr \in {"RS", "RA", "AB"} => Comes(sb[s].pr, net[s])
    <3>1. ~Comes(sb[s].pr, <<>>)
      BY DEF Comes
    <3> QED BY <1>4, <2>1, <3>1 DEF Prepared, Carried
  <2>3. ASSUME sb[s].pr \in {"RS", "RA", "AB"} PROVE FALSE
    <3>1. PICK j \in 1..Len(net[s]) : EndsPreparation(sb[s].pr, net[s][j])
      BY <2>2, <2>3 DEF Comes
    <3>2. net[s][j].code \in {"AI", "AD", "AIA"}
      BY <1>4, <2>1, <2>3, <3>1
         DEF EndsPreparation, Carried, Conveys, OfTransfer, RtCode, Prepared, NoAbort
    <3>3. Tally(net[s], net[s][j].code) >= 1
      BY <1>1, Counted
    <3>4. \A k : Tally(net[s], k) \in Nat
      BY Numbers DEF Naturals
    <3>5. Tally(net[s], "AI") > 0 \/ Tally(net[s], "AD") > 0 \/ Closings(s) > 0
      BY <3>2, <3>3, <3>4 DEF Closings
    <3> QED BY <1>3, <1>4, <3>5, TurnOfActivity DEF Alive
  <2> QED BY <2>3 DEF PreparationDrops
<1>10. ~Dropped(s, sb[s], m)
  BY <1>8, <1>9 DEF Dropped, CollisionDrops, ExceptionDrops
<1> QED BY <1>7, <1>8, <1>10 DEF Indication, Raises, IndicationOf


(* What the turn says of the side that takes a step.                       *)
LEMMA OwnerKept ==
    ASSUME TransferInv, TransferInv', DeliveryInv, TurnInv, NEW s \in Side, Event(s),
           Frame(s)
    PROVE  Owner(s)'
<1>1. Placed(s) /\ Busy(s) /\ Owner(s)
  BY SideInv DEF TurnInv, Turning
<1>2. /\ Turns(s) \in Nat /\ Begins(s) \in Nat /\ Closings(s) \in Nat
      /\ Turns(s)' \in Nat /\ Begins(s)' \in Nat /\ Closings(s)' \in Nat
  BY TurnNumbers
<1>3. Closings(s) > 0 => acb[s].pc = "gone" \/ In(s, "TURN")
  BY TurnOfActivity
<1> USE <1>1, <1>2, <1>3 DEF Bit
<1>4. CASE LosesAssoc(s)
  <2>1. TurnDrops(s)
    BY <1>4, TurnsMove DEF LosesAssoc
  <2> QED BY <1>4, <2>1 DEF LosesAssoc, Fields, TurnMoves, Placed, Busy, In, Idle,
          Sends, Receives, Owner, Active, TurnDrops, Loses
<1>5. CASE StaysPut(s)
  <2>1. TurnMoves(s, "none", "none")
    BY <1>5, TurnsMove DEF StaysPut
  <2> QED BY <1>5, <2>1 DEF StaysPut, Untouched, SameTurn, TurnMoves, Placed, Busy, In,
          Idle, Sends, Receives, Owner, Active
<1>6. CASE AsksTurn(s)
  <2>1. \E c \in {"DT", "PT"} : TurnMoves(s, c, "none")
    BY <1>6, TurnsMove DEF AsksTurn
  <2>2. TurnMoves(s, "none", "none")
    BY <2>1, OtherCodes
  <2> QED BY <1>6, <2>2 DEF AsksTurn, TurnMoves, Placed, Busy, In, Idle, Sends,
          Receives, Owner, Active
<1>7. CASE GivesTurn(s)
  <2>1. TurnMoves(s, "GTC", "none")
    BY <1>7, TurnsMove DEF GivesTurn
  <2> QED BY <1>7, <2>1 DEF GivesTurn, Steady, Fields, ssapPsig, Has, TurnMoves, Placed,
          Busy, In, Idle, Sends, Receives, Owner, Active
<1>8. CASE StartsActivity(s)
  <2>1. TurnMoves(s, "AS", "none")
    BY <1>8, TurnsMove DEF StartsActivity
  <2> QED BY <1>8, <2>1 DEF StartsActivity, Steady, Fields, TurnMoves, Placed, Busy, In,
          Idle, Sends, Receives, Owner, Active
<1>9. CASE SendsPart(s)
  <2>1. \E c \in {"DT", "PT"} : TurnMoves(s, c, "none")
    BY <1>9, TurnsMove DEF SendsPart
  <2>2. TurnMoves(s, "none", "none")
    BY <2>1, OtherCodes
  <2> QED BY <1>9, <2>2 DEF SendsPart, TurnMoves, Placed, Busy, In, Idle, Sends,
          Receives, Owner, Active
<1>10. CASE SendsCheckpoint(s)
  <2>1. \E c \in {"MIP"} : TurnMoves(s, c, "none")
    BY <1>10, TurnsMove DEF SendsCheckpoint
  <2>2. TurnMoves(s, "none", "none")
    BY <2>1, OtherCodes
  <2> QED BY <1>10, <2>2 DEF SendsCheckpoint, Steady, TurnMoves, Placed, Busy, In, Idle,
          Sends, Receives, Owner, Active
<1>11. CASE EndsActivity(s)
  <2>1. TurnMoves(s, "MAP", "none")
    BY <1>11, TurnsMove DEF EndsActivity
  <2> QED BY <1>11, <2>1 DEF EndsActivity, Steady, Fields, TurnMoves, Placed, Busy, In,
          Idle, Sends, Receives, Owner, Active
<1>12. CASE InterruptsActivity(s)
  <2>1. \E c \in {"AI", "AD"} : TurnMoves(s, c, "none")
    BY <1>12, TurnsMove DEF InterruptsActivity
  <2>2. TurnMoves(s, "none", "none")
    BY <2>1, OtherCodes
  <2> QED BY <1>12, <2>2 DEF InterruptsActivity, Steady, SameTurn, TurnMoves, Placed,
          Busy, In, Idle, Sends, Receives, Owner, Active
<1>13. CASE ReportsProblem(s)
  <2>1. TurnMoves(s, "ED", "none")
    BY <1>13, TurnsMove DEF ReportsProblem
  <2> QED BY <1>13, <2>1 DEF ReportsProblem, Steady, Fields, TurnMoves, Placed, Busy,
          In, Idle, Sends, Receives, Owner, Active
<1>14. CASE NotesIndication(s)
  <2>1. TurnMoves(s, "none", "none")
    BY <1>14, TurnsMove DEF NotesIndication
  <2> QED BY <1>14, <2>1 DEF NotesIndication, Untouched, SameTurn, TurnMoves, Placed,
          Busy, In, Idle, Sends, Receives, Owner, Active
<1>15. CASE GainsTurn(s)
  <2>1. TurnMoves(s, "none", "none")
    BY <1>15, TurnsMove DEF GainsTurn
  <2> QED BY <1>15, <2>1 DEF GainsTurn, Untouched, TurnMoves, Placed, Busy, In, Idle,
          Sends, Receives, Owner, Active
<1>16. CASE ConfirmsCheckpoint(s)
  <2>1. \E c \in {"MIA"} : TurnMoves(s, c, "none")
    BY <1>16, TurnsMove DEF ConfirmsCheckpoint
  <2>2. TurnMoves(s, "none", "none")
    BY <2>1, OtherCodes
  <2> QED BY <1>16, <2>2 DEF ConfirmsCheckpoint, Steady, Fields, TurnMoves, Placed,
          Busy, In, Idle, Sends, Receives, Owner, Active
<1>17. CASE OpensActivity(s)
  <2>1. TurnMoves(s, "none", "none")
    BY <1>17, TurnsMove DEF OpensActivity
  <2> QED BY <1>17, <2>1 DEF OpensActivity, Untouched, Fields, TurnMoves, Placed, Busy,
          In, Idle, Sends, Receives, Owner, Active
<1>18. CASE AcceptsDiscard(s)
  <2>1. TurnMoves(s, "AIA", "none")
    BY <1>18, TurnsMove DEF AcceptsDiscard
  <2> QED BY <1>18, <2>1 DEF AcceptsDiscard, Steady, Fields, ssapAsig, Has, TurnMoves,
          Placed, Busy, In, Idle, Sends, Receives, Owner, Active
<1>19. CASE ClosesActivity(s)
  <2>1. TurnMoves(s, "none", "none")
    BY <1>19, TurnsMove DEF ClosesActivity
  <2> QED BY <1>19, <2>1 DEF ClosesActivity, Untouched, Fields, TurnMoves, Placed, Busy,
          In, Idle, Sends, Receives, Owner, Active
<1>20. CASE AcceptsEnd(s)
  <2>1. TurnMoves(s, "MAA", "none")
    BY <1>20, TurnsMove DEF AcceptsEnd
  <2> QED BY <1>20, <2>1 DEF AcceptsEnd, Steady, Fields, ActivityAfterMajor, ssapPsig,
          Has, TurnMoves, Placed, Busy, In, Idle, Sends, Receives, Owner, Active
<1>21. CASE AsksRelease(s)
  <2>1. TurnMoves(s, "FN", "none")
    BY <1>21, TurnsMove DEF AsksRelease
  <2> QED BY <1>21, <2>1 DEF AsksRelease, Fields, TurnMoves, Placed, Busy, In, Idle,
          Sends, Receives, Owner, Active
<1>22. CASE LeavesRelease(s)
  <2>1. TurnMoves(s, "DN", "none")
    BY <1>22, TurnsMove DEF LeavesRelease
  <2> QED BY <1>22, <2>1 DEF LeavesRelease, Fields, TurnMoves, Placed, Busy, In, Idle,
          Sends, Receives, Owner, Active
<1>23. CASE ReadsNext(s)
  <2>1. TurnMoves(s, "none", Head(net[s]).code)
    BY <1>23, TurnsMove DEF ReadsNext
  <2>2. acb'[s].ind = "start" => Begins(s) > 0
    BY <1>23, <2>1 DEF ReadsNext, Effect, IndicationOf, TurnMoves
  <2>3. acb'[s].ind \in {"disccnf", "endcnf"} => acb[s].pc = "gone" \/ In(s, "TURN")
    BY <1>23, <2>1 DEF ReadsNext, Effect, IndicationOf, TurnMoves
  <2>4. Turns(s)' <= Turns(s) /\ Begins(s)' <= Begins(s)
    BY <2>1 DEF TurnMoves
  <2> QED BY <1>23, <2>2, <2>3, <2>4 DEF ReadsNext, Effect, Placed, Busy, In, Sends, Receives,
            Owner, Active
<1> QED BY <1>4, <1>5, <1>6, <1>7, <1>8, <1>9, <1>10, <1>11, <1>12, <1>13, <1>14, <1>15,
           <1>16, <1>17, <1>18, <1>19, <1>20, <1>21, <1>22, <1>23 DEF Event

(* ... and of the other side: nothing but what it has to read.             *)
LEMMA OwnerTheirs ==
    ASSUME TransferInv, TransferInv', TurnInv, NEW s \in Side, Event(s), Frame(s)
    PROVE  Owner(Peer(s))'
<1> DEFINE p == Peer(s)
<1>1. p \in Side /\ Owner(p)
  BY PeerSide DEF TurnInv, Turning
<1>2. /\ Turns(p) \in Nat /\ Begins(p) \in Nat
      /\ Turns(p)' \in Nat /\ Begins(p)' \in Nat
  BY <1>1, TurnNumbers
<1>3. acb'[p] = acb[p] /\ sb'[p] = sb[p]
  BY OtherSide
<1>4. /\ Turns(p)' <= Turns(p) \/ Needs("ACTIVITY")
      /\ Begins(p)' <= Begins(p) \/ Needs("ACTIVITY")
  <2>1. CASE \E c \in Code : Puts(s, c) /\ (c \in {"GTC", "AS"} => Needs("ACTIVITY"))
    <3>1. PICK c \in Code : Puts(s, c) /\ (c \in {"GTC", "AS"} => Needs("ACTIVITY"))
      BY <2>1
    <3>2. TurnMoves(s, c, "none")
      BY <3>1, TurnsMove
    <3> QED BY <1>2, <3>1, <3>2 DEF TurnMoves, Bit
  <2>2. CASE Untouched \/ Gets(s)
    <3>1. \E h : TurnMoves(s, "none", h)
      BY <2>2, TurnsMove
    <3> QED BY <1>2, <3>1 DEF TurnMoves, Bit
  <2>3. CASE Loses(s)
    BY <1>2, <2>3, TurnsMove DEF TurnDrops
  <2> QED BY <2>1, <2>2, <2>3
          DEF Event, LosesAssoc, StaysPut, AsksTurn, GivesTurn, StartsActivity, SendsPart,
              SendsCheckpoint, EndsActivity, InterruptsActivity, ReportsProblem,
              NotesIndication, GainsTurn, ConfirmsCheckpoint, OpensActivity,
              AcceptsDiscard, ClosesActivity, AcceptsEnd, AsksRelease, LeavesRelease,
              ReadsNext, Code
<1> QED BY <1>1, <1>2, <1>3, <1>4 DEF Owner, In, Sends, Receives, Active


(* The turn stays in one place.                                            *)
LEMMA OneTurnMine ==
    ASSUME TransferInv, TransferInv', DeliveryInv, TurnInv, PrepInv, NEW s \in Side,
           Event(s), Frame(s)
    PROVE  OneTurn(s)'
<1> DEFINE p == Peer(s)
           rest == Bit(In(p, "TURN")) + Bit(acb[p].ind = "control")
<1>1. /\ p \in Side /\ (BothAlive <=> Alive(s) /\ Alive(p))
      /\ BothAlive' <=> acb'[s].pc # "gone" /\ Alive(p)
  BY DEF Frame, BothAlive, Alive, Peer, Side
<1>2. /\ Turns(s) \in Nat /\ Turns(p) \in Nat /\ rest \in Nat
      /\ Turns(s)' \in Nat /\ Turns(p)' \in Nat
  BY <1>1, TurnNumbers DEF Bit
<1>3. Alive(p) => ~Closed(sb[p])
  BY <1>1, SideInv DEF Placed, Alive, Closed
<1>4. /\ Bit(In(s, "TURN")) + Turns(s) + Bit(acb[s].ind = "control") + Turns(p) + rest <= 1
      /\ Alive(s) /\ Alive(p) =>
           Bit(In(s, "TURN")) + Turns(s) + Bit(acb[s].ind = "control") + Turns(p) + rest >= 1
  <2>1. OneTurn(s)
    BY DEF TurnInv, Turning
  <2> QED BY <1>1, <1>2, <2>1 DEF OneTurn, TurnAt, Bit
<1> SUFFICES
      /\ Bit("TURN" \in acb'[s].flags) + Turns(s)' + Bit(acb'[s].ind = "control")
            + Turns(p)' + rest <= 1
      /\ acb'[s].pc # "gone" /\ Alive(p) =>
           Bit("TURN" \in acb'[s].flags) + Turns(s)' + Bit(acb'[s].ind = "control")
             + Turns(p)' + rest >= 1
  BY <1>1, <1>2 DEF OneTurn, TurnAt, In, Bit, Frame
<1>p. acb[s].pc \in {"data", "ckpoint"} => acb[s].ind = "none"
  BY SideInv DEF Placed
<1> HIDE DEF rest
<1> USE <1>1, <1>2, <1>3, <1>4 DEF Bit, Alive
<1>5. CASE LosesAssoc(s)
  <2>1. TurnDrops(s)
    BY <1>5, TurnsMove DEF LosesAssoc
  <2> QED BY <1>5, <2>1 DEF LosesAssoc, Fields, TurnMoves, In, Idle, TurnDrops, Loses
<1>6. CASE StaysPut(s)
  <2>1. TurnMoves(s, "none", "none")
    BY <1>6, TurnsMove DEF StaysPut
  <2> QED BY <1>6, <2>1 DEF StaysPut, Untouched, SameTurn, TurnMoves, In, Idle
<1>7. CASE AsksTurn(s)
  <2>1. \E c \in {"DT", "PT"} : TurnMoves(s, c, "none")
    BY <1>7, TurnsMove DEF AsksTurn
  <2>2. TurnMoves(s, "none", "none")
    BY <2>1, OtherCodes
  <2> QED BY <1>7, <2>2 DEF AsksTurn, TurnMoves, In, Idle
<1>8. CASE GivesTurn(s)
  <2>1. TurnMoves(s, "GTC", "none")
    BY <1>8, TurnsMove DEF GivesTurn
  <2> QED BY <1>8, <2>1 DEF GivesTurn, Steady, Fields, ssapPsig, Has, TurnMoves, In,
          Idle
<1>9. CASE StartsActivity(s)
  <2>1. TurnMoves(s, "AS", "none")
    BY <1>9, TurnsMove DEF StartsActivity
  <2> QED BY <1>9, <2>1 DEF StartsActivity, Steady, Fields, TurnMoves, In, Idle
<1>10. CASE SendsPart(s)
  <2>1. \E c \in {"DT", "PT"} : TurnMoves(s, c, "none")
    BY <1>10, TurnsMove DEF SendsPart
  <2>2. TurnMoves(s, "none", "none")
    BY <2>1, OtherCodes
  <2> QED BY <1>p, <1>10, <2>2 DEF SendsPart, TurnMoves, In, Idle
<1>11. CASE SendsCheckpoint(s)
  <2>1. \E c \in {"MIP"} : TurnMoves(s, c, "none")
    BY <1>11, TurnsMove DEF SendsCheckpoint
  <2>2. TurnMoves(s, "none", "none")
    BY <2>1, OtherCodes
  <2> QED BY <1>p, <1>11, <2>2 DEF SendsCheckpoint, Steady, TurnMoves, In, Idle
<1>12. CASE EndsActivity(s)
  <2>1. TurnMoves(s, "MAP", "none")
    BY <1>12, TurnsMove DEF EndsActivity
  <2> QED BY <1>12, <2>1 DEF EndsActivity, Steady, Fields, TurnMoves, In, Idle
<1>13. CASE InterruptsActivity(s)
  <2>1. \E c \in {"AI", "AD"} : TurnMoves(s, c, "none")
    BY <1>13, TurnsMove DEF InterruptsActivity
  <2>2. TurnMoves(s, "none", "none")
    BY <2>1, OtherCodes
  <2> QED BY <1>13, <2>2 DEF InterruptsActivity, Steady, SameTurn, TurnMoves, In, Idle
<1>14. CASE ReportsProblem(s)
  <2>1. TurnMoves(s, "ED", "none")
    BY <1>14, TurnsMove DEF ReportsProblem
  <2> QED BY <1>14, <2>1 DEF ReportsProblem, Steady, Fields, TurnMoves, In, Idle
<1>15. CASE NotesIndication(s)
  <2>1. TurnMoves(s, "none", "none")
    BY <1>15, TurnsMove DEF NotesIndication
  <2> QED BY <1>15, <2>1 DEF NotesIndication, Untouched, SameTurn, TurnMoves, In, Idle
<1>16. CASE GainsTurn(s)
  <2>1. TurnMoves(s, "none", "none")
    BY <1>16, TurnsMove DEF GainsTurn
  <2> QED BY <1>16, <2>1 DEF GainsTurn, Untouched, TurnMoves, In, Idle
<1>17. CASE ConfirmsCheckpoint(s)
  <2>1. \E c \in {"MIA"} : TurnMoves(s, c, "none")
    BY <1>17, TurnsMove DEF ConfirmsCheckpoint
  <2>2. TurnMoves(s, "none", "none")
    BY <2>1, OtherCodes
  <2> QED BY <1>17, <2>2 DEF ConfirmsCheckpoint, Steady, Fields, TurnMoves, In, Idle
<1>18. CASE OpensActivity(s)
  <2>1. TurnMoves(s, "none", "none")
    BY <1>18, TurnsMove DEF OpensActivity
  <2> QED BY <1>18, <2>1 DEF OpensActivity, Untouched, Fields, TurnMoves, In, Idle
<1>19. CASE AcceptsDiscard(s)
  <2>1. TurnMoves(s, "AIA", "none")
    BY <1>19, TurnsMove DEF AcceptsDiscard
  <2> QED BY <1>19, <2>1 DEF AcceptsDiscard, Steady, Fields, ssapAsig, Has, TurnMoves,
          In, Idle
<1>20. CASE ClosesActivity(s)
  <2>1. TurnMoves(s, "none", "none")
    BY <1>20, TurnsMove DEF ClosesActivity
  <2> QED BY <1>20, <2>1 DEF ClosesActivity, Untouched, Fields, TurnMoves, In, Idle
<1>21. CASE AcceptsEnd(s)
  <2>1. TurnMoves(s, "MAA", "none")
    BY <1>21, TurnsMove DEF AcceptsEnd
  <2> QED BY <1>21, <2>1 DEF AcceptsEnd, Steady, Fields, ActivityAfterMajor, ssapPsig,
          Has, TurnMoves, In, Idle
<1>22. CASE AsksRelease(s)
  <2>1. TurnMoves(s, "FN", "none")
    BY <1>22, TurnsMove DEF AsksRelease
  <2> QED BY <1>22, <2>1 DEF AsksRelease, Fields, TurnMoves, In, Idle
<1>23. CASE LeavesRelease(s)
  <2>1. TurnMoves(s, "DN", "none")
    BY <1>23, TurnsMove DEF LeavesRelease
  <2> QED BY <1>23, <2>1 DEF LeavesRelease, Fields, TurnMoves, In, Idle
<1>24. CASE ReadsNext(s)
  <2>1. TurnMoves(s, "none", Head(net[s]).code)
    BY <1>24, TurnsMove DEF ReadsNext
  <2>2. acb'[s].ind = "control" => Head(net[s]).code = "GTC"
    BY <1>24 DEF ReadsNext, Effect, IndicationOf
  <2>3. BothAlive /\ Head(net[s]).code = "GTC" => acb'[s].ind = "control"
    BY <1>24, TurnArrives
  <2> QED BY <1>24, <2>1, <2>2, <2>3 DEF ReadsNext, TurnMoves, In
<1> QED BY <1>5, <1>6, <1>7, <1>8, <1>9, <1>10, <1>11, <1>12, <1>13, <1>14, <1>15, <1>16,
           <1>17, <1>18, <1>19, <1>20, <1>21, <1>22, <1>23, <1>24 DEF Event


(* The start and the end of an activity stay in order, and a turn that     *)
(* changes hands finds no activity.                                        *)
LEMMA ChainsKept ==
    ASSUME TransferInv, TransferInv', DeliveryInv, TurnInv, NEW s \in Side, Event(s),
           Frame(s), BothAlive'
    PROVE  /\ ActChain(s)' /\ ActChain(Peer(s))'
           /\ Changing(s)' /\ Changing(Peer(s))'
<1> DEFINE p == Peer(s)
<1>1. /\ p \in Side /\ Peer(p) = s
      /\ acb'[p] = acb[p] /\ acb[p].pc # "gone" /\ acb'[s].pc # "gone"
      /\ acb[s].pc # "gone" => BothAlive
  BY DEF Frame, BothAlive, Alive, Peer, Side
<1>2. sb'[p] = sb[p]
  BY OtherSide
<1>3. /\ Turns(s) \in Nat /\ Begins(s) \in Nat /\ Closings(s) \in Nat
      /\ Turns(s)' \in Nat /\ Begins(s)' \in Nat /\ Closings(s)' \in Nat
      /\ Turns(p) \in Nat /\ Begins(p) \in Nat /\ Closings(p) \in Nat
      /\ Turns(p)' \in Nat /\ Begins(p)' \in Nat /\ Closings(p)' \in Nat
  BY <1>1, TurnNumbers
<1>p. Placed(s) /\ Owner(s) /\ OneTurn(s) /\ "Vnextact" \notin sb[s].flags
  BY SideInv DEF TurnInv, Turning, Carried
<1>t. acb[s].ind \in {"discind", "endind"} => In(p, "TURN")
  BY <1>1, TurnOfActivity
<1>c. acb[s].pc # "gone" => /\ ActChain(s) /\ ActChain(p)
                            /\ Changing(s) /\ Changing(p)
  BY <1>1 DEF TurnInv, Turning
<1> DEFINE mine  == Bit("TURN" \in acb[s].flags) + Turns(s) + Bit(acb[s].ind = "control")
           other == Bit(In(p, "TURN")) + Turns(p) + Bit(acb[p].ind = "control")
<1>o. mine + other <= 1
  BY <1>p DEF OneTurn, TurnAt, In
<1>s. SUFFICES
        /\ Begins(p)' + Closings(s)' + Bit(Active(p) /\ "TURN" \in acb'[s].flags)
              <= Bit("Vact" \in sb'[s].flags /\ "TURN" \in acb'[s].flags)
        /\ Begins(s)' + Closings(p)' + Bit("Vact" \in sb'[s].flags /\ In(p, "TURN"))
              <= Bit(Active(p) /\ In(p, "TURN"))
        /\ Turns(s)' > 0 \/ acb'[s].ind = "control" \/ Turns(p)' > 0 \/ acb[p].ind = "control"
              => "Vact" \notin sb'[s].flags /\ ~Active(p)
  BY <1>1, <1>2, <1>s DEF ActChain, Changing, Active, In
<1> USE <1>1, <1>3, <1>p, <1>t, <1>c, <1>o DEF Bit
<1>4. CASE LosesAssoc(s)
  <2>1. TurnDrops(s)
    BY <1>4, TurnsMove DEF LosesAssoc
  <2> QED BY <1>4, <2>1 DEF LosesAssoc, Fields, TurnMoves, In, Idle, Active, Owner,
          Placed, Receives, Sends, ActChain, Changing, TurnDrops, Loses
<1>5. CASE StaysPut(s)
  <2>1. TurnMoves(s, "none", "none")
    BY <1>5, TurnsMove DEF StaysPut
  <2> QED BY <1>5, <2>1 DEF StaysPut, Untouched, SameTurn, TurnMoves, In, Idle, Active,
          Owner, Placed, Receives, Sends, ActChain, Changing
<1>6. CASE AsksTurn(s)
  <2>1. \E c \in {"DT", "PT"} : TurnMoves(s, c, "none")
    BY <1>6, TurnsMove DEF AsksTurn
  <2>2. TurnMoves(s, "none", "none")
    BY <2>1, OtherCodes
  <2> QED BY <1>6, <2>2 DEF AsksTurn, TurnMoves, In, Idle, Active, Owner, Placed,
          Receives, Sends, ActChain, Changing
<1>7. CASE GivesTurn(s)
  <2>1. TurnMoves(s, "GTC", "none")
    BY <1>7, TurnsMove DEF GivesTurn
  <2> QED BY <1>7, <2>1 DEF GivesTurn, Steady, Fields, ssapPsig, Has, TurnMoves, In,
          Idle, Active, Owner, Placed, Receives, Sends, ActChain, Changing
<1>8. CASE StartsActivity(s)
  <2>1. TurnMoves(s, "AS", "none")
    BY <1>8, TurnsMove DEF StartsActivity
  <2> QED BY <1>8, <2>1 DEF StartsActivity, Steady, Fields, TurnMoves, In, Idle, Active,
          Owner, Placed, Receives, Sends, ActChain, Changing
<1>9. CASE SendsPart(s)
  <2>1. \E c \in {"DT", "PT"} : TurnMoves(s, c, "none")
    BY <1>9, TurnsMove DEF SendsPart
  <2>2. TurnMoves(s, "none", "none")
    BY <2>1, OtherCodes
  <2> QED BY <1>9, <2>2 DEF SendsPart, TurnMoves, In, Idle, Active, Owner, Placed,
          Receives, Sends, ActChain, Changing
<1>10. CASE SendsCheckpoint(s)
  <2>1. \E c \in {"MIP"} : TurnMoves(s, c, "none")
    BY <1>10, TurnsMove DEF SendsCheckpoint
  <2>2. TurnMoves(s, "none", "none")
    BY <2>1, OtherCodes
  <2> QED BY <1>10, <2>2 DEF SendsCheckpoint, Steady, TurnMoves, In, Idle, Active,
          Owner, Placed, Receives, Sends, ActChain, Changing
<1>11. CASE EndsActivity(s)
  <2>1. TurnMoves(s, "MAP", "none")
    BY <1>11, TurnsMove DEF EndsActivity
  <2> QED BY <1>11, <2>1 DEF EndsActivity, Steady, Fields, TurnMoves, In, Idle, Active,
          Owner, Placed, Receives, Sends, ActChain, Changing
<1>12. CASE InterruptsActivity(s)
  <2>1. \E c \in {"AI", "AD"} : TurnMoves(s, c, "none")
    BY <1>12, TurnsMove DEF InterruptsActivity
  <2>2. TurnMoves(s, "none", "none")
    BY <2>1, OtherCodes
  <2> QED BY <1>12, <2>2 DEF InterruptsActivity, Steady, SameTurn, TurnMoves, In, Idle,
          Active, Owner, Placed, Receives, Sends, ActChain, Changing
<1>13. CASE ReportsProblem(s)
  <2>1. TurnMoves(s, "ED", "none")
    BY <1>13, TurnsMove DEF ReportsProblem
  <2> QED BY <1>13, <2>1 DEF ReportsProblem, Steady, Fields, TurnMoves, In, Idle,
          Active, Owner, Placed, Receives, Sends, ActChain, Changing
<1>14. CASE NotesIndication(s)
  <2>1. TurnMoves(s, "none", "none")
    BY <1>14, TurnsMove DEF NotesIndication
  <2> QED BY <1>14, <2>1 DEF NotesIndication, Untouched, SameTurn, TurnMoves, In, Idle,
          Active, Owner, Placed, Receives, Sends, ActChain, Changing
<1>15. CASE GainsTurn(s)
  <2>1. TurnMoves(s, "none", "none")
    BY <1>15, TurnsMove DEF GainsTurn
  <2> QED BY <1>15, <2>1 DEF GainsTurn, Untouched, TurnMoves, In, Idle, Active, Owner,
          Placed, Receives, Sends, ActChain, Changing
<1>16. CASE ConfirmsCheckpoint(s)
  <2>1. \E c \in {"MIA"} : TurnMoves(s, c, "none")
    BY <1>16, TurnsMove DEF ConfirmsCheckpoint
  <2>2. TurnMoves(s, "none", "none")
    BY <2>1, OtherCodes
  <2> QED BY <1>16, <2>2 DEF ConfirmsCheckpoint, Steady, Fields, TurnMoves, In, Idle,
          Active, Owner, Placed, Receives, Sends, ActChain, Changing
<1>17. CASE OpensActivity(s)
  <2>1. TurnMoves(s, "none", "none")
    BY <1>17, TurnsMove DEF OpensActivity
  <2> QED BY <1>17, <2>1 DEF OpensActivity, Untouched, Fields, TurnMoves, In, Idle,
          Active, Owner, Placed, Receives, Sends, ActChain, Changing
<1>18. CASE AcceptsDiscard(s)
  <2>1. TurnMoves(s, "AIA", "none")
    BY <1>18, TurnsMove DEF AcceptsDiscard
  <2> QED BY <1>18, <2>1 DEF AcceptsDiscard, Steady, Fields, ssapAsig, Has, TurnMoves,
          In, Idle, Active, Owner, Placed, Receives, Sends, ActChain, Changing
<1>19. CASE ClosesActivity(s)
  <2>1. TurnMoves(s, "none", "none")
    BY <1>19, TurnsMove DEF ClosesActivity
  <2> QED BY <1>19, <2>1 DEF ClosesActivity, Untouched, Fields, TurnMoves, In, Idle,
          Active, Owner, Placed, Receives, Sends, ActChain, Changing
<1>20. CASE AcceptsEnd(s)
  <2>1. TurnMoves(s, "MAA", "none")
    BY <1>20, TurnsMove DEF AcceptsEnd
  <2> QED BY <1>20, <2>1 DEF AcceptsEnd, Steady, Fields, ActivityAfterMajor, ssapPsig,
          Has, TurnMoves, In, Idle, Active, Owner, Placed, Receives, Sends, ActChain,
          Changing
<1>21. CASE AsksRelease(s)
  <2>1. TurnMoves(s, "FN", "none")
    BY <1>21, TurnsMove DEF AsksRelease
  <2> QED BY <1>21, <2>1 DEF AsksRelease, Fields, TurnMoves, In, Idle, Active, Owner,
          Placed, Receives, Sends, ActChain, Changing
<1>22. CASE LeavesRelease(s)
  <2>1. TurnMoves(s, "DN", "none")
    BY <1>22, TurnsMove DEF LeavesRelease
  <2> QED BY <1>22, <2>1 DEF LeavesRelease, Fields, TurnMoves, In, Idle, Active, Owner,
          Placed, Receives, Sends, ActChain, Changing
<1>23. CASE ReadsNext(s)
  <2>1. TurnMoves(s, "none", Head(net[s]).code)
    BY <1>23, TurnsMove DEF ReadsNext
  <2>2. /\ acb'[s].ind = "control" => Head(net[s]).code = "GTC"
        /\ acb'[s].ind = "start" => Head(net[s]).code = "AS"
        /\ acb'[s].ind = "disccnf" => Head(net[s]).code = "AIA"
        /\ acb'[s].ind = "endcnf" => Head(net[s]).code = "MAA"
    BY <1>23 DEF ReadsNext, Effect, IndicationOf
  <2>3. "Vact" \in sb'[s].flags <=>
             \/ Active(s) /\ acb'[s].ind # "disccnf"
                  /\ ~(acb'[s].ind = "endcnf" /\ Needs("ACTIVITY"))
             \/ acb'[s].ind = "start"
    BY <1>23 DEF ReadsNext, Effect, Active
  <2>4. acb'[s].flags = acb[s].flags /\ acb[s].ind = "none" /\ acb[s].pc # "gone"
    BY <1>23 DEF ReadsNext
  <2> QED BY <2>1, <2>2, <2>3, <2>4 DEF TurnMoves, In, ActChain, Changing
<1> QED BY <1>4, <1>5, <1>6, <1>7, <1>8, <1>9, <1>10, <1>11, <1>12, <1>13, <1>14, <1>15,
           <1>16, <1>17, <1>18, <1>19, <1>20, <1>21, <1>22, <1>23 DEF Event

-----------------------------------------------------------------------------
(* Both ends agree.                                                        *)

(* The invariant is inductive, given that preparations are announced.      *)
LEMMA TurnKept ==
    ASSUME TransferInv, DeliveryInv, PrepInv, TurnInv, [RoNext]_rovars
    PROVE  TurnInv'
<1>1. TransferInv'
  BY TransferKept
<1>2. CASE UNCHANGED rovars
  BY <1>2 DEF rovars, TurnInv, Turning, OneTurn, Owner, ActChain, Changing, TurnAt, Turns,
              Begins, Closings, Active, BothAlive, Alive, In, Sends, Receives
<1>3. CASE RoNext
  <2>1. PICK s \in Side : RoStep(s)
    BY <1>3 DEF RoNext, RoStep
  <2>2. Event(s) /\ Frame(s)
    BY <2>1, EveryStep
  <2>3. Owner(s)' /\ Owner(Peer(s))' /\ OneTurn(s)'
    BY <1>1, <2>2, OwnerKept, OwnerTheirs, OneTurnMine
  <2>4. OneTurn(Peer(s))'
    <3>1. Peer(s) \in Side /\ Peer(Peer(s)) = s
      BY DEF Peer, Side
    <3>2. /\ Bit(In(s, "TURN"))' \in Nat /\ Bit(acb'[s].ind = "control") \in Nat
          /\ Bit(In(Peer(s), "TURN"))' \in Nat /\ Bit(acb'[Peer(s)].ind = "control") \in Nat
          /\ Turns(s)' \in Nat /\ Turns(Peer(s))' \in Nat
      BY <1>1, <3>1, TurnNumbers DEF Bit
    <3> QED BY <2>3, <3>1, <3>2 DEF OneTurn, TurnAt
  <2>5. BothAlive' => /\ ActChain(s)' /\ ActChain(Peer(s))'
                      /\ Changing(s)' /\ Changing(Peer(s))'
    BY <1>1, <2>2, ChainsKept
  <2>6. Turning(s)' /\ Turning(Peer(s))'
    BY <2>3, <2>4, <2>5 DEF Turning
  <2>7. \A t \in Side : t = s \/ t = Peer(s)
    BY DEF Peer, Side
  <2> QED BY <2>6, <2>7 DEF TurnInv
<1> QED BY <1>2, <1>3

(* At first one side has the turn, and every token.                        *)
LEMMA TurnInit == RoInit => TurnInv
<1> SUFFICES ASSUME RoInit, NEW s \in Side PROVE Turning(s)
  BY DEF TurnInv
<1>1. PICK turn \in Side :
        /\ sb  = [t \in Side |-> newsblk(IF t = turn THEN Tokens ELSE {}, 0)]
        /\ acb = [t \in Side |-> NewAcb(IF t = turn THEN {"TURN"} ELSE {})]
  BY DEF RoInit, RtInit
<1>2. \A t \in Side :
         /\ sb[t].flags = {} /\ (t = turn => sb[t].owned = Tokens)
         /\ acb[t].pc = "user" /\ acb[t].ind = "none"
         /\ acb[t].flags = IF t = turn THEN {"TURN"} ELSE {}
  BY <1>1 DEF newsblk, NewAcb
<1>3. \A t \in Side : Turns(t) = 0 /\ Begins(t) = 0 /\ Closings(t) = 0
  BY TallyEmpty DEF RoInit, RtInit, Turns, Begins, Closings
<1>4. Peer(s) \in Side /\ Peer(s) # s /\ (turn = s \/ turn = Peer(s))
  BY DEF Peer, Side
<1> QED BY <1>2, <1>3, <1>4
        DEF Turning, OneTurn, Owner, ActChain, Changing, TurnAt, Active, In, Sends,
            Receives, Bit

(* The turn is in one place: at the side whose block says so, which then   *)
(* owns every token of the session, or on its way to the other as a GTC or *)
(* an indication still to be worked on (rtsap's ACS_TURN and the tokens of *)
(* sb_owned).  No GTC is lost, although the session provider discards what *)
(* arrives while it prepares.                                              *)
THEOREM TurnAlwaysInStep == RoSpec => []TurnInStep
<1>1. TransferInv /\ TurnInv => TurnInStep
  <2> SUFFICES ASSUME TransferInv, TurnInv PROVE TurnInStep
    OBVIOUS
  <2>1. "init" \in Side /\ "resp" \in Side /\ Peer("init") = "resp" /\ Side = {"init", "resp"}
    BY DEF Peer, Side
  <2>2. \A s \in Side : OneTurn(s) /\ Owner(s) /\ Turns(s) \in Nat
    BY TurnNumbers DEF TurnInv, Turning
  <2>3. \A s \in Side : Turns(s) = OnTheWay(s, "GTC")
    BY DEF Turns, Tally, Places, OnTheWay
  <2>4. \A s \in Side : In(s, "TURN") => sb[s].owned = Tokens
    BY <2>2 DEF Owner
  <2>5. /\ TurnAt("init") + TurnAt("resp") <= 1
        /\ BothAlive => TurnAt("init") + TurnAt("resp") >= 1
    BY <2>1, <2>2 DEF OneTurn
  <2>6. Turns("init") \in Nat /\ Turns("resp") \in Nat
    BY <2>1, <2>2
  <2>7. ~(In("init", "TURN") /\ In("resp", "TURN"))
    BY <2>5, <2>6 DEF TurnAt, Bit
  <2>8. BothAlive => \E s \in Side : In(s, "TURN") \/ Turns(s) > 0 \/ acb[s].ind = "control"
    <3>1. ASSUME BothAlive,
                 \A s \in Side : ~In(s, "TURN") /\ ~(Turns(s) > 0) /\ acb[s].ind # "control"
          PROVE  FALSE
      BY <2>1, <2>5, <2>6, <3>1 DEF TurnAt, Bit
    <3> QED BY <3>1
  <2> QED BY <2>3, <2>4, <2>7, <2>8 DEF TurnInStep
<1>2. TransferInv /\ DeliveryInv /\ TurnInv /\ PrepInv /\ [RoNext]_rovars
          => TransferInv' /\ DeliveryInv' /\ TurnInv'
  BY TransferKept, DeliveryKept, TurnKept
<1>3. RoInit => TransferInv /\ DeliveryInv /\ TurnInv
  BY TransferInit, DeliveryInit, TurnInit
<1>4. RoSpec => []PrepInv
  BY RoImplementsSession, PreparationAnnounced, PTL
<1> QED BY <1>1, <1>2, <1>3, <1>4, PTL DEF RoSpec

-----------------------------------------------------------------------------
(* Checkpoints.  The sender's V(M) numbers them; what the receiver has read *)
(* and what it has confirmed are behind it, and the window bounds how far.  *)

(* Checkpoints of s on their way, and confirmations of them.               *)
Mips(s)     == Tally(net[Peer(s)], "MIP")
Mias(s)     == Tally(net[s], "MIA")
Pending(s)  == Mips(s) + Bit(acb[Peer(s)].ind = "minorind")
Answered(s) == Mias(s) + Bit(acb[s].ind = "minorcnf")

(* Nothing is asked for after the end or the discard, nor confirmed after  *)
(* their answer.                                                           *)
Ordered(q) ==
    \A a, b : Pair(q, a, b) =>
        /\ a.code \in {"MAP", "AI", "AD"} => b.code # "MIP"
        /\ a.code \in {"MAA", "AIA"} => b.code # "MIA"

(* Checkpoints are part of a transfer, and over when it is.                *)
Tidy(s) ==
    /\ Pending(s) + Answered(s) > 0 => Sends(s)
    /\ Closings(s) > 0 \/ acb[s].ind \in {"endcnf", "disccnf"} => Pending(s) = 0
    /\ acb[s].ind \in {"endcnf", "disccnf"} => Mias(s) = 0
    /\ acb[Peer(s)].ind \in {"endind", "discind"} => Mips(s) = 0

Passing(s) == acb[s].pc \in {"data", "ckpoint", "window"}

(* The last checkpoint that is confirmed, or whose confirmation is being   *)
(* worked on, and the last one the receiver has read.                      *)
Acked(s) == IF assoc.ckpoint THEN acb[s].ack ELSE 0
Base(s)  == IF acb[s].ind = "minorcnf" THEN sb[s].V_A ELSE Acked(s)
HasRead(s) == sb[s].V_M - 1 - Bit(acb[s].ind = "minorind")
Top(s)   == sb[s].V_M - 1 - Pending(s)

Returning(s, a) == Bears(net[s], a) /\ a.code = "MIA"

(* The confirmations on their way are numbered between the two, upwards.   *)
Numbering(s) ==
    /\ acb[s].ind = "minorcnf" => sb[s].V_A > Acked(s)
    /\ Base(s) <= Top(s)
    /\ \A a : Returning(s, a) => Base(s) < a.ssn /\ a.ssn <= Top(s)
    /\ \A a, b : Pair(net[s], a, b) /\ a.code = "MIA" /\ b.code = "MIA" => a.ssn < b.ssn

(* The receiver, once it is in the activity, is not ahead of the sender    *)
(* and has confirmed no more than it has read.                             *)
Reached(s) ==
    Active(Peer(s)) =>
        /\ sb[Peer(s)].V_M + Mips(s) <= sb[s].V_M
        /\ Base(s) <= HasRead(Peer(s))
        /\ \A a : Returning(s, a) => a.ssn <= HasRead(Peer(s))

(* Nothing is confirmed before the receiver is.                            *)
Starting(s) == Begins(Peer(s)) > 0 => Acked(s) = 0 /\ Answered(s) = 0

(* The window, as the sender sees it.                                      *)
Limits(s) ==
    IF assoc.ckpoint
    THEN /\ acb[s].ssn = sb[s].V_M - 1
         /\ acb[s].ssn - acb[s].ack <= assoc.window + Bit(assoc.service = "ps")
         /\ acb[s].pc \in {"data", "ckpoint"} => ~WindowFull(acb[s])
    ELSE acb[s].pc = "data" /\ acb[s].left = 1 /\ sb[s].V_M = 1

Metered(s) == Numbering(s) /\ Reached(s) /\ Starting(s) /\ Limits(s)

Windowed(s) == Ordered(net[s]) /\ Tidy(s) /\ (Passing(s) => Metered(s))

WindowInv == BothAlive => \A s \in Side : Windowed(s)

Point == {"MIP", "MIA"}

(* Neither a checkpoint nor a confirmation has joined q.                   *)
NoNewPoint(q, r) ==
    /\ \A a : Bears(r, a) /\ a.code \in Point => Bears(q, a)
    /\ \A a, b : Pair(r, a, b) /\ Matters(a) /\ b.code \in Point => Pair(q, a, b)

(* s has neither sent nor taken one.                                       *)
NoPoints(s) ==
    /\ net'[s] = net[s] /\ NoNewPoint(net[Peer(s)], net'[Peer(s)])
    /\ Mips(s)' <= Mips(s) /\ Mias(Peer(s))' <= Mias(Peer(s))

(* These are numbers, before a step and after it.                          *)
LEMMA PointNumbers ==
    ASSUME NEW s \in Side
    PROVE  /\ TransferInv => /\ Mips(s) \in Nat /\ Mias(s) \in Nat /\ Pending(s) \in Nat
                             /\ Answered(s) \in Nat /\ acb[s].ack \in Int
                             /\ acb[s].ssn \in Int /\ sb[s].V_M \in Int /\ sb[s].V_A \in Int
                             /\ Base(s) \in Int /\ HasRead(s) \in Int /\ Top(s) \in Int
                             /\ Acked(s) \in Int /\ assoc.window \in Nat
                             /\ \A a : Bears(net[s], a) => a \in SpduSet /\ a.ssn \in Int
           /\ TransferInv' => /\ Mips(s)' \in Nat /\ Mias(s)' \in Nat /\ Pending(s)' \in Nat
                              /\ Answered(s)' \in Nat /\ acb'[s].ack \in Int
                              /\ acb'[s].ssn \in Int /\ sb'[s].V_M \in Int
                              /\ sb'[s].V_A \in Int /\ Base(s)' \in Int
                              /\ HasRead(s)' \in Int /\ Top(s)' \in Int /\ Acked(s)' \in Int
                              /\ assoc'.window \in Nat
                              /\ \A a : Bears(net'[s], a) => a \in SpduSet /\ a.ssn \in Int
<1>1. Peer(s) \in Side
  BY PeerSide
<1>2. ASSUME TransferInv
      PROVE  /\ Mips(s) \in Nat /\ Mias(s) \in Nat /\ Pending(s) \in Nat
             /\ Answered(s) \in Nat /\ acb[s].ack \in Int
             /\ acb[s].ssn \in Int /\ sb[s].V_M \in Int /\ sb[s].V_A \in Int
             /\ Base(s) \in Int /\ HasRead(s) \in Int /\ Top(s) \in Int
             /\ Acked(s) \in Int /\ assoc.window \in Nat
             /\ \A a : Bears(net[s], a) => a \in SpduSet /\ a.ssn \in Int
  <2>1. net[s] \in Seq(SpduSet) /\ net[Peer(s)] \in Seq(SpduSet)
    BY <1>1, <1>2 DEF TransferInv, TypeOK
  <2>2. Mips(s) \in Nat /\ Mias(s) \in Nat
    BY <2>1, TallyTyped DEF Mips, Mias
  <2>3. Pending(s) \in Nat /\ Answered(s) \in Nat
    BY <2>2 DEF Pending, Answered, Bit
  <2>4. acb[s].ack \in Int /\ acb[s].ssn \in Int /\ sb[s].V_M \in Int /\ sb[s].V_A \in Int
    BY <1>2, SideInv DEF Ssapblk
  <2>5. assoc.window \in Nat
    BY <1>2, WindowsAssumption DEF TransferInv, RtTypeOK, Association
  <2>6. \A a : Bears(net[s], a) => a \in SpduSet /\ a.ssn \in Int
    <3>1. \A a \in SpduSet : a.ssn \in Int
      BY DEF SpduSet, SpduShape
    <3> QED BY <2>1, <3>1 DEF Bears
  <2> QED BY <2>2, <2>3, <2>4, <2>5, <2>6 DEF Base, Acked, HasRead, Top, Bit
<1>3. ASSUME TransferInv'
      PROVE  /\ Mips(s)' \in Nat /\ Mias(s)' \in Nat /\ Pending(s)' \in Nat
             /\ Answered(s)' \in Nat /\ acb'[s].ack \in Int
             /\ acb'[s].ssn \in Int /\ sb'[s].V_M \in Int /\ sb'[s].V_A \in Int
             /\ Base(s)' \in Int /\ HasRead(s)' \in Int /\ Top(s)' \in Int
             /\ Acked(s)' \in Int /\ assoc'.window \in Nat
             /\ \A a : Bears(net'[s], a) => a \in SpduSet /\ a.ssn \in Int
  <2>1. net'[s] \in Seq(SpduSet) /\ net'[Peer(s)] \in Seq(SpduSet)
    BY <1>1, <1>3 DEF TransferInv, TypeOK
  <2>2. Mips(s)' \in Nat /\ Mias(s)' \in Nat
    BY <2>1, TallyTyped DEF Mips, Mias
  <2>3. Pending(s)' \in Nat /\ Answered(s)' \in Nat
    BY <2>2 DEF Pending, Answered, Bit
  <2>4. /\ acb'[s].ack \in Int /\ acb'[s].ssn \in Int
        /\ sb'[s].V_M \in Int /\ sb'[s].V_A \in Int
    BY <1>3 DEF TransferInv, TypeOK, RtTypeOK, assocblk, Ssapblk
  <2>5. assoc'.window \in Nat
    BY <1>3, WindowsAssumption DEF TransferInv, RtTypeOK, Association
  <2>6. \A a : Bears(net'[s], a) => a \in SpduSet /\ a.ssn \in Int
    <3>1. \A a \in SpduSet : a.ssn \in Int
      BY DEF SpduSet, SpduShape
    <3> QED BY <2>1, <3>1 DEF Bears
  <2> QED BY <2>2, <2>3, <2>4, <2>5, <2>6 DEF Base, Acked, HasRead, Top, Bit
<1> QED BY <1>2, <1>3

(* How the checkpoints move with what a step puts on the queues and takes. *)
LEMMA PointsMove ==
    ASSUME TransferInv, NEW s \in Side
    PROVE  /\ \A c : c \notin Point /\ Puts(s, c) => NoPoints(s)
           /\ Untouched => NoPoints(s)
           /\ Puts(s, "MIP") => /\ net'[s] = net[s]
                                /\ Mips(s)' <= Mips(s) + 1
                                /\ Mias(Peer(s))' <= Mias(Peer(s))
           /\ Puts(s, "MIA") => /\ net'[s] = net[s]
                                /\ Mips(s)' <= Mips(s)
                                /\ Mias(Peer(s))' <= Mias(Peer(s)) + 1
           /\ Gets(s) => /\ net[s] # <<>> /\ net'[s] = Tail(net[s])
                         /\ NoNewPoint(net[Peer(s)], net'[Peer(s)])
                         /\ Mips(s)' <= Mips(s) /\ Mias(Peer(s))' <= Mias(Peer(s))
                         /\ Mips(Peer(s))' = Mips(Peer(s)) - Bit(Head(net[s]).code = "MIP")
                         /\ Mias(s)' = Mias(s) - Bit(Head(net[s]).code = "MIA")
<1> DEFINE p == Peer(s)
<1>1. p \in Side /\ Peer(p) = s
  BY DEF Peer, Side
<1>2. /\ Mips(s) = Tally(net[p], "MIP") /\ Mips(s)' = Tally(net'[p], "MIP")
      /\ Mias(s) = Tally(net[s], "MIA") /\ Mias(s)' = Tally(net'[s], "MIA")
      /\ Mips(p) = Tally(net[s], "MIP") /\ Mips(p)' = Tally(net'[s], "MIP")
      /\ Mias(p) = Tally(net[p], "MIA") /\ Mias(p)' = Tally(net'[p], "MIA")
  BY <1>1 DEF Mips, Mias
<1>3. /\ \A k : Tally(net[s], k) \in Nat /\ Tally(net[p], k) \in Nat
      /\ Point \subseteq Watched
  BY Numbers DEF Naturals, Point, Watched
<1>4. ASSUME NEW c, Puts(s, c)
      PROVE  /\ net'[s] = net[s]
             /\ \A k \in Point : Tally(net'[p], k) <= Tally(net[p], k) + Bit(k = c)
             /\ \E m \in SpduSet : m.code = c /\ Enters(net[p], net'[p], m)
  BY <1>3, <1>4 DEF Puts
<1>5. ASSUME NEW c, c \notin Point, Puts(s, c) PROVE NoPoints(s)
  <2>1. PICK m \in SpduSet : m.code = c /\ Enters(net[p], net'[p], m)
    BY <1>4, <1>5
  <2>2. NoNewPoint(net[p], net'[p])
    <3>1. \A a : a.code \in Point => Matters(a) /\ a # m
      BY <1>3, <1>5, <2>1 DEF Matters
    <3> QED BY <2>1, <3>1 DEF Enters, NoNewPoint
  <2>3. \A k \in Point : Bit(k = c) = 0
    BY <1>5 DEF Bit
  <2>4. Mips(s)' <= Mips(s) /\ Mias(p)' <= Mias(p)
    BY <1>2, <1>3, <1>4, <1>5, <2>3 DEF Point
  <2> QED BY <1>4, <1>5, <2>2, <2>4 DEF NoPoints
<1>6. Untouched => NoPoints(s)
  BY <1>2, <1>3 DEF Untouched, NoPoints, NoNewPoint
<1>7. ASSUME Puts(s, "MIP")
      PROVE  /\ net'[s] = net[s] /\ Mips(s)' <= Mips(s) + 1
             /\ Mias(p)' <= Mias(p)
  BY <1>2, <1>3, <1>4, <1>7 DEF Point, Bit
<1>8. ASSUME Puts(s, "MIA")
      PROVE  /\ net'[s] = net[s] /\ Mips(s)' <= Mips(s)
             /\ Mias(p)' <= Mias(p) + 1
  BY <1>2, <1>3, <1>4, <1>8 DEF Point, Bit
<1>9. ASSUME Gets(s)
      PROVE  /\ net[s] # <<>> /\ net'[s] = Tail(net[s])
             /\ NoNewPoint(net[p], net'[p])
             /\ Mips(s)' <= Mips(s) /\ Mias(p)' <= Mias(p)
             /\ Mips(p)' = Mips(p) - Bit(Head(net[s]).code = "MIP")
             /\ Mias(s)' = Mias(s) - Bit(Head(net[s]).code = "MIA")
  <2>1. Follows(net[p], net'[p])
    BY <1>9 DEF Gets
  <2>2. NoNewPoint(net[p], net'[p])
    BY <1>3, <2>1 DEF Follows, NoNewPoint, Matters
  <2> QED BY <1>2, <1>3, <1>9, <2>2 DEF Gets, Point
<1> QED BY <1>5, <1>6, <1>7, <1>8, <1>9

(* What the other events leave of what checkpoints depend on.              *)
Pointless(s) ==
    /\ NoPoints(s) /\ acb'[s].ind \in {"none", acb[s].ind}
    /\ Sends(s) => Sends(s)' \/ acb[s].ind \in {"disccnf", "endcnf"}
    /\ \/ Closings(Peer(s))' <= Closings(Peer(s))
       \/ acb[s].ind \in {"endind", "discind"} /\ acb'[s].ind = "none"

(* Three events move checkpoints.                                          *)
LEMMA PointEvents ==
    ASSUME TransferInv, TransferInv', NEW s \in Side, Event(s), Frame(s), acb'[s].pc # "gone"
    PROVE  SendsCheckpoint(s) \/ ConfirmsCheckpoint(s) \/ ReadsNext(s) \/ Pointless(s)
<1>1. /\ Peer(s) \in Side
      /\ Closings(Peer(s)) \in Nat /\ Closings(Peer(s))' \in Nat
  BY PeerSide, TurnNumbers
<1>2. ASSUME NEW c, c \notin Point, Puts(s, c)
      PROVE  /\ NoPoints(s)
             /\ c \notin {"MAA", "AIA"} => Closings(Peer(s))' <= Closings(Peer(s))
  BY <1>1, <1>2, PointsMove, TurnsMove DEF TurnMoves, Bit
<1>3. Untouched => NoPoints(s) /\ Closings(Peer(s))' <= Closings(Peer(s))
  BY <1>1, PointsMove, TurnsMove DEF TurnMoves, Bit
<1>4. CASE StaysPut(s) \/ NotesIndication(s) \/ GainsTurn(s) \/ OpensActivity(s)
           \/ ClosesActivity(s)
  <2>1. Untouched
    BY <1>4 DEF StaysPut, NotesIndication, GainsTurn, OpensActivity, ClosesActivity
  <2>2. acb'[s].ind \in {"none", acb[s].ind}
    BY <1>4 DEF StaysPut, NotesIndication, GainsTurn, OpensActivity, ClosesActivity, Fields
  <2>3. Sends(s) => Sends(s)' \/ acb[s].ind \in {"disccnf", "endcnf"}
    BY <1>4 DEF StaysPut, NotesIndication, GainsTurn, OpensActivity, ClosesActivity,
                SameTurn, Sends, In
  <2> QED BY <1>3, <2>1, <2>2, <2>3 DEF Pointless
<1>5. CASE AsksTurn(s) \/ SendsPart(s)
  <2>1. PICK c \in {"DT", "PT"} : Puts(s, c)
    BY <1>5 DEF AsksTurn, SendsPart
  <2>2. NoPoints(s) /\ Closings(Peer(s))' <= Closings(Peer(s))
    BY <1>2, <2>1 DEF Point
  <2>3. acb'[s].flags = acb[s].flags /\ acb'[s].ind \in {"none", acb[s].ind}
    BY <1>5 DEF AsksTurn, SendsPart
  <2> QED BY <2>2, <2>3 DEF Pointless, Sends, In
<1>6. CASE GivesTurn(s) \/ StartsActivity(s) \/ EndsActivity(s) \/ InterruptsActivity(s)
           \/ ReportsProblem(s) \/ AsksRelease(s)
  <2>1. PICK c \in {"GTC", "AS", "MAP", "AI", "AD", "ED", "FN"} : Puts(s, c)
    BY <1>6 DEF GivesTurn, StartsActivity, EndsActivity, InterruptsActivity,
                ReportsProblem, AsksRelease
  <2>2. NoPoints(s) /\ Closings(Peer(s))' <= Closings(Peer(s))
    BY <1>2, <2>1 DEF Point
  <2>3. acb'[s].ind = "none"
    BY <1>6 DEF GivesTurn, StartsActivity, EndsActivity, InterruptsActivity,
                ReportsProblem, AsksRelease, Fields
  <2>4. Sends(s) => Sends(s)'
    BY <1>6 DEF GivesTurn, StartsActivity, EndsActivity, InterruptsActivity,
                ReportsProblem, AsksRelease, SameTurn, Sends, In
  <2> QED BY <2>2, <2>3, <2>4 DEF Pointless
<1>7. CASE AcceptsDiscard(s) \/ AcceptsEnd(s)
  <2>1. PICK c \in {"MAA", "AIA"} : Puts(s, c)
    BY <1>7 DEF AcceptsDiscard, AcceptsEnd
  <2>2. NoPoints(s)
    BY <1>2, <2>1 DEF Point
  <2>3. /\ acb'[s].ind = "none" /\ acb[s].ind \in {"endind", "discind"} /\ ~Sends(s)
    BY <1>7 DEF AcceptsDiscard, AcceptsEnd, Fields, Receives, Sends
  <2> QED BY <2>2, <2>3 DEF Pointless
<1>8. CASE LosesAssoc(s) \/ LeavesRelease(s)
  BY <1>8 DEF LosesAssoc, LeavesRelease, Fields
<1> QED BY <1>4, <1>5, <1>6, <1>7, <1>8 DEF Event

(* What is known before a step that leaves both associations.              *)
LEMMA WindowScene ==
    ASSUME TransferInv, TransferInv', DeliveryInv, TurnInv, WindowInv, NEW s \in Side,
           Event(s), Frame(s), BothAlive'
    PROVE  /\ BothAlive /\ acb'[s].pc # "gone"
           /\ Peer(s) \in Side /\ Peer(s) # s /\ Peer(Peer(s)) = s
           /\ acb'[Peer(s)] = acb[Peer(s)] /\ sb'[Peer(s)] = sb[Peer(s)] /\ assoc' = assoc
           /\ \A t \in Side :
                /\ acb[t].pc # "gone" /\ Windowed(t) /\ Placed(t) /\ Busy(t)
                /\ EndChain(t) /\ DiscChain(t) /\ Owner(t) /\ OneTurn(t) /\ ActChain(t)
           /\ \/ SendsCheckpoint(s) \/ ConfirmsCheckpoint(s) \/ ReadsNext(s)
              \/ Pointless(s)
<1>1. /\ Peer(s) \in Side /\ Peer(s) # s /\ Peer(Peer(s)) = s
      /\ \A t \in Side : t = s \/ t = Peer(s)
      /\ acb'[Peer(s)] = acb[Peer(s)] /\ assoc' = assoc
  BY DEF Frame, Peer, Side
<1>2. sb'[Peer(s)] = sb[Peer(s)]
  BY OtherSide
<1>3. acb'[s].pc # "gone" /\ acb'[Peer(s)].pc # "gone"
  BY <1>1 DEF BothAlive, Alive
<1>4. Placed(s)
  BY SideInv
<1>5. acb[s].pc # "gone"
  BY <1>3, <1>4
     DEF Event, LosesAssoc, StaysPut, AsksTurn, GivesTurn, StartsActivity, SendsPart,
         SendsCheckpoint, EndsActivity, InterruptsActivity, ReportsProblem,
         NotesIndication, GainsTurn, ConfirmsCheckpoint, OpensActivity, AcceptsDiscard,
         ClosesActivity, AcceptsEnd, AsksRelease, LeavesRelease, ReadsNext, Fields, Idle,
         Placed
<1>6. BothAlive
  BY <1>1, <1>3, <1>5 DEF BothAlive, Alive
<1>7. \A t \in Side :
         /\ acb[t].pc # "gone" /\ Windowed(t) /\ Placed(t) /\ Busy(t)
         /\ EndChain(t) /\ DiscChain(t) /\ Owner(t) /\ OneTurn(t) /\ ActChain(t)
  BY <1>6, SideInv
     DEF BothAlive, Alive, WindowInv, DeliveryInv, Delivering, TurnInv, Turning
<1>8. \/ SendsCheckpoint(s) \/ ConfirmsCheckpoint(s) \/ ReadsNext(s) \/ Pointless(s)
  BY <1>3, PointEvents
<1> QED BY <1>1, <1>2, <1>3, <1>6, <1>7, <1>8

(* What may join a queue in order.                                         *)
LEMMA OrderedEnters ==
    ASSUME NEW q, NEW r, NEW m, Ordered(q), Enters(q, r, m),
           m.code = "MIP" => \A a : Bears(q, a) => a.code \notin {"MAP", "AI", "AD"},
           m.code = "MIA" => \A a : Bears(q, a) => a.code \notin {"MAA", "AIA"}
    PROVE  Ordered(r)
<1> SUFFICES ASSUME NEW a, NEW b, Pair(r, a, b)
             PROVE  /\ a.code \in {"MAP", "AI", "AD"} => b.code # "MIP"
                    /\ a.code \in {"MAA", "AIA"} => b.code # "MIA"
  BY DEF Ordered
<1>1. CASE a.code \in {"MAP", "AI", "AD", "MAA", "AIA"} /\ b.code \in {"MIP", "MIA"}
  <2>1. Matters(a) /\ Matters(b)
    BY <1>1 DEF Matters, Watched
  <2>2. Pair(q, a, b) \/ (Bears(q, a) /\ b = m)
    BY <2>1 DEF Enters
  <2> QED BY <2>2 DEF Ordered
<1> QED BY <1>1

(* Nothing that ends a transfer is under way.                              *)
LEMMA NoClosing ==
    ASSUME TransferInv, NEW s \in Side, Ends(s) + Confirmed(s) <= 0, Halts(s) <= 0
    PROVE  /\ Tally(net[Peer(s)], "MAP") = 0 /\ Tally(net[Peer(s)], "AI") = 0
           /\ Tally(net[Peer(s)], "AD") = 0 /\ Closings(s) = 0
           /\ acb[Peer(s)].ind \notin {"endind", "discind"}
<1> DEFINE p == Peer(s)
<1> DEFINE ends == Tally(net[p], "MAP")   ai == Tally(net[p], "AI")
           ad == Tally(net[p], "AD")      aia == Tally(net[s], "AIA")
           maa == Tally(net[s], "MAA")
<1>1. /\ ends \in Nat /\ ai \in Nat /\ ad \in Nat /\ aia \in Nat /\ maa \in Nat
      /\ Ends(s) \in Nat /\ Confirmed(s) \in Nat /\ Halts(s) \in Nat
  BY Numbers DEF Naturals
<1>2. /\ Ends(s) = ends + Bit(acb[p].ind = "endind")
      /\ Confirmed(s) = maa + Bit(acb[s].ind = "endcnf")
      /\ Halts(s) = ai + ad + Bit(acb[p].ind = "discind") + aia
      /\ Closings(s) = maa + aia
  BY DEF Ends, Halts, Confirmed, Closings
<1> SUFFICES ends = 0 /\ ai = 0 /\ ad = 0 /\ Closings(s) = 0
                /\ acb[p].ind \notin {"endind", "discind"}
  OBVIOUS
<1> HIDE DEF ends, ai, ad, aia, maa
<1> QED BY <1>1, <1>2 DEF Bit

(* Checkpoints and confirmations do not get behind what ends a transfer.   *)
LEMMA OrderedKept ==
    ASSUME TransferInv, TransferInv', DeliveryInv, TurnInv, WindowInv, NEW s \in Side,
           Event(s), Frame(s), BothAlive'
    PROVE  Ordered(net'[s]) /\ Ordered(net'[Peer(s)])
<1> DEFINE p == Peer(s)
<1>1. /\ p \in Side /\ Peer(p) = s
      /\ Ordered(net[s]) /\ Ordered(net[p]) /\ Tidy(p) /\ EndChain(s) /\ DiscChain(s)
      /\ acb[s].pc # "gone"
  BY WindowScene DEF Windowed
<1>2. /\ \A k : Tally(net[p], k) \in Nat /\ Tally(net[s], k) \in Nat
      /\ Ends(s) \in Nat /\ Confirmed(s) \in Nat /\ Halts(s) \in Nat
      /\ net[s] \in Seq(SpduSet) /\ net[p] \in Seq(SpduSet)
  BY <1>1, Numbers DEF Naturals, TransferInv, TypeOK
<1>3. ASSUME NoNewPoint(net[p], net'[p]) PROVE Ordered(net'[p])
  BY <1>1, <1>3 DEF NoNewPoint, Ordered, Point, Matters, Watched
<1>4. ASSUME net'[s] = Tail(net[s]), net[s] # <<>> PROVE Ordered(net'[s])
  BY <1>1, <1>2, <1>4, FollowsTail DEF Ordered
<1>5. CASE Pointless(s)
  BY <1>1, <1>3, <1>5 DEF Pointless, NoPoints
<1>6. CASE ReadsNext(s)
  BY <1>3, <1>4, <1>6, PointsMove DEF ReadsNext
<1>7. CASE SendsCheckpoint(s)
  <2>1. PICK m \in SpduSet : m.code = "MIP" /\ Enters(net[p], net'[p], m)
    BY <1>7 DEF SendsCheckpoint, Puts
  <2>2. Ends(s) + Confirmed(s) <= 0 /\ Halts(s) <= 0
    BY <1>1, <1>7 DEF SendsCheckpoint, ssapPsig, Has, EndChain, DiscChain, Open, Bit
  <2>3. Tally(net[p], "MAP") = 0 /\ Tally(net[p], "AI") = 0 /\ Tally(net[p], "AD") = 0
    BY <2>2, NoClosing
  <2>4. \A a : Bears(net[p], a) => a.code \notin {"MAP", "AI", "AD"}
    BY <1>2, <2>3, TallyBears
  <2>5. net'[s] = net[s]
    BY <1>7 DEF SendsCheckpoint, Puts
  <2> QED BY <1>1, <2>1, <2>4, <2>5, OrderedEnters
<1>8. CASE ConfirmsCheckpoint(s)
  <2>1. PICK m \in SpduSet : m.code = "MIA" /\ Enters(net[p], net'[p], m)
    BY <1>8 DEF ConfirmsCheckpoint, Puts
  <2>2. Pending(p) > 0
    BY <1>1, <1>2, <1>8 DEF ConfirmsCheckpoint, Pending, Mips, Bit
  <2>3. Closings(p) = 0
    BY <1>1, <2>2, TurnNumbers DEF Tidy
  <2>4. Tally(net[p], "MAA") = 0 /\ Tally(net[p], "AIA") = 0
    BY <1>2, <2>3 DEF Closings
  <2>5. \A a : Bears(net[p], a) => a.code \notin {"MAA", "AIA"}
    BY <1>2, <2>4, TallyBears
  <2>6. net'[s] = net[s]
    BY <1>8 DEF ConfirmsCheckpoint, Puts
  <2> QED BY <1>1, <2>1, <2>5, <2>6, OrderedEnters
<1> QED BY <1>5, <1>6, <1>7, <1>8, WindowScene

(* What is read leaves none behind it of what must not follow it.          *)
LEMMA OrderedRead ==
    ASSUME NEW q \in Seq(SpduSet), q # <<>>, Ordered(q)
    PROVE  /\ Head(q).code \in {"MAP", "AI", "AD"} => Tally(Tail(q), "MIP") = 0
           /\ Head(q).code \in {"MAA", "AIA"} => Tally(Tail(q), "MIA") = 0
<1>1. Tail(q) \in Seq(SpduSet)
  OBVIOUS
<1>2. \A a : Bears(Tail(q), a) => Pair(q, Head(q), a)
  BY FollowsTail
<1> QED BY <1>1, <1>2, TallyBears DEF Ordered

(* How closings move with the events that move checkpoints.                *)
LEMMA ClosingsMove ==
    ASSUME TransferInv, NEW s \in Side
    PROVE  /\ SendsCheckpoint(s) \/ ConfirmsCheckpoint(s) =>
                /\ Closings(s)' = Closings(s) /\ Closings(Peer(s))' <= Closings(Peer(s))
           /\ ReadsNext(s) =>
                /\ Closings(s)' = Closings(s) - Bit(Head(net[s]).code \in {"MAA", "AIA"})
                /\ Closings(Peer(s))' <= Closings(Peer(s))
<1>1. Peer(s) \in Side
  BY PeerSide
<1>2. Closings(s) \in Nat /\ Closings(Peer(s)) \in Nat
  BY <1>1, TurnNumbers
<1>3. ASSUME SendsCheckpoint(s) \/ ConfirmsCheckpoint(s)
      PROVE  Closings(s)' = Closings(s) /\ Closings(Peer(s))' <= Closings(Peer(s))
  <2>1. PICK c \in {"MIP", "MIA"} : Puts(s, c)
    BY <1>3 DEF SendsCheckpoint, ConfirmsCheckpoint
  <2>2. TurnMoves(s, c, "none")
    BY <2>1, TurnsMove
  <2> QED BY <1>2, <2>2 DEF TurnMoves, Bit
<1>4. ASSUME ReadsNext(s)
      PROVE  /\ Closings(s)' = Closings(s) - Bit(Head(net[s]).code \in {"MAA", "AIA"})
             /\ Closings(Peer(s))' <= Closings(Peer(s))
  <2>1. TurnMoves(s, "none", Head(net[s]).code)
    BY <1>4, TurnsMove DEF ReadsNext
  <2> QED BY <1>2, <2>1 DEF TurnMoves, Bit
<1> QED BY <1>3, <1>4

(* A step of the side that sends the checkpoints keeps them in order.      *)
LEMMA TidyMine ==
    ASSUME TransferInv, TransferInv', DeliveryInv, TurnInv, WindowInv, NEW s \in Side,
           Event(s), Frame(s), BothAlive'
    PROVE  Tidy(s)'
<1> DEFINE p == Peer(s)
<1>1. /\ p \in Side /\ Peer(p) = s /\ acb'[p] = acb[p]
      /\ Tidy(s) /\ Ordered(net[s]) /\ EndChain(s) /\ DiscChain(s) /\ Placed(s) /\ Busy(s)
      /\ acb[s].pc # "gone"
  BY WindowScene DEF Windowed
<1>2. /\ Mips(s) \in Nat /\ Mias(s) \in Nat /\ Mips(s)' \in Nat /\ Mias(s)' \in Nat
      /\ Pending(s) \in Nat /\ Answered(s) \in Nat
      /\ Closings(s) \in Nat /\ Closings(s)' \in Nat
  BY PointNumbers, TurnNumbers
<1>3. /\ Pending(s) = Mips(s) + Bit(acb[p].ind = "minorind")
      /\ Pending(s)' = Mips(s)' + Bit(acb[p].ind = "minorind")
      /\ Answered(s) = Mias(s) + Bit(acb[s].ind = "minorcnf")
      /\ Answered(s)' = Mias(s)' + Bit(acb'[s].ind = "minorcnf")
  BY <1>1 DEF Pending, Answered
<1> SUFFICES
      /\ Pending(s)' + Answered(s)' > 0 => Sends(s)'
      /\ Closings(s)' > 0 \/ acb'[s].ind \in {"endcnf", "disccnf"} => Pending(s)' = 0
      /\ acb'[s].ind \in {"endcnf", "disccnf"} => Mias(s)' = 0
      /\ acb[p].ind \in {"endind", "discind"} => Mips(s)' = 0
  BY <1>1 DEF Tidy
<1>4. CASE Pointless(s)
  <2>1. net'[s] = net[s] /\ Mips(s)' <= Mips(s)
    BY <1>4 DEF Pointless, NoPoints
  <2>2. Mias(s)' = Mias(s) /\ Closings(s)' = Closings(s)
    BY <2>1 DEF Mias, Closings
  <2>3. /\ acb'[s].ind \in {"none", acb[s].ind}
        /\ Sends(s) => Sends(s)' \/ acb[s].ind \in {"disccnf", "endcnf"}
    BY <1>4 DEF Pointless
  <2>4. Pending(s)' <= Pending(s) /\ Answered(s)' <= Answered(s)
    BY <1>1, <1>2, <1>3, <2>1, <2>2, <2>3 DEF Bit
  <2>5. ASSUME Pending(s)' + Answered(s)' > 0 PROVE Sends(s)'
    <3>1. Pending(s) + Answered(s) > 0
      BY <1>2, <1>3, <2>4, <2>5 DEF Bit
    <3>2. CASE acb[s].ind \in {"disccnf", "endcnf"}
      BY <1>1, <1>2, <1>3, <3>1, <3>2 DEF Tidy, Bit
    <3> QED BY <1>1, <2>3, <3>1, <3>2 DEF Tidy
  <2>6. Pending(s) = 0 => Pending(s)' = 0
    BY <1>1, <1>2, <1>3, <2>4 DEF Bit
  <2> QED BY <1>1, <1>2, <2>1, <2>2, <2>3, <2>5, <2>6 DEF Tidy
<1>5. CASE SendsCheckpoint(s)
  <2>1. Mips(s)' <= Mips(s) + 1 /\ net'[s] = net[s]
    BY <1>5, PointsMove DEF SendsCheckpoint
  <2>2. Mias(s)' = Mias(s) /\ Closings(s)' = Closings(s)
    BY <2>1 DEF Mias, Closings
  <2>3. /\ acb[s].ind = "none" /\ acb'[s].ind = "none" /\ acb'[s].flags = acb[s].flags
        /\ Sends(s)
    BY <1>1, <1>5 DEF SendsCheckpoint, Placed, Busy
  <2>4. /\ Ends(s) + Confirmed(s) <= 0 /\ Halts(s) <= 0
    BY <1>1, <1>5 DEF SendsCheckpoint, ssapPsig, Has, EndChain, DiscChain, Open, Bit
  <2>5. Closings(s) = 0 /\ acb[p].ind \notin {"endind", "discind"}
    BY <2>4, NoClosing
  <2> QED BY <1>1, <1>2, <1>3, <2>2, <2>3, <2>5 DEF Sends, In
<1>6. CASE ConfirmsCheckpoint(s)
  <2>1. Mips(s)' <= Mips(s) /\ net'[s] = net[s]
    BY <1>6, PointsMove DEF ConfirmsCheckpoint
  <2>2. Mias(s)' = Mias(s)
    BY <2>1 DEF Mias
  <2>3. acb'[s].ind = "none" /\ ~Sends(s)
    BY <1>6 DEF ConfirmsCheckpoint, Fields, Receives, Sends
  <2> QED BY <1>1, <1>2, <1>3, <2>1, <2>2, <2>3 DEF Tidy, Bit
<1>7. CASE ReadsNext(s)
  <2>1. /\ Mips(s)' <= Mips(s) /\ net'[s] = Tail(net[s]) /\ net[s] # <<>>
        /\ Mias(s)' = Mias(s) - Bit(Head(net[s]).code = "MIA")
    BY <1>7, PointsMove DEF ReadsNext
  <2>2. Closings(s)' = Closings(s) - Bit(Head(net[s]).code \in {"MAA", "AIA"})
    BY <1>7, ClosingsMove
  <2>3. /\ acb'[s].ind = "minorcnf" => Head(net[s]).code = "MIA"
        /\ acb'[s].ind \in {"endcnf", "disccnf"} => Head(net[s]).code \in {"MAA", "AIA"}
    BY <1>7 DEF ReadsNext, Effect, IndicationOf
  <2>4. Head(net[s]).code \in {"MAA", "AIA"} => Mias(s)' = 0
    <3>1. net[s] \in Seq(SpduSet)
      BY DEF TransferInv, TypeOK
    <3> QED BY <1>1, <2>1, <3>1, OrderedRead DEF Mias
  <2>5. Sends(s) => Sends(s)'
    BY <1>7 DEF ReadsNext, Sends, In
  <2>p. acb[s].ind = "none" /\ (Head(net[s]).code = "MIA" => Mias(s)' = Mias(s) - 1)
    BY <1>7, <2>1 DEF ReadsNext, Bit
  <2>6. Pending(s)' <= Pending(s) /\ Answered(s)' <= Answered(s)
    BY <1>2, <1>3, <2>1, <2>3, <2>p DEF Bit
  <2>7. Pending(s)' + Answered(s)' > 0 => Sends(s)'
    <3>1. Pending(s)' \in Nat /\ Answered(s)' \in Nat
      BY <1>2, <1>3 DEF Bit
    <3>2. Pending(s)' + Answered(s)' > 0 => Pending(s) + Answered(s) > 0
      BY <1>2, <2>6, <3>1
    <3> QED BY <1>1, <2>5, <3>2 DEF Tidy
  <2>8. ASSUME Closings(s)' > 0 \/ acb'[s].ind \in {"endcnf", "disccnf"}
        PROVE  Pending(s)' = 0
    <3>1. Closings(s) > 0
      BY <1>2, <2>2, <2>3, <2>8 DEF Bit
    <3>2. Pending(s) = 0 /\ Pending(s)' \in Nat
      BY <1>1, <1>2, <1>3, <3>1 DEF Tidy, Bit
    <3> QED BY <2>6, <3>2
  <2>9. acb[p].ind \in {"endind", "discind"} => Mips(s)' = 0
    BY <1>1, <1>2, <2>1 DEF Tidy
  <2> QED BY <2>3, <2>4, <2>7, <2>8, <2>9
<1> QED BY <1>4, <1>5, <1>6, <1>7, WindowScene

(* A step of the side that confirms them does.                             *)
LEMMA TidyTheirs ==
    ASSUME TransferInv, TransferInv', DeliveryInv, TurnInv, WindowInv, NEW s \in Side,
           Event(s), Frame(s), BothAlive'
    PROVE  Tidy(Peer(s))'
<1> DEFINE p == Peer(s)
<1>1. /\ p \in Side /\ Peer(p) = s /\ acb'[p] = acb[p]
      /\ Tidy(p) /\ Ordered(net[s]) /\ Placed(s)
  BY WindowScene DEF Windowed
<1>2. /\ Mips(p) \in Nat /\ Mias(p) \in Nat /\ Mips(p)' \in Nat /\ Mias(p)' \in Nat
      /\ Pending(p) \in Nat /\ Answered(p) \in Nat
      /\ Closings(p) \in Nat /\ Closings(p)' \in Nat
  BY <1>1, PointNumbers, TurnNumbers
<1>3. /\ Pending(p) = Mips(p) + Bit(acb[s].ind = "minorind")
      /\ Pending(p)' = Mips(p)' + Bit(acb'[s].ind = "minorind")
      /\ Answered(p) = Mias(p) + Bit(acb[p].ind = "minorcnf")
      /\ Answered(p)' = Mias(p)' + Bit(acb[p].ind = "minorcnf")
      /\ Sends(p)' = Sends(p)
  BY <1>1 DEF Pending, Answered, Sends, In
<1>m. Mips(p) = Tally(net[s], "MIP") /\ Mips(p)' = Tally(net'[s], "MIP")
  BY <1>1 DEF Mips
<1> SUFFICES
      /\ Pending(p)' + Answered(p)' > 0 => Sends(p)
      /\ Closings(p)' > 0 \/ acb[p].ind \in {"endcnf", "disccnf"} => Pending(p)' = 0
      /\ acb[p].ind \in {"endcnf", "disccnf"} => Mias(p)' = 0
      /\ acb'[s].ind \in {"endind", "discind"} => Mips(p)' = 0
  BY <1>1, <1>3 DEF Tidy
<1>4. CASE Pointless(s)
  <2>1. net'[s] = net[s] /\ Mias(p)' <= Mias(p)
    BY <1>4 DEF Pointless, NoPoints
  <2>2. Mips(p)' = Mips(p)
    BY <1>m, <2>1
  <2>3. /\ acb'[s].ind \in {"none", acb[s].ind}
        /\ \/ Closings(p)' <= Closings(p)
           \/ acb[s].ind \in {"endind", "discind"} /\ acb'[s].ind = "none"
    BY <1>4 DEF Pointless
  <2> QED BY <1>1, <1>2, <1>3, <2>1, <2>2, <2>3 DEF Tidy, Bit
<1>5. CASE SendsCheckpoint(s)
  <2>1. Mias(p)' <= Mias(p) /\ net'[s] = net[s]
    BY <1>5, PointsMove DEF SendsCheckpoint
  <2>2. Mips(p)' = Mips(p) /\ Closings(p)' <= Closings(p)
    BY <1>5, <1>m, <2>1, ClosingsMove
  <2>3. acb[s].ind = "none" /\ acb'[s].ind = "none"
    BY <1>1, <1>5 DEF SendsCheckpoint, Placed
  <2> QED BY <1>1, <1>2, <1>3, <2>1, <2>2, <2>3 DEF Tidy, Bit
<1>6. CASE ConfirmsCheckpoint(s)
  <2>1. Mias(p)' <= Mias(p) + 1 /\ net'[s] = net[s]
    BY <1>6, PointsMove DEF ConfirmsCheckpoint
  <2>2. Mips(p)' = Mips(p) /\ Closings(p)' <= Closings(p)
    BY <1>6, <1>m, <2>1, ClosingsMove
  <2>3. acb[s].ind = "minorind" /\ acb'[s].ind = "none"
    BY <1>6 DEF ConfirmsCheckpoint, Fields
  <2>4. Pending(p) > 0
    BY <1>2, <1>3, <2>3 DEF Bit
  <2> QED BY <1>1, <1>2, <1>3, <2>1, <2>2, <2>3, <2>4 DEF Tidy, Bit
<1>7. CASE ReadsNext(s)
  <2>1. /\ Mias(p)' <= Mias(p) /\ net'[s] = Tail(net[s]) /\ net[s] # <<>>
        /\ Mips(p)' = Mips(p) - Bit(Head(net[s]).code = "MIP")
    BY <1>7, PointsMove DEF ReadsNext
  <2>2. Closings(p)' <= Closings(p)
    BY <1>7, ClosingsMove
  <2>3. /\ acb'[s].ind = "minorind" => Head(net[s]).code = "MIP"
        /\ acb'[s].ind \in {"endind", "discind"} => Head(net[s]).code \in {"MAP", "AI", "AD"}
        /\ acb[s].ind = "none"
    BY <1>7 DEF ReadsNext, Effect, IndicationOf
  <2>4. Head(net[s]).code \in {"MAP", "AI", "AD"} => Mips(p)' = 0
    <3>1. net[s] \in Seq(SpduSet)
      BY DEF TransferInv, TypeOK
    <3> QED BY <1>1, <1>m, <2>1, <3>1, OrderedRead
  <2> QED BY <1>1, <1>2, <1>3, <2>1, <2>2, <2>3, <2>4 DEF Tidy, Bit
<1> QED BY <1>4, <1>5, <1>6, <1>7, WindowScene

(* The checkpoints of t are confirmed as far as they were, and at least as *)
(* many have arrived; what is confirmed on the way is what was.            *)
Level(t) ==
    /\ assoc' = assoc /\ Base(t)' = Base(t) /\ Top(t) <= Top(t)'
    /\ acb'[t].ind = "minorcnf" => sb'[t].V_A > Acked(t)'
    /\ NoNewPoint(net[t], net'[t])
    /\ Begins(Peer(t))' > 0 =>
           Begins(Peer(t)) > 0 /\ Acked(t)' = Acked(t) /\ Answered(t)' <= Answered(t)

(* Its receiver has read no more than was sent, and forgets nothing.       *)
Apace(t) ==
    Active(Peer(t))' =>
        /\ Active(Peer(t))
        /\ sb'[Peer(t)].V_M + Mips(t)' - sb'[t].V_M
             <= sb[Peer(t)].V_M + Mips(t) - sb[t].V_M
        /\ HasRead(Peer(t)) <= HasRead(Peer(t))'

(* Then its confirmations are numbered as they were.                       *)
LEMMA LevelKeeps ==
    ASSUME TransferInv, TransferInv', NEW t \in Side, Metered(t), Level(t)
    PROVE  Numbering(t)' /\ Starting(t)' /\ (Apace(t) => Reached(t)')
<1> DEFINE q == Peer(t)
<1>1. q \in Side
  BY PeerSide
<1>2. /\ Base(t) \in Int /\ Top(t) \in Int /\ Base(t)' \in Int /\ Top(t)' \in Int
      /\ sb[t].V_M \in Int /\ sb'[t].V_M \in Int
      /\ Answered(t) \in Nat /\ Answered(t)' \in Nat /\ Mips(t) \in Nat /\ Mips(t)' \in Nat
      /\ HasRead(q) \in Int /\ HasRead(q)' \in Int
      /\ sb[q].V_M \in Int /\ sb'[q].V_M \in Int
      /\ \A a : Bears(net'[t], a) => a.ssn \in Int
  BY <1>1, PointNumbers
<1>3. Numbering(t) /\ Reached(t) /\ Starting(t)
  BY DEF Metered
<1>4. \A a : Returning(t, a)' => Returning(t, a)
  BY DEF Level, NoNewPoint, Returning, Point
<1>5. \A a, b : Pair(net'[t], a, b) /\ a.code = "MIA" /\ b.code = "MIA" => Pair(net[t], a, b)
  BY DEF Level, NoNewPoint, Matters, Watched, Point
<1>6. Top(t) <= Top(t)'
  BY DEF Level
<1>7. Numbering(t)'
  <2>1. Base(t)' <= Top(t)'
    BY <1>2, <1>3, <1>6 DEF Level, Numbering
  <2>2. ASSUME NEW a, Returning(t, a)' PROVE Base(t)' < a.ssn /\ a.ssn <= Top(t)'
    <3>1. Base(t) < a.ssn /\ a.ssn <= Top(t) /\ a.ssn \in Int
      BY <1>2, <1>3, <1>4, <2>2 DEF Numbering, Returning
    <3> QED BY <1>2, <1>6, <3>1 DEF Level
  <2>3. \A a, b : Pair(net'[t], a, b) /\ a.code = "MIA" /\ b.code = "MIA" => a.ssn < b.ssn
    BY <1>3, <1>5 DEF Numbering
  <2> QED BY <2>1, <2>2, <2>3 DEF Level, Numbering
<1>8. Starting(t)'
  BY <1>2, <1>3 DEF Level, Starting
<1>9. ASSUME Apace(t) PROVE Reached(t)'
  <2> SUFFICES ASSUME Active(q)'
               PROVE  /\ sb'[q].V_M + Mips(t)' <= sb'[t].V_M
                      /\ Base(t)' <= HasRead(q)'
                      /\ \A a : Returning(t, a)' => a.ssn <= HasRead(q)'
    BY DEF Reached
  <2>1. /\ sb[q].V_M + Mips(t) <= sb[t].V_M /\ Base(t) <= HasRead(q)
        /\ \A a : Returning(t, a) => a.ssn <= HasRead(q)
        /\ sb'[q].V_M + Mips(t)' - sb'[t].V_M <= sb[q].V_M + Mips(t) - sb[t].V_M
        /\ HasRead(q) <= HasRead(q)'
    BY <1>3, <1>9 DEF Apace, Reached
  <2>2. ASSUME NEW a, Returning(t, a)' PROVE a.ssn <= HasRead(q)'
    <3>1. a.ssn <= HasRead(q) /\ a.ssn \in Int
      BY <1>2, <1>4, <2>1, <2>2 DEF Returning
    <3> QED BY <1>2, <2>1, <3>1
  <2>3. sb'[q].V_M + Mips(t)' <= sb'[t].V_M /\ Base(t)' <= HasRead(q)'
    BY <1>2, <2>1 DEF Level
  <2> QED BY <2>2, <2>3
<1> QED BY <1>7, <1>8, <1>9

(* Where the turn is when a transfer is being sent: at its sender, and no  *)
(* end of an activity is on its way to it or from it.                      *)
LEMMA PassingTurn ==
    ASSUME TransferInv, NEW t \in Side, Passing(t), Busy(t), OneTurn(t), EndChain(t)
    PROVE  /\ In(t, "TURN") /\ ~In(Peer(t), "TURN") /\ acb[Peer(t)].ind # "control"
           /\ Turns(t) = 0 /\ Turns(Peer(t)) = 0
           /\ Tally(net[Peer(t)], "MAP") = 0 /\ acb[Peer(t)].ind # "endind"
<1> DEFINE q == Peer(t)
<1>1. q \in Side
  BY PeerSide
<1>2. In(t, "TURN")
  BY DEF Passing, Busy, Sends
<1>3. Turns(t) \in Nat /\ Turns(q) \in Nat
  BY <1>1, TurnNumbers
<1>4. TurnAt(t) + TurnAt(q) <= 1
  BY DEF OneTurn
<1>5. ~In(q, "TURN") /\ acb[q].ind # "control" /\ Turns(t) = 0 /\ Turns(q) = 0
  BY <1>2, <1>3, <1>4 DEF TurnAt, Bit
<1> DEFINE ends == Tally(net[q], "MAP")
<1>6. ends \in Nat /\ Confirmed(t) \in Nat /\ Ends(t) = ends + Bit(acb[q].ind = "endind")
  BY Numbers DEF Naturals, Ends
<1>7. Ends(t) + Confirmed(t) <= 0
  BY DEF EndChain, Open, Passing, Bit
<1> HIDE DEF ends
<1>8. ends = 0 /\ acb[q].ind # "endind"
  BY <1>6, <1>7 DEF Bit
<1> QED BY <1>2, <1>5, <1>8 DEF ends

(* The receiver of a transfer confirms the checkpoints it read, in order.  *)
LEMMA MeterTheirs ==
    ASSUME TransferInv, TransferInv', DeliveryInv, TurnInv, WindowInv, NEW s \in Side,
           Event(s), Frame(s), BothAlive', Passing(Peer(s))
    PROVE  Metered(Peer(s))'
<1> DEFINE p == Peer(s)
<1>1. /\ p \in Side /\ Peer(p) = s /\ acb'[p] = acb[p] /\ sb'[p] = sb[p] /\ assoc' = assoc
      /\ Metered(p) /\ Placed(s) /\ Busy(p) /\ OneTurn(p) /\ Owner(s)
      /\ EndChain(p) /\ ActChain(p) /\ acb'[s].pc # "gone"
  BY WindowScene DEF Windowed
<1>2. /\ Mips(p) \in Nat /\ Mias(p) \in Nat /\ Mips(p)' \in Nat /\ Mias(p)' \in Nat
      /\ Pending(p) \in Nat /\ Answered(p) \in Nat /\ Pending(p)' \in Nat
      /\ Base(p) \in Int /\ Top(p) \in Int /\ sb[p].V_M \in Int /\ sb[s].V_M \in Int
      /\ Begins(s) \in Nat /\ Begins(s)' \in Nat /\ Closings(p) \in Nat
      /\ HasRead(s) \in Int /\ HasRead(s)' \in Int /\ sb'[s].V_M \in Int
      /\ \A a : Bears(net[p], a) => a.ssn \in Int
  BY <1>1, PointNumbers, TurnNumbers
<1>3. /\ Pending(p) = Mips(p) + Bit(acb[s].ind = "minorind")
      /\ Pending(p)' = Mips(p)' + Bit(acb'[s].ind = "minorind")
      /\ Answered(p) = Mias(p) + Bit(acb[p].ind = "minorcnf")
      /\ Answered(p)' = Mias(p)' + Bit(acb[p].ind = "minorcnf")
      /\ HasRead(s) = sb[s].V_M - 1 - Bit(acb[s].ind = "minorind")
      /\ HasRead(s)' = sb'[s].V_M - 1 - Bit(acb'[s].ind = "minorind")
      /\ Base(p)' = Base(p) /\ Acked(p)' = Acked(p)
  BY <1>1 DEF Pending, Answered, HasRead, Base, Acked
<1>4. /\ In(p, "TURN") /\ ~In(s, "TURN") /\ acb[s].ind # "control"
      /\ Tally(net[s], "MAP") = 0 /\ acb[s].ind # "endind"
  BY <1>1, PassingTurn
<1>5. Limits(p)'
  BY <1>1 DEF Metered, Limits, WindowFull
<1>6. acb'[p].ind = "minorcnf" => sb'[p].V_A > Acked(p)'
  BY <1>1, <1>3 DEF Metered, Numbering
<1>7. \/ ConfirmsCheckpoint(s) \/ ReadsNext(s)
      \/ Active(s)' => Active(s) /\ sb'[s].V_M = sb[s].V_M
  <2>1. CASE StaysPut(s) \/ AsksTurn(s) \/ NotesIndication(s) \/ OpensActivity(s)
    BY <2>1 DEF StaysPut, AsksTurn, NotesIndication, OpensActivity, Untouched, Active
  <2>2. CASE ReportsProblem(s)
    BY <2>2 DEF ReportsProblem, Active
  <2>3. CASE AcceptsDiscard(s)
    BY <2>3 DEF AcceptsDiscard, Active
  <2>4. CASE AcceptsEnd(s)
    BY <1>4, <2>4 DEF AcceptsEnd
  <2>5. CASE GivesTurn(s) \/ StartsActivity(s) \/ AsksRelease(s) \/ GainsTurn(s)
             \/ ClosesActivity(s)
    BY <1>4, <2>5 DEF GivesTurn, StartsActivity, AsksRelease, GainsTurn, ClosesActivity,
                      Sends
  <2>6. CASE SendsPart(s) \/ SendsCheckpoint(s) \/ EndsActivity(s) \/ InterruptsActivity(s)
    <3>1. acb[s].pc \in {"data", "ckpoint", "done"} => In(s, "TURN")
      BY SideInv DEF Busy, Sends
    <3> QED BY <1>4, <2>6, <3>1
            DEF SendsPart, SendsCheckpoint, EndsActivity, InterruptsActivity
  <2>7. CASE LosesAssoc(s) \/ LeavesRelease(s)
    BY <1>1, <2>7 DEF LosesAssoc, LeavesRelease, Fields
  <2> QED BY <2>1, <2>2, <2>3, <2>4, <2>5, <2>6, <2>7 DEF Event
<1>8. CASE ConfirmsCheckpoint(s)
  <2>1. PICK m \in SpduSet : /\ m.code = "MIA" /\ m.ssn = sb[s].V_M - 1
                             /\ Enters(net[p], net'[p], m)
    BY <1>8 DEF ConfirmsCheckpoint
  <2>2. /\ acb[s].ind = "minorind" /\ acb'[s].ind = "none" /\ Receives(s)
        /\ net'[s] = net[s] /\ sb'[s].V_M = sb[s].V_M /\ sb'[s].flags = sb[s].flags
    BY <1>8 DEF ConfirmsCheckpoint, Fields, Puts
  <2>3. Mips(p)' = Mips(p) /\ Begins(s)' = Begins(s)
    BY <1>1, <2>2 DEF Mips, Begins
  <2>4. Active(s) /\ Active(s)'
    BY <1>1, <2>2 DEF Owner, Active
  <2>5. /\ sb[s].V_M + Mips(p) <= sb[p].V_M /\ Base(p) <= sb[s].V_M - 2
        /\ \A a : Returning(p, a) => a.ssn <= sb[s].V_M - 2
    BY <1>1, <1>2, <1>3, <2>2, <2>4 DEF Metered, Reached, Bit
  <2>6. \A a : Returning(p, a)' => Returning(p, a) \/ a = m
    BY <2>1 DEF Returning, Enters, Matters, Watched
  <2>7. \A a : Returning(p, a) => a.ssn \in Int /\ Base(p) < a.ssn
    BY <1>1, <1>2 DEF Returning, Metered, Numbering
  <2>8. Top(p)' = sb[p].V_M - 1 - Mips(p)
    BY <1>1, <1>2, <1>3, <2>2, <2>3 DEF Top, Bit
  <2>9. Numbering(p)'
    <3>1. Base(p)' <= Top(p)'
      BY <1>2, <1>3, <2>5, <2>8
    <3>2. ASSUME NEW a, Returning(p, a)' PROVE Base(p)' < a.ssn /\ a.ssn <= Top(p)'
      <4>1. CASE Returning(p, a)
        <5>1. a.ssn \in Int /\ Base(p) < a.ssn /\ a.ssn <= sb[s].V_M - 2
          BY <2>5, <2>7, <4>1
        <5> QED BY <1>2, <1>3, <2>5, <2>8, <5>1
      <4>2. CASE a = m
        BY <1>2, <1>3, <2>1, <2>5, <2>8, <4>2
      <4> QED BY <2>6, <3>2, <4>1, <4>2
    <3>3. ASSUME NEW a, NEW b, Pair(net'[p], a, b), a.code = "MIA", b.code = "MIA"
          PROVE  a.ssn < b.ssn
      <4>1. Pair(net[p], a, b) \/ (Bears(net[p], a) /\ b = m)
        BY <2>1, <3>3 DEF Enters, Matters, Watched
      <4>2. CASE Pair(net[p], a, b)
        BY <1>1, <3>3, <4>2 DEF Metered, Numbering
      <4>3. CASE Bears(net[p], a) /\ b = m
        <5>1. Returning(p, a)
          BY <3>3, <4>3 DEF Returning
        <5>2. a.ssn \in Int /\ a.ssn <= sb[s].V_M - 2
          BY <2>5, <2>7, <5>1
        <5> QED BY <1>2, <2>1, <4>3, <5>2
      <4> QED BY <4>1, <4>2, <4>3
    <3> QED BY <1>6, <3>1, <3>2, <3>3 DEF Numbering
  <2>10. Reached(p)'
    <3>1. HasRead(s)' = sb[s].V_M - 1
      BY <1>2, <1>3, <2>2 DEF Bit
    <3>2. ASSUME NEW a, Returning(p, a)' PROVE a.ssn <= HasRead(s)'
      <4>1. CASE Returning(p, a)
        <5>1. a.ssn \in Int /\ a.ssn <= sb[s].V_M - 2
          BY <2>5, <2>7, <4>1
        <5> QED BY <1>2, <3>1, <5>1
      <4>2. CASE a = m
        BY <1>2, <2>1, <3>1, <4>2
      <4> QED BY <2>6, <3>2, <4>1, <4>2
    <3>3. sb'[s].V_M + Mips(p)' <= sb'[p].V_M /\ Base(p)' <= HasRead(s)'
      BY <1>1, <1>2, <1>3, <2>2, <2>3, <2>5, <3>1
    <3> QED BY <1>1, <3>2, <3>3 DEF Reached
  <2>11. Starting(p)'
    <3>1. Begins(s)' = 0
      BY <1>1, <1>2, <1>4, <2>3, <2>4 DEF ActChain, Bit
    <3> QED BY <1>1, <3>1 DEF Starting
  <2> QED BY <1>5, <2>9, <2>10, <2>11 DEF Metered
<1>9. CASE Pointless(s) /\ (Active(s)' => Active(s) /\ sb'[s].V_M = sb[s].V_M)
  <2>1. /\ net'[s] = net[s] /\ NoNewPoint(net[p], net'[p]) /\ Mias(p)' <= Mias(p)
        /\ acb'[s].ind \in {"none", acb[s].ind}
    BY <1>9 DEF Pointless, NoPoints
  <2>2. Mips(p)' = Mips(p) /\ Begins(s)' = Begins(s)
    BY <1>1, <2>1 DEF Mips, Begins
  <2>3. Bit(acb'[s].ind = "minorind") <= Bit(acb[s].ind = "minorind")
    BY <2>1 DEF Bit
  <2>4. Pending(p)' <= Pending(p) /\ Answered(p)' <= Answered(p)
    BY <1>2, <1>3, <2>1, <2>2, <2>3 DEF Bit
  <2>t. Top(p) <= Top(p)'
    BY <1>1, <1>2, <2>4 DEF Top
  <2>5. Level(p)
    BY <1>1, <1>3, <1>6, <2>1, <2>2, <2>4, <2>t DEF Level
  <2>6. Apace(p)
    <3>1. ASSUME Active(s)'
          PROVE  /\ Active(s)
                 /\ sb'[s].V_M + Mips(p)' - sb'[p].V_M <= sb[s].V_M + Mips(p) - sb[p].V_M
                 /\ HasRead(s) <= HasRead(s)'
      BY <1>1, <1>2, <1>3, <1>9, <2>2, <2>3, <3>1 DEF Bit
    <3> QED BY <1>1, <3>1 DEF Apace
  <2> QED BY <1>1, <1>5, <2>5, <2>6, LevelKeeps DEF Metered
<1>10. CASE ReadsNext(s)
  <2>1. /\ Mias(p)' <= Mias(p) /\ net'[s] = Tail(net[s]) /\ net[s] # <<>>
        /\ Mips(p)' = Mips(p) - Bit(Head(net[s]).code = "MIP")
        /\ NoNewPoint(net[p], net'[p])
    BY <1>1, <1>10, PointsMove DEF ReadsNext
  <2>2. /\ Bears(net[s], Head(net[s])) /\ net[s] \in Seq(SpduSet)
    BY <2>1, FollowsTail DEF TransferInv, TypeOK
  <2>3. /\ acb'[s].ind = "minorind" => Head(net[s]).code = "MIP"
        /\ acb'[s].ind = "endind" => Head(net[s]).code = "MAP"
        /\ acb'[s].ind = "start" => Head(net[s]).code = "AS"
        /\ acb[s].ind = "none"
    BY <1>10 DEF ReadsNext, Effect, IndicationOf
  <2>4. Head(net[s]).code # "MAP"
    BY <1>4, <2>2, TallyBears
  <2>5. Begins(s)' = Begins(s) - Bit(Head(net[s]).code = "AS")
    BY <1>10, TurnsMove DEF ReadsNext, TurnMoves
  <2>p. /\ IF Head(net[s]).code = "MIP" THEN Mips(p)' = Mips(p) - 1
                                          ELSE Mips(p)' = Mips(p)
        /\ Pending(p) = Mips(p) /\ HasRead(s) = sb[s].V_M - 1
    <3>1. Mips(p)' = Mips(p) - Bit(Head(net[s]).code = "MIP")
      BY <2>1
    <3>2. Mips(p)' = IF Head(net[s]).code = "MIP" THEN Mips(p) - 1 ELSE Mips(p)
      BY <1>2, <3>1 DEF Bit
    <3>3. Bit(acb[s].ind = "minorind") = 0
      BY <2>3 DEF Bit
    <3>4. Pending(p) = Mips(p) /\ HasRead(s) = sb[s].V_M - 1
      BY <1>2, <1>3, <3>3
    <3> QED BY <3>2, <3>4
  <2>h. IF acb'[s].ind = "minorind"
        THEN /\ Pending(p)' = Mips(p)' + 1 /\ HasRead(s)' = sb'[s].V_M - 2
             /\ Mips(p)' = Mips(p) - 1
        ELSE Pending(p)' = Mips(p)' /\ HasRead(s)' = sb'[s].V_M - 1
    BY <1>2, <1>3, <2>3, <2>p DEF Bit
  <2>6. Pending(p)' <= Pending(p) /\ Answered(p)' <= Answered(p)
    <3>1. Pending(p)' <= Pending(p)
      BY <1>2, <2>p, <2>h
    <3>2. Answered(p)' <= Answered(p)
      <4>1. Mias(p)' <= Mias(p) /\ Bit(acb[p].ind = "minorcnf") \in Nat
        BY <2>1 DEF Bit
      <4> QED BY <1>2, <1>3, <4>1
    <3> QED BY <3>1, <3>2
  <2>7. Begins(s)' > 0 => Begins(s) > 0
    BY <1>2, <2>5 DEF Bit
  <2>t. Top(p) <= Top(p)'
    BY <1>1, <1>2, <2>6 DEF Top
  <2>8. Level(p)
    BY <1>1, <1>3, <1>6, <2>1, <2>6, <2>7, <2>t DEF Level
  <2>9. Numbering(p)' /\ Starting(p)' /\ (Apace(p) => Reached(p)')
    BY <1>1, <2>8, LevelKeeps
  <2>10. /\ acb'[s].ind \notin {"minorind", "endind", "start"} => sb'[s].V_M = sb[s].V_M
         /\ acb'[s].ind = "minorind" => sb'[s].V_M = sb[s].V_M + 1
         /\ acb'[s].ind = "start" => sb'[s].V_M = 1
         /\ acb'[s].ind # "start" /\ Active(s)' => Active(s)
    BY <1>10 DEF ReadsNext, Effect, Serials, Active
  <2>11. CASE acb'[s].ind = "start"
    <3>1. Begins(s) > 0
      BY <1>2, <2>3, <2>5, <2>11 DEF Bit
    <3>2. Acked(p) = 0 /\ Answered(p) = 0
      BY <1>1, <3>1 DEF Metered, Starting
    <3>3. Base(p) = 0 /\ Mias(p) = 0
      BY <1>2, <1>3, <3>2 DEF Base, Bit
    <3>4. Pending(p) <= sb[p].V_M - 1
      <4>1. Base(p) <= Top(p) /\ Top(p) = sb[p].V_M - 1 - Pending(p)
        BY <1>1 DEF Metered, Numbering, Top
      <4> QED BY <1>2, <3>3, <4>1
    <3>5. Mias(p)' = 0
      BY <1>2, <2>1, <3>3
    <3>6. \A a : ~Returning(p, a)'
      <4>1. net'[p] \in Seq(SpduSet)
        BY <1>1 DEF TransferInv, TypeOK
      <4> QED BY <3>5, <4>1, TallyBears DEF Mias, Returning
    <3>7. sb'[s].V_M = 1 /\ HasRead(s)' = 0 /\ Mips(p)' <= Pending(p)
      BY <1>2, <2>10, <2>11, <2>p, <2>h
    <3>8. Reached(p)'
      BY <1>1, <1>2, <1>3, <3>3, <3>4, <3>6, <3>7 DEF Reached
    <3> QED BY <1>5, <2>9, <3>8 DEF Metered
  <2>12. CASE acb'[s].ind # "start"
    <3>1. /\ sb'[s].V_M + Mips(p)' - sb[p].V_M <= sb[s].V_M + Mips(p) - sb[p].V_M
          /\ HasRead(s) <= HasRead(s)'
      BY <1>2, <2>3, <2>4, <2>10, <2>12, <2>p, <2>h
    <3>2. Apace(p)
      BY <1>1, <2>10, <2>12, <3>1 DEF Apace
    <3> QED BY <1>5, <2>9, <3>2 DEF Metered
  <2> QED BY <2>11, <2>12
<1> QED
  <2>1. ~SendsCheckpoint(s)
    <3>1. acb[s].pc = "ckpoint" => In(s, "TURN")
      BY SideInv DEF Busy, Sends
    <3> QED BY <1>4, <3>1 DEF SendsCheckpoint
  <2> QED BY <1>7, <1>8, <1>9, <1>10, <2>1, WindowScene

(* A transfer that starts has no checkpoint under way.                     *)
LEMMA MeterStart ==
    ASSUME 0 \notin Windows, TransferInv, TransferInv', DeliveryInv, TurnInv, WindowInv,
           NEW s \in Side, Event(s), Frame(s), BothAlive', StartsActivity(s)
    PROVE  Metered(s)'
<1> DEFINE p == Peer(s)
<1>1. /\ p \in Side /\ acb'[p] = acb[p] /\ sb'[p] = sb[p] /\ assoc' = assoc
      /\ Tidy(s) /\ ActChain(s)
  BY WindowScene DEF Windowed
<1>2. /\ Mips(s) \in Nat /\ Mias(s) \in Nat /\ Mips(s)' \in Nat
      /\ Pending(s) \in Nat /\ Answered(s) \in Nat
      /\ Begins(p) \in Nat /\ Closings(s) \in Nat
  BY <1>1, PointNumbers, TurnNumbers
<1>3. /\ ~Sends(s) /\ "Vact" \notin sb[s].flags /\ sb'[s].V_M = 1
      /\ acb'[s].ind = "none" /\ acb'[s].pc = "data"
      /\ IF assoc.ckpoint THEN acb'[s].ssn = 0 /\ acb'[s].ack = 0 ELSE acb'[s].left = 1
  BY DEF StartsActivity, Sends, Fields
<1>4. NoPoints(s)
  BY PointsMove DEF StartsActivity, Point
<1>5. Pending(s) = 0 /\ Answered(s) = 0
  BY <1>1, <1>2, <1>3 DEF Tidy
<1>6. Mips(s) = 0 /\ Mias(s) = 0 /\ acb[p].ind # "minorind"
  <2>1. /\ Pending(s) = Mips(s) + Bit(acb[p].ind = "minorind")
        /\ Answered(s) = Mias(s) + Bit(acb[s].ind = "minorcnf")
    BY DEF Pending, Answered
  <2> QED BY <1>2, <1>5, <2>1 DEF Bit
<1>7. Mips(s)' = 0 /\ Mias(s)' = 0
  BY <1>2, <1>4, <1>6 DEF NoPoints, Mias
<1>8. Pending(s)' = 0 /\ Answered(s)' = 0 /\ Top(s)' = 0
  <2>1. /\ Pending(s)' = Mips(s)' + Bit(acb[p].ind = "minorind")
        /\ Answered(s)' = Mias(s)' + Bit(acb'[s].ind = "minorcnf")
        /\ Top(s)' = sb'[s].V_M - 1 - Pending(s)'
    BY <1>1 DEF Pending, Answered, Top
  <2>2. Bit(acb[p].ind = "minorind") = 0 /\ Bit(acb'[s].ind = "minorcnf") = 0
    BY <1>3, <1>6 DEF Bit
  <2>3. Pending(s)' = 0 /\ Answered(s)' = 0
    BY <1>7, <2>1, <2>2
  <2> QED BY <1>3, <2>1, <2>3
<1>9. Acked(s)' = 0 /\ Base(s)' = 0
  BY <1>1, <1>3 DEF Acked, Base
<1>10. \A a : Bears(net'[s], a) => a.code # "MIA"
  BY <1>7, TallyBears DEF Mias, TransferInv, TypeOK
<1>11. Numbering(s)'
  BY <1>3, <1>8, <1>9, <1>10 DEF Numbering, Returning, Pair, Bears
<1>12. ~Active(p)
  BY <1>1, <1>2, <1>3 DEF ActChain, Active, In, Bit, StartsActivity
<1>13. Reached(s)'
  BY <1>1, <1>12 DEF Reached, Active
<1>14. Starting(s)'
  BY <1>8, <1>9 DEF Starting
<1>15. Limits(s)'
  <2>1. assoc.window \in Nat /\ assoc.window # 0
    BY WindowsAssumption DEF TransferInv, RtTypeOK, Association
  <2>2. assoc.ckpoint => ~WindowFull(acb[s])'
    BY <1>1, <1>3, <2>1 DEF WindowFull
  <2>3. 0 <= assoc.window + Bit(assoc.service = "ps")
    BY <2>1 DEF Bit
  <2> QED BY <1>1, <1>3, <2>2, <2>3 DEF Limits
<1> QED BY <1>11, <1>13, <1>14, <1>15 DEF Metered

(* The sender goes beyond a checkpoint only inside the window.             *)
LEMMA MeterCheckpoint ==
    ASSUME TransferInv, TransferInv', DeliveryInv, TurnInv, WindowInv, NEW s \in Side,
           Event(s), Frame(s), BothAlive', SendsCheckpoint(s)
    PROVE  Metered(s)'
<1> DEFINE p == Peer(s)
<1>1. /\ p \in Side /\ acb'[p] = acb[p] /\ sb'[p] = sb[p] /\ assoc' = assoc
      /\ Windowed(s) /\ Placed(s)
  BY WindowScene
<1>2. /\ Mips(s) \in Nat /\ Mips(s)' \in Nat /\ Mias(s) \in Nat
      /\ Pending(s) \in Nat /\ Pending(s)' \in Nat
      /\ Begins(p) \in Nat /\ sb[s].V_M \in Int /\ acb[s].ack \in Int
      /\ acb[s].ssn \in Int /\ assoc.window \in Nat /\ sb[p].V_M \in Int
  BY <1>1, PointNumbers, TurnNumbers
<1>3. /\ acb[s].pc = "ckpoint" /\ acb[s].ind = "none" /\ acb'[s].ind = "none"
      /\ sb'[s].V_M = sb[s].V_M + 1 /\ acb'[s].ssn = sb[s].V_M /\ acb'[s].ack = acb[s].ack
      /\ acb'[s].pc = IF WindowFull(acb'[s]) THEN "window" ELSE "data"
  BY <1>1 DEF SendsCheckpoint, Placed
<1>4. Metered(s)
  BY <1>1, <1>3 DEF Windowed, Passing
<1>5. Mips(s)' <= Mips(s) + 1 /\ net'[s] = net[s]
  BY PointsMove DEF SendsCheckpoint
<1>6. Begins(p)' <= Begins(p)
  <2>1. TurnMoves(s, "MIP", "none")
    BY TurnsMove DEF SendsCheckpoint
  <2> QED BY <1>2, <2>1 DEF TurnMoves, Bit
<1>7. Mias(s)' = Mias(s) /\ Answered(s)' = Answered(s)
  BY <1>3, <1>5 DEF Mias, Answered
<1>8. Pending(s)' <= Pending(s) + 1
  <2>1. Pending(s)' = Mips(s)' + Bit(acb[p].ind = "minorind") /\ Bit(acb[p].ind = "minorind") \in Nat
    BY <1>1 DEF Pending, Bit
  <2> QED BY <1>2, <1>5, <2>1 DEF Pending
<1>9. Level(s)
  <2>1. Top(s) <= Top(s)'
    BY <1>2, <1>3, <1>8 DEF Top
  <2>2. Base(s)' = Base(s) /\ Acked(s)' = Acked(s)
    BY <1>1, <1>3 DEF Base, Acked
  <2>3. NoNewPoint(net[s], net'[s])
    BY <1>5 DEF NoNewPoint
  <2>4. Begins(p)' > 0 => Begins(p) > 0 /\ Answered(s)' <= Answered(s)
    <3>1. Answered(s) \in Nat /\ Begins(p)' \in Nat
      BY <1>1, PointNumbers, TurnNumbers
    <3> QED BY <1>2, <1>6, <1>7, <3>1
  <2> QED BY <1>1, <1>3, <2>1, <2>2, <2>3, <2>4 DEF Level
<1>10. Apace(s)
  <2>1. HasRead(p)' = HasRead(p) /\ HasRead(p) \in Int /\ Active(p)' = Active(p)
    BY <1>1, PointNumbers DEF HasRead, Active
  <2>2. sb'[p].V_M + Mips(s)' - sb'[s].V_M <= sb[p].V_M + Mips(s) - sb[s].V_M
    BY <1>1, <1>2, <1>3, <1>5
  <2>3. HasRead(p) <= HasRead(p)'
    BY <2>1
  <2>4. Active(p)' => Active(p)
    BY <1>1 DEF Active
  <2> QED BY <2>2, <2>3, <2>4 DEF Apace
<1>11. Limits(s)'
  <2>1. /\ assoc.ckpoint /\ acb[s].ssn = sb[s].V_M - 1 /\ ~WindowFull(acb[s])
    BY <1>3, <1>4 DEF Metered, Limits
  <2>2. assoc.service \in {"ss", "ps"}
    BY DEF TransferInv, RtTypeOK, Association
  <2>3. sb[s].V_M - acb[s].ack <= assoc.window + Bit(assoc.service = "ps")
    BY <1>2, <2>1, <2>2 DEF WindowFull, Bit
  <2>4. acb'[s].pc \in {"data", "ckpoint"} => ~WindowFull(acb[s])'
    BY <1>1, <1>3 DEF WindowFull
  <2> QED BY <1>1, <1>2, <1>3, <2>1, <2>3, <2>4 DEF Limits
<1> QED BY <1>4, <1>9, <1>10, <1>11, LevelKeeps DEF Metered

(* The sender that waits at a full window reads a confirmation, or what    *)
(* changes nothing.                                                        *)
LEMMA MeterRead ==
    ASSUME TransferInv, TransferInv', DeliveryInv, TurnInv, WindowInv, NEW s \in Side,
           Event(s), Frame(s), BothAlive', ReadsNext(s), Passing(s)'
    PROVE  Metered(s)'
<1> DEFINE p == Peer(s)
           h == Head(net[s])
<1>1. /\ p \in Side /\ Peer(p) = s
      /\ acb'[p] = acb[p] /\ sb'[p] = sb[p] /\ assoc' = assoc
      /\ Windowed(s) /\ Tidy(p) /\ Busy(s) /\ OneTurn(s) /\ EndChain(s)
      /\ Busy(p) /\ EndChain(p) /\ ActChain(p) /\ acb[p].pc # "gone"
  BY WindowScene DEF Windowed
<1>2. /\ Mips(s) \in Nat /\ Mips(s)' \in Nat /\ Mias(s) \in Nat /\ Mias(s)' \in Nat
      /\ Mips(p) \in Nat /\ Pending(p) \in Nat /\ Answered(p) \in Nat
      /\ Pending(s) \in Nat /\ Pending(s)' \in Nat
      /\ Begins(p) \in Nat /\ Begins(p)' \in Nat /\ Begins(s) \in Nat
      /\ Closings(p) \in Nat /\ sb[s].V_M \in Int /\ sb[p].V_M \in Int
      /\ Base(s) \in Int /\ Top(s) \in Int /\ HasRead(p) \in Int /\ Top(s)' \in Int
  BY <1>1, PointNumbers, TurnNumbers
<1>q. net[s] \in Seq(SpduSet) /\ net[p] \in Seq(SpduSet)
  BY <1>1 DEF TransferInv, TypeOK
<1>n. \A a : Bears(net[s], a) => a.ssn \in Int
  BY PointNumbers
<1>3. /\ acb[s].pc = "window" /\ acb'[s].pc = "window" /\ acb[s].ind = "none"
      /\ SameWindow(s) /\ acb'[s].flags = acb[s].flags
  BY DEF ReadsNext, Passing
<1>4. Passing(s) /\ Metered(s)
  BY <1>1, <1>3 DEF Windowed, Passing
<1>5. ~In(p, "TURN")
  BY <1>1, <1>4, PassingTurn
<1>6. Mips(s)' <= Mips(s) /\ Mias(s)' = Mias(s) - Bit(h.code = "MIA")
  BY PointsMove DEF ReadsNext
<1>t. net'[s] = Tail(net[s]) /\ net[s] # <<>>
  BY DEF ReadsNext, Gets
<1>7. /\ Bears(net[s], h)
      /\ \A a : Bears(Tail(net[s]), a) => Bears(net[s], a) /\ Pair(net[s], h, a)
      /\ \A a, b : Pair(Tail(net[s]), a, b) => Pair(net[s], a, b)
  BY <1>q, <1>t, FollowsTail
<1>8. /\ acb'[s].ind = "minorind" => h.code = "MIP"
      /\ acb'[s].ind = "endind" => h.code = "MAP"
      /\ acb'[s].ind = "start" => h.code = "AS"
      /\ acb'[s].ind = "minorcnf" => h.code = "MIA" /\ sb'[s].V_A = h.ssn
      /\ acb'[s].ind \notin {"minorind", "endind", "start"} => sb'[s].V_M = sb[s].V_M
  BY DEF ReadsNext, Effect, IndicationOf, Serials
<1> HIDE DEF h
<1>9. h.code # "MIP"
  <2>1. Pending(p) + Answered(p) = 0
    BY <1>1, <1>2, <1>5 DEF Tidy, Sends
  <2>2. Mips(p) = Tally(net[s], "MIP") /\ Pending(p) = Mips(p) + Bit(acb[s].ind = "minorind")
    BY <1>1 DEF Mips, Pending
  <2>3. Tally(net[s], "MIP") = 0
    <3>1. Bit(acb[s].ind = "minorind") \in Nat
      BY DEF Bit
    <3> QED BY <1>2, <2>1, <2>2, <3>1
  <2> QED BY <1>q, <1>7, <2>3, TallyBears
<1>10. h.code # "MAP"
  <2>1. acb[p].pc # "end"
    BY <1>1, <1>5 DEF Busy, Sends
  <2>2. Ends(p) + Confirmed(p) <= 0
    BY <1>1, <2>1 DEF EndChain, Open, Bit
  <2>3. Tally(net[s], "MAP") = 0
    <3>1. Ends(p) = Tally(net[s], "MAP") + Bit(acb[s].ind = "endind")
      BY <1>1 DEF Ends
    <3>2. /\ Tally(net[s], "MAP") \in Nat /\ Confirmed(p) \in Nat
          /\ Bit(acb[s].ind = "endind") \in Nat
      BY <1>1, <1>q, Numbers, TallyTyped DEF Naturals, Bit
    <3> QED BY <2>2, <3>1, <3>2
  <2> QED BY <1>q, <1>7, <2>3, TallyBears
<1>11. h.code # "AS"
  <2>1. Begins(s) = 0
    <3>1. Bit(Active(p) /\ In(p, "TURN")) = 0 /\ Bit(Active(s) /\ In(p, "TURN")) \in Nat
      BY <1>5 DEF Bit
    <3>2. Begins(s) + Closings(p) + Bit(Active(s) /\ In(p, "TURN"))
            <= Bit(Active(p) /\ In(p, "TURN"))
      BY <1>1 DEF ActChain
    <3> QED BY <1>2, <3>1, <3>2
  <2>2. Tally(net[s], "AS") = 0
    BY <2>1 DEF Begins
  <2> QED BY <1>q, <1>7, <2>2, TallyBears
<1>12. /\ acb'[s].ind \notin {"minorind", "endind", "start"} /\ sb'[s].V_M = sb[s].V_M
  BY <1>8, <1>9, <1>10, <1>11
<1>13. Begins(p)' <= Begins(p)
  <2>1. TurnMoves(s, "none", h.code)
    BY TurnsMove DEF ReadsNext, h
  <2> QED BY <1>2, <2>1 DEF TurnMoves, Bit
<1>14. Pending(s)' <= Pending(s)
  <2>1. /\ Pending(s) = Mips(s) + Bit(acb[p].ind = "minorind")
        /\ Pending(s)' = Mips(s)' + Bit(acb[p].ind = "minorind")
        /\ Bit(acb[p].ind = "minorind") \in Nat
    BY <1>1 DEF Pending, Bit
  <2> QED BY <1>2, <1>6, <2>1
<1>15. Top(s) <= Top(s)'
  BY <1>2, <1>12, <1>14 DEF Top
<1>16. Acked(s)' = Acked(s) /\ Base(s) = Acked(s)
  BY <1>1, <1>3 DEF Acked, Base, SameWindow
<1>17. Limits(s)'
  <2>1. assoc.ckpoint
    BY <1>3, <1>4 DEF Metered, Limits
  <2> QED BY <1>1, <1>3, <1>4, <1>12, <2>1 DEF Metered, Limits, SameWindow
<1>18. HasRead(p)' = HasRead(p) /\ (Active(p)' => Active(p))
  BY <1>1 DEF HasRead, Active
<1>19. CASE acb'[s].ind # "minorcnf"
  <2>1. NoNewPoint(net[s], net'[s])
    BY <1>t, <1>7 DEF NoNewPoint
  <2>2. Answered(s)' <= Answered(s) /\ Base(s)' = Base(s)
    <3>1. Answered(s)' = Mias(s)' /\ Mias(s)' <= Mias(s) /\ Mias(s) <= Answered(s)
      BY <1>2, <1>6, <1>19 DEF Answered, Bit
    <3>2. Base(s)' = Acked(s)'
      BY <1>19 DEF Base
    <3>3. Answered(s) \in Nat
      BY PointNumbers
    <3> QED BY <1>2, <1>16, <3>1, <3>2, <3>3
  <2>3. Level(s)
    BY <1>1, <1>2, <1>13, <1>15, <1>16, <1>19, <2>1, <2>2 DEF Level
  <2>4. Apace(s)
    BY <1>1, <1>2, <1>6, <1>12, <1>18 DEF Apace
  <2> QED BY <1>4, <1>17, <2>3, <2>4, LevelKeeps DEF Metered
<1>20. CASE acb'[s].ind = "minorcnf"
  <2>1. h.code = "MIA" /\ sb'[s].V_A = h.ssn /\ Returning(s, h) /\ h.ssn \in Int
    BY <1>n, <1>7, <1>8, <1>20 DEF Returning
  <2>2. Base(s) < h.ssn /\ h.ssn <= Top(s) /\ Base(s)' = h.ssn
    BY <1>4, <1>20, <2>1 DEF Metered, Numbering, Base
  <2>3. ASSUME NEW a, Returning(s, a)'
        PROVE  Returning(s, a) /\ a.ssn \in Int /\ h.ssn < a.ssn /\ a.ssn <= Top(s)
    <3>1. Bears(net[s], a) /\ Pair(net[s], h, a) /\ a.code = "MIA"
      BY <1>t, <1>7, <2>3 DEF Returning
    <3> QED BY <1>n, <1>4, <2>1, <3>1 DEF Metered, Numbering, Returning
  <2>4. Numbering(s)'
    <3>1. sb'[s].V_A > Acked(s)'
      BY <1>2, <1>16, <2>1, <2>2
    <3>2. Base(s)' <= Top(s)'
      BY <1>2, <1>15, <2>1, <2>2
    <3>3. ASSUME NEW a, Returning(s, a)' PROVE Base(s)' < a.ssn /\ a.ssn <= Top(s)'
      <4>1. a.ssn \in Int /\ h.ssn < a.ssn /\ a.ssn <= Top(s)
        BY <2>3, <3>3
      <4> QED BY <1>2, <1>15, <2>2, <4>1
    <3>4. \A a, b : Pair(net'[s], a, b) /\ a.code = "MIA" /\ b.code = "MIA" => a.ssn < b.ssn
      BY <1>4, <1>t, <1>7 DEF Metered, Numbering
    <3> QED BY <3>1, <3>2, <3>3, <3>4 DEF Numbering
  <2>5. Reached(s)'
    <3> SUFFICES ASSUME Active(p)
                 PROVE  /\ sb[p].V_M + Mips(s)' <= sb'[s].V_M
                        /\ Base(s)' <= HasRead(p)
                        /\ \A a : Returning(s, a)' => a.ssn <= HasRead(p)
      BY <1>1, <1>18 DEF Reached, Active
    <3>1. /\ sb[p].V_M + Mips(s) <= sb[s].V_M
          /\ \A a : Returning(s, a) => a.ssn <= HasRead(p)
      BY <1>4 DEF Metered, Reached
    <3>2. sb[p].V_M + Mips(s)' <= sb'[s].V_M
      BY <1>2, <1>6, <1>12, <3>1
    <3> QED BY <2>1, <2>2, <2>3, <3>1, <3>2
  <2>6. Starting(s)'
    <3>1. Mias(s) > 0
      BY <1>2, <1>6, <2>1 DEF Bit
    <3>2. Answered(s) > 0
      BY <1>2, <3>1 DEF Answered, Bit
    <3>3. ~(Begins(p) > 0)
      BY <1>4, <3>2 DEF Metered, Starting
    <3>4. ~(Begins(p)' > 0)
      BY <1>2, <1>13, <3>3
    <3> QED BY <3>4 DEF Starting
  <2> QED BY <1>17, <2>4, <2>5, <2>6 DEF Metered
<1> QED BY <1>19, <1>20

(* What else the sender does leaves its checkpoints as they are.           *)
Proceeds(s) ==
    \/ StaysPut(s) \/ SendsPart(s) \/ InterruptsActivity(s) \/ NotesIndication(s)
    \/ GainsTurn(s) \/ ClosesActivity(s)

(* Nothing is sent to be confirmed, and a confirmation that was noted opens*)
(* the window.                                                             *)
LEMMA MeterProceeds ==
    ASSUME TransferInv, TransferInv', DeliveryInv, TurnInv, WindowInv, NEW s \in Side,
           Event(s), Frame(s), BothAlive', Proceeds(s), Pointless(s), Passing(s)'
    PROVE  Metered(s)'
<1> DEFINE p == Peer(s)
<1>1. /\ p \in Side /\ acb'[p] = acb[p] /\ sb'[p] = sb[p] /\ assoc' = assoc
      /\ Windowed(s) /\ Placed(s) /\ Busy(s)
  BY WindowScene
<1>2. /\ Mips(s) \in Nat /\ Mips(s)' \in Nat /\ Mias(s) \in Nat
      /\ Pending(s) \in Nat /\ Pending(s)' \in Nat /\ Answered(s) \in Nat
      /\ Begins(p) \in Nat /\ Begins(p)' \in Nat /\ sb[s].V_M \in Int /\ sb[p].V_M \in Int
      /\ acb[s].ack \in Int /\ acb[s].ssn \in Int /\ sb[s].V_A \in Int
      /\ assoc.window \in Nat /\ HasRead(p) \in Int
  BY <1>1, PointNumbers, TurnNumbers
<1>3. /\ acb[s].ind # "none" => acb[s].pc \in {"user", "window", "end", "release"}
      /\ SendsPart(s) => acb[s].ind = "none"
  BY <1>1 DEF Placed, SendsPart
<1>4. /\ Passing(s) /\ acb'[s].ind = "none" /\ acb'[s].ssn = acb[s].ssn
      /\ sb'[s].V_M = sb[s].V_M
      /\ acb'[s].ack = IF acb[s].ind = "minorcnf" THEN sb[s].V_A ELSE acb[s].ack
      /\ acb[s].ind = "none" => acb'[s].pc = acb[s].pc \/ acb[s].pc = "data"
  <2>1. CASE StaysPut(s)
    BY <2>1 DEF StaysPut, Untouched, SameWindow, Passing
  <2>2. CASE SendsPart(s)
    BY <1>3, <2>2 DEF SendsPart, Passing
  <2>3. CASE InterruptsActivity(s)
    BY <1>3, <2>3 DEF InterruptsActivity, SameWindow, Passing
  <2>4. CASE NotesIndication(s)
    BY <2>4 DEF NotesIndication, Untouched, Passing
  <2>5. CASE GainsTurn(s)
    BY <2>5 DEF GainsTurn, Untouched, SameWindow, Passing
  <2>6. CASE ClosesActivity(s)
    BY <2>6 DEF ClosesActivity, Untouched, SameWindow, Fields, Passing
  <2> QED BY <2>1, <2>2, <2>3, <2>4, <2>5, <2>6 DEF Proceeds
<1>5. Metered(s)
  BY <1>1, <1>4 DEF Windowed
<1>6. Begins(p)' <= Begins(p)
  <2>1. Untouched \/ \E c \in {"DT", "PT", "AI", "AD"} : Puts(s, c)
    BY DEF Proceeds, StaysPut, SendsPart, InterruptsActivity, NotesIndication, GainsTurn,
           ClosesActivity
  <2>2. \E c \in {"none", "DT", "PT", "AI", "AD"} : TurnMoves(s, c, "none")
    BY <2>1, TurnsMove
  <2> QED BY <1>2, <2>2 DEF TurnMoves, Bit
<1>7. ~assoc.ckpoint => StaysPut(s) /\ acb[s].ind = "none"
  <2> SUFFICES ASSUME ~assoc.ckpoint PROVE StaysPut(s) /\ acb[s].ind = "none"
    OBVIOUS
  <2>1. acb[s].pc = "data" /\ acb[s].left = 1
    BY <1>5 DEF Metered, Limits
  <2>2. acb[s].ind = "none"
    BY <1>3, <2>1
  <2>3. ~SendsPart(s) /\ ~InterruptsActivity(s) /\ ~NotesIndication(s) /\ ~GainsTurn(s)
        /\ ~ClosesActivity(s)
    BY <2>1, <2>2
       DEF SendsPart, InterruptsActivity, NotesIndication, GainsTurn, ClosesActivity, Passing
  <2> QED BY <2>2, <2>3 DEF Proceeds
<1>8. Base(s)' = Base(s)
  BY <1>1, <1>4, <1>7 DEF Base, Acked
<1>9. net'[s] = net[s] /\ Mips(s)' <= Mips(s)
  BY DEF Pointless, NoPoints
<1>10. Mias(s)' = Mias(s) /\ Answered(s)' <= Answered(s)
  <2>1. Mias(s)' = Mias(s)
    BY <1>9 DEF Mias
  <2>2. Answered(s)' = Mias(s)
    BY <1>2, <1>4, <2>1 DEF Answered, Bit
  <2>3. Mias(s) <= Answered(s)
    BY <1>2 DEF Answered, Bit
  <2> QED BY <2>1, <2>2, <2>3
<1>11. Pending(s)' <= Pending(s)
  <2>1. /\ Pending(s) = Mips(s) + Bit(acb[p].ind = "minorind")
        /\ Pending(s)' = Mips(s)' + Bit(acb[p].ind = "minorind")
        /\ Bit(acb[p].ind = "minorind") \in Nat
    BY <1>1 DEF Pending, Bit
  <2> QED BY <1>2, <1>9, <2>1
<1>12. Level(s)
  <2>1. Top(s) <= Top(s)'
    BY <1>2, <1>4, <1>11 DEF Top
  <2>2. NoNewPoint(net[s], net'[s])
    BY <1>9 DEF NoNewPoint
  <2>3. ASSUME Begins(p)' > 0
        PROVE  Begins(p) > 0 /\ Acked(s)' = Acked(s) /\ Answered(s)' <= Answered(s)
    <3>1. Begins(p) > 0
      BY <1>2, <1>6, <2>3
    <3>2. Answered(s) = 0
      BY <1>5, <3>1 DEF Metered, Starting
    <3>3. acb[s].ind # "minorcnf"
      BY <1>2, <3>2 DEF Answered, Bit
    <3> QED BY <1>1, <1>4, <1>10, <3>1, <3>3 DEF Acked
  <2> QED BY <1>1, <1>4, <1>8, <2>1, <2>2, <2>3 DEF Level
<1>13. Apace(s)
  <2>1. HasRead(p)' = HasRead(p) /\ (Active(p)' => Active(p))
    BY <1>1 DEF HasRead, Active
  <2> QED BY <1>1, <1>2, <1>4, <1>9, <2>1 DEF Apace
<1>14. Limits(s)'
  <2>1. CASE ~assoc.ckpoint
    BY <1>1, <1>5, <1>7, <2>1
       DEF StaysPut, Untouched, SameWindow, Metered, Limits
  <2>2. CASE assoc.ckpoint
    <3>1. /\ acb[s].ssn = sb[s].V_M - 1
          /\ acb[s].ssn - acb[s].ack <= assoc.window + Bit(assoc.service = "ps")
          /\ acb[s].pc \in {"data", "ckpoint"} => ~WindowFull(acb[s])
      BY <1>5, <2>2 DEF Metered, Limits
    <3>2. acb[s].ind = "minorcnf" => sb[s].V_A > acb[s].ack
      BY <1>5, <2>2 DEF Metered, Numbering, Acked
    <3>3. acb'[s].ssn - acb'[s].ack <= assoc.window + Bit(assoc.service = "ps")
      <4>1. acb'[s].ack >= acb[s].ack
        BY <1>2, <1>4, <3>2
      <4>2. acb'[s].ack \in Int /\ Bit(assoc.service = "ps") \in Nat
        BY <1>2, <1>4 DEF Bit
      <4> QED BY <1>2, <1>4, <3>1, <4>1, <4>2
    <3>4. acb'[s].pc \in {"data", "ckpoint"} => ~WindowFull(acb'[s])
      <4>1. CASE acb[s].ind = "none"
        <5>1. acb'[s].pc \in {"data", "ckpoint"} => acb[s].pc \in {"data", "ckpoint"}
          BY <1>4, <4>1
        <5> QED BY <1>4, <3>1, <4>1, <5>1 DEF WindowFull
      <4>2. CASE acb[s].ind # "none"
        <5>1. acb[s].pc = "window"
          BY <1>3, <1>4, <4>2 DEF Passing
        <5> QED BY <1>3, <4>2, <5>1
                DEF Proceeds, StaysPut, SendsPart, InterruptsActivity, NotesIndication,
                    GainsTurn, ClosesActivity, Fields
      <4> QED BY <4>1, <4>2
    <3>5. WindowFull(acb[s])' = WindowFull(acb'[s])
      BY <1>1 DEF WindowFull
    <3> QED BY <1>1, <1>4, <2>2, <3>1, <3>3, <3>4, <3>5 DEF Limits
  <2> QED BY <2>1, <2>2
<1> QED BY <1>5, <1>12, <1>13, <1>14, LevelKeeps DEF Metered

(* A step of the side that sends a transfer keeps it metered.              *)
LEMMA MeterMine ==
    ASSUME 0 \notin Windows, TransferInv, TransferInv', DeliveryInv, TurnInv, WindowInv,
           NEW s \in Side, Event(s), Frame(s), BothAlive', Passing(s)'
    PROVE  Metered(s)'
<1>1. Busy(s) /\ acb'[s].pc # "gone"
  BY WindowScene
<1>2. acb[s].pc \in {"data", "ckpoint", "window"} => In(s, "TURN")
  BY <1>1 DEF Busy, Sends
<1>3. CASE StartsActivity(s)
  BY <1>3, MeterStart
<1>4. CASE SendsCheckpoint(s)
  BY <1>4, MeterCheckpoint
<1>5. CASE ReadsNext(s)
  BY <1>5, MeterRead
<1>6. CASE Proceeds(s) /\ Pointless(s)
  BY <1>6, MeterProceeds
<1>7. CASE AsksTurn(s) \/ GivesTurn(s) \/ EndsActivity(s) \/ AsksRelease(s)
           \/ LosesAssoc(s) \/ LeavesRelease(s)
  BY <1>7 DEF AsksTurn, GivesTurn, EndsActivity, AsksRelease, LosesAssoc, LeavesRelease,
              Fields, Idle, Passing
<1>8. CASE ReportsProblem(s) \/ ConfirmsCheckpoint(s) \/ OpensActivity(s)
           \/ AcceptsDiscard(s) \/ AcceptsEnd(s)
  <2>1. ~In(s, "TURN") /\ acb'[s].pc = acb[s].pc
    BY <1>8 DEF ReportsProblem, ConfirmsCheckpoint, OpensActivity, AcceptsDiscard,
                AcceptsEnd, Fields, Receives
  <2> QED BY <1>2, <2>1 DEF Passing
<1>9. SendsCheckpoint(s) \/ ConfirmsCheckpoint(s) \/ ReadsNext(s) \/ Pointless(s)
  BY WindowScene
<1> QED BY <1>3, <1>4, <1>5, <1>6, <1>7, <1>8, <1>9 DEF Event, Proceeds

(* The invariant is inductive, if no window is empty.                      *)
LEMMA WindowStep ==
    ASSUME 0 \notin Windows, TransferInv, DeliveryInv, PrepInv, TurnInv, WindowInv,
           [RoNext]_rovars
    PROVE  WindowInv'
<1>1. TransferInv'
  BY TransferKept
<1>2. CASE UNCHANGED rovars
  BY <1>2
     DEF rovars, WindowInv, Windowed, BothAlive, Alive, Ordered, Tidy, Passing, Metered,
         Numbering, Reached, Starting, Limits, Mips, Mias, Pending, Answered, Acked, Base,
         HasRead, Top, Returning, Begins, Closings, Active, Sends, In, WindowFull
<1>3. CASE RoNext
  <2> SUFFICES ASSUME BothAlive' PROVE \A t \in Side : Windowed(t)'
    BY DEF WindowInv
  <2>1. PICK s \in Side : RoStep(s)
    BY <1>3 DEF RoNext, RoStep
  <2>2. Event(s) /\ Frame(s)
    BY <2>1, EveryStep
  <2>3. Passing(Peer(s))' => Passing(Peer(s))
    BY <2>2 DEF Frame, Passing
  <2>4. /\ Ordered(net[s])' /\ Tidy(s)' /\ (Passing(s)' => Metered(s)')
    BY <1>1, <2>2, OrderedKept, TidyMine, MeterMine DEF Ordered
  <2>5. /\ Ordered(net[Peer(s)])' /\ Tidy(Peer(s))'
        /\ (Passing(Peer(s))' => Metered(Peer(s))')
    BY <1>1, <2>2, <2>3, OrderedKept, TidyTheirs, MeterTheirs DEF Ordered
  <2>6. Windowed(s)' /\ Windowed(Peer(s))'
    BY <2>4, <2>5 DEF Windowed
  <2>7. \A t \in Side : t = s \/ t = Peer(s)
    BY DEF Peer, Side
  <2> QED BY <2>6, <2>7
<1> QED BY <1>2, <1>3

(* At first nothing is under way.                                          *)
LEMMA WindowInit == RoInit => WindowInv
<1> SUFFICES ASSUME RoInit, NEW s \in Side PROVE Windowed(s)
  BY DEF WindowInv
<1>1. \A t \in Side : net[t] = <<>> /\ acb[t].pc = "user" /\ acb[t].ind = "none"
  BY DEF RoInit, RtInit, NewAcb
<1>2. Peer(s) \in Side
  BY PeerSide
<1>3. Mips(s) = 0 /\ Mias(s) = 0 /\ Closings(s) = 0
  BY <1>1, <1>2, TallyEmpty DEF Mips, Mias, Closings
<1>4. Ordered(net[s])
  <2>1. \A a, b : ~Pair(net[s], a, b)
    BY <1>1 DEF Pair
  <2> QED BY <2>1 DEF Ordered
<1>5. Pending(s) = 0 /\ Answered(s) = 0
  BY <1>1, <1>2, <1>3 DEF Pending, Answered, Bit
<1> QED BY <1>1, <1>2, <1>3, <1>4, <1>5 DEF Windowed, Tidy, Passing

(* There are no more confirmations on their way than numbers they can have.*)
LEMMA ConfirmationsNumbered ==
    ASSUME TransferInv, NEW s \in Side, Numbering(s)
    PROVE  Mias(s) <= Top(s) - Base(s)
<1> DEFINE q == net[s]
           P == Places(q, "MIA")
           T == (Base(s) + 1)..Top(s)
           f == [i \in P |-> q[i].ssn]
<1>1. Base(s) \in Int /\ Top(s) \in Int /\ Base(s) <= Top(s)
  BY PointNumbers DEF Numbering
<1>2. q \in Seq(SpduSet)
  BY DEF TransferInv, TypeOK
<1>3. \A i \in P : i \in 1..Len(q) /\ q[i].code = "MIA"
  BY DEF Places
<1>4. \A i \in P : Returning(s, q[i])
  BY <1>3 DEF Returning, Bears
<1>5. \A i \in P : q[i].ssn \in T
  <2> SUFFICES ASSUME NEW i \in P PROVE q[i].ssn \in T
    OBVIOUS
  <2>1. Returning(s, q[i])
    BY <1>4
  <2>2. q[i].ssn \in Int
    BY <2>1, PointNumbers DEF Returning
  <2>3. Base(s) < q[i].ssn /\ q[i].ssn <= Top(s)
    BY <2>1 DEF Numbering
  <2> QED BY <1>1, <2>2, <2>3
<1>6. \A i, j \in P : i < j => q[i].ssn < q[j].ssn
  <2> SUFFICES ASSUME NEW i \in P, NEW j \in P, i < j PROVE q[i].ssn < q[j].ssn
    OBVIOUS
  <2>1. Pair(net[s], q[i], q[j])
    BY <1>3 DEF Pair
  <2> QED BY <1>3, <2>1 DEF Numbering
<1>7. \A i, j \in P : q[i].ssn = q[j].ssn => i = j
  <2> SUFFICES ASSUME NEW i \in P, NEW j \in P, q[i].ssn = q[j].ssn PROVE i = j
    OBVIOUS
  <2>1. i \in Int /\ j \in Int /\ q[i].ssn \in Int /\ q[j].ssn \in Int
    BY <1>1, <1>2, <1>3, <1>5
  <2>2. ~(i < j) /\ ~(j < i)
    BY <1>6, <2>1
  <2> QED BY <2>1, <2>2
<1> HIDE DEF P, T
<1>8. f \in Injection(P, T)
  BY <1>5, <1>7 DEF Injection, IsInjective
<1>9. IsFiniteSet(T) /\ Cardinality(T) = Top(s) - Base(s)
  <2>1. Base(s) + 1 \in Int
    BY <1>1
  <2>2. /\ IsFiniteSet(T)
        /\ Cardinality(T) = IF Base(s) + 1 > Top(s) THEN 0 ELSE Top(s) - (Base(s) + 1) + 1
    BY <1>1, <2>1, FS_Interval DEF T
  <2> QED BY <1>1, <2>2
<1> HIDE DEF f
<1>10. Cardinality(P) <= Cardinality(T)
  BY <1>8, <1>9, FS_Injection, Zenon
<1> QED BY <1>9, <1>10 DEF P, Mias, Tally

(* No more checkpoints are unconfirmed than the window on which the two    *)
(* ends agreed allows (rt2ss.c and rt2ps.c wait for a S-MINOR-SYNC.CONFIRM *)
(* as soon as it is full), wherever they are: on their way, being read, or *)
(* confirmed and on their way back.  The hypothesis: the window agreed on is*)
(* not empty (the initiator offers DEFAULT_WINDOW, 3 in h/acpkt.h, and the *)
(* responder keeps what it is offered).                                    *)
THEOREM TransferWindowAlwaysKept ==
    ASSUME 0 \notin Windows
    PROVE  RoSpec => []WindowKept
<1>1. TransferInv /\ WindowInv => WindowKept
  <2> SUFFICES ASSUME TransferInv, WindowInv, NEW s \in Side, BothAlive,
                      acb[s].pc \in {"data", "ckpoint", "window"}
               PROVE  OnTheWay(Peer(s), "MIP") + Bit(acb[Peer(s)].ind = "minorind")
                        + OnTheWay(s, "MIA") + Bit(acb[s].ind = "minorcnf")
                          <= assoc.window + Bit(assoc.service = "ps")
    BY DEF WindowKept
  <2>1. Metered(s)
    BY DEF WindowInv, Windowed, Passing
  <2>2. OnTheWay(Peer(s), "MIP") = Mips(s) /\ OnTheWay(s, "MIA") = Mias(s)
    BY DEF OnTheWay, Mips, Mias, Tally, Places
  <2>3. /\ Mips(s) \in Nat /\ Mias(s) \in Nat /\ Pending(s) \in Nat
        /\ Base(s) \in Int /\ Top(s) \in Int /\ Acked(s) \in Int /\ sb[s].V_M \in Int
        /\ sb[s].V_A \in Int /\ acb[s].ssn \in Int /\ acb[s].ack \in Int
        /\ assoc.window \in Nat
    BY PointNumbers
  <2>4. Mias(s) <= Top(s) - Base(s)
    BY <2>1, ConfirmationsNumbered DEF Metered
  <2>5. Acked(s) + Bit(acb[s].ind = "minorcnf") <= Base(s)
    BY <2>1, <2>3 DEF Metered, Numbering, Base, Bit
  <2>6. /\ Top(s) = sb[s].V_M - 1 - Pending(s)
        /\ Pending(s) = Mips(s) + Bit(acb[Peer(s)].ind = "minorind")
    BY DEF Top, Pending
  <2>7. sb[s].V_M - 1 - Acked(s) <= assoc.window + Bit(assoc.service = "ps")
    <3>1. CASE assoc.ckpoint
      BY <2>1, <3>1 DEF Metered, Limits, Acked
    <3>2. CASE ~assoc.ckpoint
      <4>1. sb[s].V_M = 1 /\ Acked(s) = 0
        BY <2>1, <3>2 DEF Metered, Limits, Acked
      <4> QED BY <2>3, <4>1 DEF Bit
    <3> QED BY <3>1, <3>2
  <2>8. /\ Bit(acb[Peer(s)].ind = "minorind") \in Nat /\ Bit(acb[s].ind = "minorcnf") \in Nat
        /\ Bit(assoc.service = "ps") \in Nat
    BY DEF Bit
  <2> QED BY <2>2, <2>3, <2>4, <2>5, <2>6, <2>7, <2>8
<1>2. TransferInv /\ DeliveryInv /\ TurnInv /\ WindowInv /\ PrepInv /\ [RoNext]_rovars
          => TransferInv' /\ DeliveryInv' /\ TurnInv' /\ WindowInv'
  BY TransferKept, DeliveryKept, TurnKept, WindowStep
<1>3. RoInit => TransferInv /\ DeliveryInv /\ TurnInv /\ WindowInv
  BY TransferInit, DeliveryInit, TurnInit, WindowInit
<1>4. RoSpec => []PrepInv
  BY RoImplementsSession, PreparationAnnounced, PTL
<1> QED BY <1>1, <1>2, <1>3, <1>4, PTL DEF RoSpec

-----------------------------------------------------------------------------
(* The parts of an APDU.  Those the receiver has not worked on yet, those  *)
(* it has assembled and those still to be sent are all there are, unless   *)
(* it reported an exception or prepares for the discard: then it is told   *)
(* nothing until the activity is over.                                     *)

(* Parts of s on their way, being worked on, and taken over by its peer.   *)
Parts(s)    == Tally(net[Peer(s)], "DT")
Unread(s)   == Parts(s) + Bit(acb[Peer(s)].ind = "data")
Gathered(s) == Unread(s) + acb[Peer(s)].len

(* No part follows the end or the discard.                                 *)
Sequenced(q) ==
    \A a, b : Pair(q, a, b) /\ a.code \in {"MAP", "AI", "AD"} => b.code # "DT"

(* s is in the middle of a transfer that it has not interrupted.           *)
Forwards(s) ==
    /\ Sends(s) /\ acb[s].pc \in {"data", "ckpoint", "window", "done"}
    /\ "AI" \notin sb[s].flags /\ acb[s].ind # "disccnf"

(* Parts are those of the activity of s, and read before it is over.       *)
Clear(s) ==
    /\ Unread(s) > 0 => Sends(s)
    /\ Closings(s) > 0 \/ acb[s].ind \in {"endcnf", "disccnf"} => Unread(s) = 0

(* What the receiver has done when it is told of the end or the discard;   *)
(* what it assembled belongs to an activity it receives.                   *)
Gathers(s) ==
    /\ acb[Peer(s)].ind \in {"endind", "discind"} => Parts(s) = 0
    /\ acb[Peer(s)].len > 0 => Receives(Peer(s))
    /\ acb[Peer(s)].ind = "endind" => sb[Peer(s)].pr \in {"PR", "MAA"}

(* Behind the end of an activity everything was sent.                      *)
Complete(s) ==
    Ends(s) > 0 => /\ Halts(s) = 0 /\ TurnAt(Peer(s)) = 0
                   /\ Heeds(Peer(s)) => Gathered(s) = log[s].size

(* Before it, what is left makes it whole.                                 *)
Partial(s) ==
    Forwards(s) => /\ acb[s].pc = "done" => acb[s].left = 0
                   /\ Heeds(Peer(s)) => Gathered(s) + acb[s].left = log[s].size

Whole(s) ==
    /\ Sequenced(net[Peer(s)]) /\ Gathers(s) /\ Complete(s)
    /\ Alive(s) => Clear(s) /\ Partial(s)

WholeInv == \A s \in Side : Alive(Peer(s)) => Whole(s)

(* What is known of a transfer whose receiver is there.                    *)
LEMMA WholeScene ==
    ASSUME TransferInv, DeliveryInv, TurnInv, WholeInv, NEW s \in Side, Alive(Peer(s))
    PROVE  /\ Peer(s) \in Side /\ Peer(s) # s /\ Peer(Peer(s)) = s
           /\ ~Closed(sb[Peer(s)]) /\ Whole(s)
           /\ EndChain(s) /\ DiscChain(s) /\ Ending(s)
           /\ \A t \in Side : Placed(t) /\ Busy(t) /\ Owner(t)
           /\ Parts(s) \in Nat /\ Unread(s) \in Nat /\ Gathered(s) \in Nat
           /\ acb[Peer(s)].len \in Nat /\ acb[s].left \in Nat /\ log[s].size \in Nat
           /\ Ends(s) \in Nat /\ Halts(s) \in Nat /\ Confirmed(s) \in Nat
           /\ Closings(s) \in Nat /\ Turns(Peer(s)) \in Nat /\ TurnAt(Peer(s)) \in Nat
           /\ Ends(s) > 0 => Open(s)
           /\ Forwards(s) => Ends(s) = 0 /\ Halts(s) = 0 /\ TurnAt(Peer(s)) = 0
<1> DEFINE p == Peer(s)
<1>1. p \in Side /\ p # s /\ Peer(p) = s
  BY DEF Peer, Side
<1>2. /\ Whole(s) /\ EndChain(s) /\ DiscChain(s) /\ Ending(s) /\ OneTurn(s)
      /\ \A t \in Side : Placed(t) /\ Busy(t) /\ Owner(t)
  BY SideInv DEF WholeInv, DeliveryInv, Delivering, TurnInv, Turning
<1>3. ~Closed(sb[p])
  BY <1>1, <1>2 DEF Alive, Placed, Closed
<1>4. /\ Parts(s) \in Nat /\ acb[p].len \in Nat /\ acb[s].left \in Nat
      /\ log[s].size \in Nat
      /\ Ends(s) \in Nat /\ Halts(s) \in Nat /\ Confirmed(s) \in Nat
      /\ Closings(s) \in Nat /\ Turns(p) \in Nat /\ Turns(s) \in Nat
  BY <1>1, Numbers, TurnNumbers, SideInv DEF Naturals, Parts, TransferInv, RtTypeOK, Log
<1>5. Unread(s) \in Nat /\ Gathered(s) \in Nat /\ TurnAt(p) \in Nat /\ TurnAt(s) \in Nat
  BY <1>4 DEF Unread, Gathered, TurnAt, Bit
<1>6. Ends(s) > 0 => Open(s)
  BY <1>2, <1>4 DEF EndChain, Bit
<1>7. ASSUME Forwards(s) PROVE Ends(s) = 0 /\ Halts(s) = 0 /\ TurnAt(p) = 0
  <2>1. Ends(s) = 0 /\ Halts(s) = 0
    BY <1>2, <1>4, <1>6, <1>7 DEF Forwards, Open, DiscChain, Bit
  <2>2. TurnAt(s) >= 1
    BY <1>4, <1>7 DEF Forwards, Sends, TurnAt, Bit
  <2> QED BY <1>2, <1>5, <2>1, <2>2 DEF OneTurn
<1> QED BY <1>1, <1>2, <1>3, <1>4, <1>5, <1>6, <1>7

(* How the parts of both sides move with a step of one.                    *)
LEMMA PartsMove ==
    ASSUME TransferInv, NEW s \in Side
    PROVE  /\ \A c : Puts(s, c) =>
                /\ Parts(Peer(s))' = Parts(Peer(s))
                /\ ~Closed(sb[Peer(s)]) => Parts(s)' = Parts(s) + Bit(c = "DT")
           /\ Untouched => Parts(s)' = Parts(s) /\ Parts(Peer(s))' = Parts(Peer(s))
           /\ Gets(s) =>
                /\ ~Closed(sb[Peer(s)]) => Parts(s)' = Parts(s)
                /\ Parts(Peer(s))' = Parts(Peer(s)) - Bit(Head(net[s]).code = "DT")
           /\ Loses(s) => \/ Parts(s)' = Parts(s)
                          \/ Parts(s)' = 0 /\ Tally(net'[Peer(s)], "MAP") = 0
<1>1. /\ Parts(s) = Tally(net[Peer(s)], "DT") /\ Parts(s)' = Tally(net'[Peer(s)], "DT")
      /\ Parts(Peer(s)) = Tally(net[s], "DT") /\ Parts(Peer(s))' = Tally(net'[s], "DT")
  BY DEF Parts, Peer, Side
<1>2. "DT" \in Watched /\ "MAP" \in Watched /\ Bit("DT" = "MAP") \in Nat
  BY DEF Watched, Bit
<1>3. ASSUME NEW c, Puts(s, c)
      PROVE  /\ Parts(Peer(s))' = Parts(Peer(s))
             /\ ~Closed(sb[Peer(s)]) => Parts(s)' = Parts(s) + Bit(c = "DT")
  BY <1>1, <1>2, <1>3 DEF Puts, Bit
<1>4. Untouched => Parts(s)' = Parts(s) /\ Parts(Peer(s))' = Parts(Peer(s))
  BY <1>1 DEF Untouched
<1>5. Gets(s) => /\ ~Closed(sb[Peer(s)]) => Parts(s)' = Parts(s)
                 /\ Parts(Peer(s))' = Parts(Peer(s)) - Bit(Head(net[s]).code = "DT")
  BY <1>1, <1>2 DEF Gets
<1>6. Loses(s) => \/ Parts(s)' = Parts(s)
                  \/ Parts(s)' = 0 /\ Tally(net'[Peer(s)], "MAP") = 0
  BY <1>1, <1>2 DEF Loses
<1> QED BY <1>3, <1>4, <1>5, <1>6

(* The shapes of the events: one sends a part, one reads, one loses the    *)
(* association, the others send something else or nothing.                 *)
LEMMA EventShapes ==
    ASSUME NEW s \in Side, Event(s)
    PROVE  \/ SendsPart(s)
           \/ ReadsNext(s) /\ Gets(s)
           \/ LosesAssoc(s) /\ Loses(s)
           \/ Untouched
           \/ \E c : c # "DT" /\ Puts(s, c)
<1>1. ASSUME \E c \in {"GTC", "AS", "MIP", "MIA", "MAP", "MAA", "AI", "AD", "AIA", "ED",
                       "FN", "DN", "PT"} : Puts(s, c)
      PROVE  \E c : c # "DT" /\ Puts(s, c)
  BY <1>1
<1> QED BY <1>1
        DEF Event, LosesAssoc, StaysPut, AsksTurn, GivesTurn, StartsActivity,
            SendsCheckpoint, EndsActivity, InterruptsActivity, ReportsProblem,
            NotesIndication, GainsTurn, ConfirmsCheckpoint, OpensActivity, AcceptsDiscard,
            ClosesActivity, AcceptsEnd, AsksRelease, LeavesRelease, ReadsNext

(* A part is sent while nothing that ends the activity is under way.       *)
LEMMA PartInTime ==
    ASSUME TransferInv, DeliveryInv, TurnInv, WholeInv, NEW s \in Side, Alive(Peer(s)),
           SendsPart(s)
    PROVE  /\ Forwards(s) /\ Alive(s) /\ ~Open(s) /\ Ends(s) + Confirmed(s) <= 0
           /\ Halts(s) <= 0
           /\ acb[s].ind = "none"
<1>1. acb[s].pc = "data" /\ "AI" \notin sb[s].flags
  BY DEF SendsPart, ssapPsig, Has
<1>2. acb[s].ind = "none" /\ Sends(s)
  BY <1>1, WholeScene DEF Placed, Busy
<1>3. Forwards(s) /\ Alive(s) /\ ~Open(s)
  BY <1>1, <1>2 DEF Forwards, Alive, Open
<1> QED BY <1>2, <1>3, WholeScene DEF EndChain, Bit

(* No part gets behind the end or the discard.                             *)
LEMMA SequencedKept ==
    ASSUME TransferInv, DeliveryInv, TurnInv, WholeInv, NEW s \in Side, Event(s)
    PROVE  /\ Alive(Peer(s)) => Sequenced(net'[Peer(s)])
           /\ Alive(s) /\ acb'[s].pc # "gone" => Sequenced(net'[s])
<1> DEFINE p == Peer(s)
<1>1. p \in Side /\ Peer(p) = s
  BY DEF Peer, Side
<1>2. /\ net[s] \in Seq(SpduSet) /\ net[p] \in Seq(SpduSet)
      /\ \A k : Tally(net[p], k) \in Nat
  BY <1>1, Numbers DEF TransferInv, TypeOK, Naturals
<1>3. /\ Alive(p) => Sequenced(net[p])
      /\ Alive(s) => Sequenced(net[s])
  BY <1>1 DEF WholeInv, Whole
<1>4. \A a : a.code \in {"MAP", "AI", "AD", "DT"} => Matters(a)
  BY DEF Matters, Watched
<1>5. ASSUME Alive(p) PROVE Sequenced(net'[p])
  <2>1. ASSUME Follows(net[p], net'[p]) PROVE Sequenced(net'[p])
    BY <1>3, <1>4, <1>5, <2>1 DEF Sequenced, Follows
  <2>2. ASSUME NEW m, Enters(net[p], net'[p], m),
               m.code = "DT" => \A a : Bears(net[p], a) => a.code \notin {"MAP", "AI", "AD"}
        PROVE  Sequenced(net'[p])
    BY <1>3, <1>4, <1>5, <2>2 DEF Sequenced, Enters
  <2>3. CASE SendsPart(s)
    <3>1. Tally(net[p], "MAP") = 0 /\ Tally(net[p], "AI") = 0 /\ Tally(net[p], "AD") = 0
      BY <1>5, <2>3, PartInTime, NoClosing
    <3>2. \A a : Bears(net[p], a) => a.code \notin {"MAP", "AI", "AD"}
      BY <1>2, <3>1, TallyBears
    <3> QED BY <2>2, <2>3, <3>2 DEF SendsPart, Puts
  <2>4. CASE Gets(s) \/ Loses(s)
    BY <2>1, <2>4 DEF Gets, Loses
  <2>5. CASE Untouched
    BY <1>3, <1>5, <2>5 DEF Untouched
  <2>6. CASE \E c : c # "DT" /\ Puts(s, c)
    BY <2>2, <2>6 DEF Puts
  <2> QED BY <2>3, <2>4, <2>5, <2>6, EventShapes
<1>6. ASSUME Alive(s), acb'[s].pc # "gone" PROVE Sequenced(net'[s])
  <2>1. CASE net'[s] = net[s]
    BY <1>3, <1>6, <2>1
  <2>2. CASE Gets(s)
    BY <1>2, <1>3, <1>6, <2>2, FollowsTail DEF Gets, Sequenced
  <2>3. CASE LosesAssoc(s)
    BY <1>6, <2>3 DEF LosesAssoc, Fields
  <2> QED BY <2>1, <2>2, <2>3, EventShapes DEF SendsPart, Puts, Untouched
<1> QED BY <1>5, <1>6

(* What a step of the sender does to what is under way to its peer.        *)
LEMMA SenderMoves ==
    ASSUME TransferInv, TransferInv', DeliveryInv, TurnInv, WholeInv, NEW s \in Side,
           Event(s), Frame(s), Alive(Peer(s))
    PROVE  /\ acb'[Peer(s)] = acb[Peer(s)] /\ sb'[Peer(s)] = sb[Peer(s)]
           /\ (Alive(Peer(s)))' /\ Heeds(Peer(s))' = Heeds(Peer(s))
           /\ Ends(s)' \in Nat /\ Halts(s)' \in Nat /\ TurnAt(Peer(s))' \in Nat
           /\ Unread(s)' = Parts(s)' + Bit(acb[Peer(s)].ind = "data")
           /\ Gathered(s)' = Unread(s)' + acb[Peer(s)].len
           /\ Ends(s)' <= Ends(s) \/ EndsActivity(s)
           /\ Halts(s)' <= Halts(s) \/ InterruptsActivity(s)
           /\ TurnAt(Peer(s))' <= TurnAt(Peer(s)) \/ GivesTurn(s)
           /\ IF SendsPart(s) THEN Parts(s)' = Parts(s) + 1
              ELSE \/ Parts(s)' = Parts(s)
                   \/ /\ Parts(s)' = 0 /\ Tally(net'[Peer(s)], "MAP") = 0
                      /\ acb'[s].pc = "gone"
<1> DEFINE p == Peer(s)
<1>1. /\ p \in Side /\ Peer(p) = s /\ acb'[p] = acb[p] /\ sb'[p] = sb[p]
      /\ ~Closed(sb[p])
  BY WholeScene, OtherSide
<1>2. /\ Ends(s) \in Nat /\ Halts(s) \in Nat /\ Turns(p) \in Nat
      /\ Ends(s)' \in Nat /\ Halts(s)' \in Nat /\ Turns(p)' \in Nat
  BY <1>1, Numbers, TurnNumbers DEF Naturals
<1>3. /\ TurnAt(p)' = Bit(In(p, "TURN")) + Turns(p)' + Bit(acb[p].ind = "control")
      /\ TurnAt(p) = Bit(In(p, "TURN")) + Turns(p) + Bit(acb[p].ind = "control")
      /\ Bit(In(p, "TURN")) \in Nat /\ Bit(acb[p].ind = "control") \in Nat
  BY <1>1 DEF TurnAt, In, Bit
<1>4. ASSUME NEW c, Puts(s, c)
      PROVE  /\ Ends(s)' <= Ends(s) + Bit(c = "MAP")
             /\ Halts(s)' <= Halts(s) + Bit(c = "AI") + Bit(c = "AD")
             /\ Turns(p)' <= Turns(p) + Bit(c = "GTC")
             /\ Parts(s)' = Parts(s) + Bit(c = "DT")
  <2>1. Deltas(s, c, "none") /\ TurnMoves(s, c, "none")
    BY <1>1, <1>4, CountsMove, TurnsMove
  <2>2. Bit("none" = "AIA") = 0 /\ Bit(c = "AI") \in Nat /\ Bit(c = "AD") \in Nat
    BY DEF Bit
  <2>3. Halts(s)' <= Halts(s) + Bit(c = "AI") + Bit(c = "AD")
    BY <1>2, <2>1, <2>2 DEF Deltas
  <2> QED BY <1>1, <1>4, <2>1, <2>3, PartsMove DEF Deltas, TurnMoves
<1>5. ASSUME Untouched \/ Gets(s)
      PROVE  /\ Ends(s)' <= Ends(s) /\ Halts(s)' <= Halts(s) /\ Turns(p)' <= Turns(p)
             /\ Parts(s)' = Parts(s)
  <2>1. PICK h : Deltas(s, "none", h) /\ TurnMoves(s, "none", h)
    BY <1>1, <1>5, CountsMove, TurnsMove
  <2>2. /\ Bit("none" = "MAP") = 0 /\ Bit("none" = "AI") = 0 /\ Bit("none" = "AD") = 0
        /\ Bit("none" = "GTC") = 0 /\ Bit(h = "AIA") \in Nat
    BY DEF Bit
  <2>3. Ends(s)' <= Ends(s) /\ Halts(s)' <= Halts(s)
    BY <1>2, <2>1, <2>2 DEF Deltas
  <2>4. Turns(p)' <= Turns(p)
    BY <1>2, <2>1, <2>2 DEF TurnMoves
  <2> QED BY <1>1, <1>5, <2>3, <2>4, PartsMove
<1>6. ASSUME Loses(s), acb'[s].ind = "none"
      PROVE  /\ Ends(s)' <= Ends(s) /\ Halts(s)' <= Halts(s) /\ Turns(p)' <= Turns(p)
             /\ \/ Parts(s)' = Parts(s)
                \/ Parts(s)' = 0 /\ Tally(net'[p], "MAP") = 0
  BY <1>1, <1>6, CountsMove, TurnsMove, PartsMove DEF Drops, TurnDrops
<1>7. \A c, k : c # k => Bit(c = k) = 0
  BY DEF Bit
<1>8. Ends(s)' <= Ends(s) \/ EndsActivity(s)
  <2>1. \A c : c # "MAP" /\ Puts(s, c) => Ends(s)' <= Ends(s)
    BY <1>2, <1>4, <1>7
  <2> QED BY <1>5, <1>6, <2>1
        DEF Event, LosesAssoc, StaysPut, AsksTurn, GivesTurn, StartsActivity, SendsPart,
            SendsCheckpoint, InterruptsActivity, ReportsProblem, NotesIndication,
            GainsTurn, ConfirmsCheckpoint, OpensActivity, AcceptsDiscard, ClosesActivity,
            AcceptsEnd, AsksRelease, LeavesRelease, ReadsNext, Fields
<1>9. Halts(s)' <= Halts(s) \/ InterruptsActivity(s)
  <2>1. \A c : c \notin {"AI", "AD"} /\ Puts(s, c) => Halts(s)' <= Halts(s)
    BY <1>2, <1>4, <1>7
  <2> QED BY <1>5, <1>6, <2>1
        DEF Event, LosesAssoc, StaysPut, AsksTurn, GivesTurn, StartsActivity, SendsPart,
            SendsCheckpoint, EndsActivity, ReportsProblem, NotesIndication,
            GainsTurn, ConfirmsCheckpoint, OpensActivity, AcceptsDiscard, ClosesActivity,
            AcceptsEnd, AsksRelease, LeavesRelease, ReadsNext, Fields
<1>10. TurnAt(p)' <= TurnAt(p) \/ GivesTurn(s)
  <2>1. ASSUME NEW c, c # "GTC", Puts(s, c) PROVE Turns(p)' <= Turns(p)
    <3>1. Turns(p)' <= Turns(p) + Bit(c = "GTC") /\ Bit(c = "GTC") = 0
      BY <1>4, <1>7, <2>1
    <3> QED BY <1>2, <3>1
  <2>2. Turns(p)' <= Turns(p) \/ GivesTurn(s)
    BY <1>5, <1>6, <2>1
       DEF Event, LosesAssoc, StaysPut, AsksTurn, StartsActivity, SendsPart,
            SendsCheckpoint, EndsActivity, InterruptsActivity, ReportsProblem,
            NotesIndication, GainsTurn, ConfirmsCheckpoint, OpensActivity, AcceptsDiscard,
            ClosesActivity, AcceptsEnd, AsksRelease, LeavesRelease, ReadsNext, Fields
  <2> QED BY <1>2, <1>3, <2>2
<1>11. IF SendsPart(s) THEN Parts(s)' = Parts(s) + 1
       ELSE \/ Parts(s)' = Parts(s)
            \/ /\ Parts(s)' = 0 /\ Tally(net'[p], "MAP") = 0
               /\ acb'[s].pc = "gone"
  <2>1. Parts(s) \in Nat
    BY WholeScene
  <2>2. CASE SendsPart(s)
    BY <1>4, <2>1, <2>2 DEF SendsPart, Bit
  <2>3. CASE LosesAssoc(s) /\ Loses(s)
    BY <1>1, <1>6, <2>3 DEF LosesAssoc, Fields, SendsPart
  <2>4. ASSUME NEW c, c # "DT", Puts(s, c) PROVE Parts(s)' = Parts(s)
    BY <1>4, <1>7, <2>1, <2>4
  <2> QED BY <1>5, <2>2, <2>3, <2>4, EventShapes
<1>12. /\ Unread(s)' = Parts(s)' + Bit(acb[p].ind = "data")
       /\ Gathered(s)' = Unread(s)' + acb[p].len
       /\ Heeds(p)' = Heeds(p) /\ (Alive(p))'
  BY <1>1 DEF Unread, Gathered, Heeds, Alive
<1> QED BY <1>1, <1>2, <1>3, <1>8, <1>9, <1>10, <1>11, <1>12 DEF Bit

(* A step of the sender: its peer is told of the end when all was sent.    *)
LEMMA CompleteMine ==
    ASSUME TransferInv, TransferInv', DeliveryInv, TurnInv, WholeInv, NEW s \in Side,
           Event(s), Frame(s), Alive(Peer(s))
    PROVE  Complete(s)'
<1> DEFINE p == Peer(s)
<1> SUFFICES ASSUME Ends(s)' > 0
             PROVE  /\ Halts(s)' = 0 /\ TurnAt(p)' = 0
                    /\ Heeds(p) => Gathered(s)' = log'[s].size
  BY SenderMoves DEF Complete
<1>1. /\ p \in Side /\ Peer(p) = s /\ Complete(s) /\ Gathers(s) /\ Placed(s) /\ Busy(s)
      /\ Alive(s) => Partial(s)
      /\ Ending(s) /\ DiscChain(s) /\ (Ends(s) > 0 => Open(s))
      /\ Forwards(s) => Ends(s) = 0 /\ Halts(s) = 0 /\ TurnAt(p) = 0
  BY WholeScene DEF Whole
<1>2. /\ Ends(s) \in Nat /\ Halts(s) \in Nat /\ TurnAt(p) \in Nat
      /\ Parts(s) \in Nat /\ acb[p].len \in Nat /\ log[s].size \in Nat
      /\ Ends(s)' \in Nat /\ Halts(s)' \in Nat /\ TurnAt(p)' \in Nat
  BY WholeScene, SenderMoves
<1>3. CASE EndsActivity(s)
  <2>1. /\ acb[s].pc = "done" /\ acb[s].ind = "none" /\ "AI" \notin sb[s].flags
        /\ log'[s].size = log[s].size
    BY <1>3 DEF EndsActivity, ssapPsig, Has, Counts
  <2>2. Forwards(s) /\ Alive(s)
    BY <1>1, <2>1 DEF Forwards, Busy, Alive
  <2>3. Heeds(p) => Gathered(s) = log[s].size
    <3>1. acb[s].left = 0 /\ (Heeds(p) => Gathered(s) + acb[s].left = log[s].size)
      BY <1>1, <2>1, <2>2 DEF Partial
    <3> QED BY <1>2, <3>1, WholeScene
  <2>4. ~SendsPart(s) /\ ~InterruptsActivity(s) /\ ~GivesTurn(s) /\ acb'[s].pc # "gone"
    BY <1>3, <2>1 DEF SendsPart, InterruptsActivity, GivesTurn, EndsActivity, Fields
  <2>5. Parts(s)' = Parts(s) /\ Halts(s)' <= Halts(s) /\ TurnAt(p)' <= TurnAt(p)
    BY <2>4, SenderMoves
  <2>6. Gathered(s)' = Gathered(s)
    BY <2>5, SenderMoves DEF Gathered, Unread
  <2> QED BY <1>1, <1>2, <2>1, <2>2, <2>3, <2>5, <2>6
<1>4. CASE ~EndsActivity(s)
  <2>1. Ends(s) > 0
    BY <1>2, <1>4, SenderMoves
  <2>2. /\ acb[s].pc = "gone" \/ (acb[s].pc = "end" /\ ~In(s, "TIMER"))
        /\ Halts(s) = 0 /\ TurnAt(p) = 0 /\ (Heeds(p) => Gathered(s) = log[s].size)
    BY <1>1, <2>1 DEF Open, Complete
  <2>3. ~SendsPart(s) /\ ~GivesTurn(s)
    BY <2>2 DEF SendsPart, GivesTurn
  <2>4. ~InterruptsActivity(s)
    <3>1. acb[s].pc = "gone" => acb[s].ind = "none"
      BY <1>1 DEF Placed
    <3>2. acb[s].pc = "end" => acb[s].ind = "endcnf" \/ "MAP" \in sb[s].flags
      BY <1>1, <2>2 DEF Ending
    <3> QED BY <2>2, <3>1, <3>2 DEF InterruptsActivity
  <2>5. Halts(s)' <= Halts(s) /\ TurnAt(p)' <= TurnAt(p)
    BY <2>3, <2>4, SenderMoves
  <2>6. log'[s].size = log[s].size
    BY <2>2
       DEF Event, LosesAssoc, StaysPut, AsksTurn, GivesTurn, StartsActivity, SendsPart,
           SendsCheckpoint, EndsActivity, InterruptsActivity, ReportsProblem,
           NotesIndication, GainsTurn, ConfirmsCheckpoint, OpensActivity, AcceptsDiscard,
           ClosesActivity, AcceptsEnd, AsksRelease, LeavesRelease, ReadsNext, Idle, Counts
  <2>7. Parts(s)' = Parts(s)
    <3>1. CASE Parts(s)' = 0 /\ Tally(net'[p], "MAP") = 0
      <4>1. acb[p].ind = "endind"
        BY <3>1, SenderMoves DEF Ends, Bit
      <4> QED BY <1>1, <3>1, <4>1 DEF Gathers
    <3> QED BY <2>3, <3>1, SenderMoves
  <2>8. Gathered(s)' = Gathered(s)
    BY <2>7, SenderMoves DEF Gathered, Unread
  <2> QED BY <1>2, <2>2, <2>5, <2>6, <2>8
<1> QED BY <1>3, <1>4

(* Parts are sent and acknowledged inside the sender's activity.           *)
LEMMA ClearMine ==
    ASSUME TransferInv, TransferInv', DeliveryInv, TurnInv, WholeInv, NEW s \in Side,
           Event(s), Frame(s), Alive(Peer(s)), acb'[s].pc # "gone", Alive(s)
    PROVE  Clear(s)'
<1> DEFINE p == Peer(s)
<1>1. Clear(s) /\ Parts(s) \in Nat /\ Unread(s) \in Nat
  BY WholeScene DEF Whole
<1>2. ~SendsPart(s) => Unread(s)' = Unread(s)
  BY SenderMoves DEF Unread
<1>3. Unread(s)' > 0 => Sends(s)'
  <2>1. CASE SendsPart(s)
    <3>1. Sends(s)
      BY <2>1, PartInTime DEF Forwards
    <3> QED BY <2>1, <3>1 DEF SendsPart, Sends, In
  <2>2. CASE ~SendsPart(s)
    <3> SUFFICES ASSUME Unread(s) > 0 PROVE Sends(s)'
      BY <1>2, <2>2
    <3>1. Sends(s) /\ acb[s].ind \notin {"endcnf", "disccnf"}
      BY <1>1 DEF Clear
    <3>2. SendsCheckpoint(s) \/ ConfirmsCheckpoint(s) \/ ReadsNext(s) => Sends(s)'
      BY <3>1 DEF SendsCheckpoint, ConfirmsCheckpoint, ReadsNext, Sends, In
    <3> QED BY <3>1, <3>2, PointEvents DEF Pointless
  <2> QED BY <2>1, <2>2
<1>4. ASSUME Closings(s)' > 0 \/ acb'[s].ind \in {"endcnf", "disccnf"}
      PROVE  Closings(s) > 0 \/ acb[s].ind \in {"endcnf", "disccnf"}
  <2>1. Closings(s) \in Nat /\ Closings(s)' \in Nat
    BY TurnNumbers
  <2>2. CASE ReadsNext(s)
    <3>1. Closings(s)' = Closings(s) - Bit(Head(net[s]).code \in {"MAA", "AIA"})
      BY <2>2, ClosingsMove
    <3>2. acb'[s].ind \in {"endcnf", "disccnf"} => Head(net[s]).code \in {"MAA", "AIA"}
      BY <2>2 DEF ReadsNext, Effect, IndicationOf
    <3> QED BY <1>4, <2>1, <3>1, <3>2 DEF Bit
  <2>3. CASE ~ReadsNext(s)
    <3>1. acb'[s].ind \in {"none", acb[s].ind}
      BY <2>3, PointEvents DEF SendsCheckpoint, ConfirmsCheckpoint, Fields, Pointless
    <3>2. net'[s] = net[s]
      BY <2>3, EventShapes DEF LosesAssoc, Fields, Untouched, Puts, SendsPart
    <3> QED BY <1>4, <3>1, <3>2 DEF Closings
  <2> QED BY <2>2, <2>3
<1>5. ASSUME Closings(s)' > 0 \/ acb'[s].ind \in {"endcnf", "disccnf"}
      PROVE  Unread(s)' = 0
  <2>1. Closings(s) > 0 \/ acb[s].ind \in {"endcnf", "disccnf"}
    BY <1>4, <1>5
  <2>2. ~SendsPart(s)
    <3> SUFFICES ASSUME SendsPart(s) PROVE FALSE
      OBVIOUS
    <3>1. Closings(s) = 0 /\ acb[s].ind = "none"
      BY PartInTime, NoClosing
    <3> QED BY <2>1, <3>1
  <2> QED BY <1>1, <1>2, <2>1, <2>2 DEF Clear
<1> QED BY <1>3, <1>5 DEF Clear

(* What is sent is no longer left; at first everything is.                 *)
LEMMA PartialMine ==
    ASSUME TransferInv, TransferInv', DeliveryInv, TurnInv, WholeInv, NEW s \in Side,
           Event(s), Frame(s), Alive(Peer(s)), acb'[s].pc # "gone", Alive(s)
    PROVE  Partial(s)'
<1> DEFINE p == Peer(s)
<1> SUFFICES ASSUME Forwards(s)'
             PROVE  /\ acb'[s].pc = "done" => acb'[s].left = 0
                    /\ Heeds(p) => Gathered(s)' + acb'[s].left = log'[s].size
  BY SenderMoves DEF Partial
<1>1. /\ p \in Side /\ Peer(p) = s /\ Partial(s) /\ Clear(s) /\ Gathers(s)
      /\ Placed(s) /\ Owner(p)
      /\ Parts(s) \in Nat /\ Unread(s) \in Nat /\ acb[p].len \in Nat
      /\ acb[s].left \in Nat /\ log[s].size \in Nat
  BY WholeScene DEF Whole
<1>2. /\ "ACT" \in acb'[s].flags /\ "TURN" \in acb'[s].flags
      /\ acb'[s].pc \in {"data", "ckpoint", "window", "done"}
      /\ "AI" \notin sb'[s].flags /\ acb'[s].ind # "disccnf"
  BY DEF Forwards, Sends, In
<1>3. CASE StartsActivity(s)
  <2>1. acb'[s].left = log'[s].size /\ acb'[s].pc = "data" /\ ~In(s, "ACT") /\ In(s, "TURN")
    BY <1>3 DEF StartsActivity, Fields
  <2>2. Unread(s) = 0
    BY <1>1, <2>1 DEF Clear, Sends
  <2>3. ActChain(s)
    BY <1>1 DEF TurnInv, Turning, BothAlive, Alive, Peer, Side
  <2>4. ~Active(s)
    BY <1>3 DEF StartsActivity, Active
  <2>5. ~Active(p)
    BY <1>1, <2>1, <2>3, <2>4, TurnNumbers DEF ActChain, Bit
  <2>6. acb[p].len = 0
    BY <1>1, <2>5 DEF Gathers, Owner
  <2>7. ~SendsPart(s)
    BY <2>1, <1>3 DEF SendsPart, StartsActivity, Idle
  <2>8. Unread(s)' = Unread(s) /\ Gathered(s)' = Unread(s)' + acb[p].len
    BY <2>7, SenderMoves DEF Unread
  <2>9. log'[s].size \in Nat
    BY DEF TransferInv, RtTypeOK, Log
  <2> QED BY <2>1, <2>2, <2>6, <2>8, <2>9
<1>4. CASE SendsPart(s)
  <2>1. Forwards(s) /\ acb[s].left >= 1
    BY <1>1, <1>4, PartInTime, SideInv DEF Busy, SendsPart
  <2>2. acb'[s].left = acb[s].left - 1 /\ (acb'[s].pc = "done" => acb'[s].left = 0)
    BY <1>4 DEF SendsPart
  <2>3. log'[s].size = log[s].size
    BY <1>4 DEF SendsPart, Counts
  <2>4. Gathered(s)' = Gathered(s) + 1
    <3>1. Parts(s)' = Parts(s) + 1
      BY <1>4, SenderMoves
    <3> QED BY <1>1, <3>1, SenderMoves DEF Gathered, Unread, Bit
  <2>5. Heeds(p) => Gathered(s) + acb[s].left = log[s].size
    BY <1>1, <2>1 DEF Partial
  <2>6. Gathered(s) \in Nat
    BY WholeScene
  <2> QED BY <1>1, <2>2, <2>3, <2>4, <2>5, <2>6
<1>5. CASE ~StartsActivity(s) /\ ~SendsPart(s)
  <2>1. /\ acb'[s].left = acb[s].left /\ log'[s].size = log[s].size
        /\ In(s, "ACT") /\ In(s, "TURN") /\ "AI" \notin sb[s].flags
        /\ acb[s].ind # "disccnf"
        /\ acb[s].pc \in {"data", "ckpoint", "window", "done"}
        /\ acb'[s].pc = "done" => acb[s].pc = "done"
    <3>1. CASE StaysPut(s)
      BY <1>2, <3>1 DEF StaysPut, Untouched, SameTurn, SameWindow, Counts, In
    <3>2. CASE SendsCheckpoint(s)
      BY <1>1, <1>2, <3>2 DEF SendsCheckpoint, Counts, In, ssapPsig, Has, Placed
    <3>3. CASE NotesIndication(s)
      BY <1>2, <3>3 DEF NotesIndication, Untouched, SameTurn, Counts, In
    <3>4. CASE ReadsNext(s)
      BY <1>2, <3>4 DEF ReadsNext, Effect, SameWindow, Counts, In
    <3>5. CASE AsksTurn(s) \/ GivesTurn(s) \/ AsksRelease(s) \/ EndsActivity(s)
      BY <1>2, <3>5 DEF AsksTurn, GivesTurn, AsksRelease, EndsActivity, Fields, Idle
    <3>6. CASE InterruptsActivity(s)
      BY <1>2, <3>6 DEF InterruptsActivity
    <3>7. CASE ReportsProblem(s) \/ ConfirmsCheckpoint(s) \/ OpensActivity(s)
               \/ AcceptsDiscard(s) \/ AcceptsEnd(s)
      BY <1>2, <3>7 DEF ReportsProblem, ConfirmsCheckpoint, OpensActivity,
                        AcceptsDiscard, AcceptsEnd, Receives, In
    <3>8. CASE GainsTurn(s) \/ ClosesActivity(s)
      BY <1>2, <3>8 DEF GainsTurn, ClosesActivity, In
    <3>9. CASE LosesAssoc(s) \/ LeavesRelease(s)
      BY <3>9 DEF LosesAssoc, LeavesRelease, Fields
    <3> QED BY <1>5, <3>1, <3>2, <3>3, <3>4, <3>5, <3>6, <3>7, <3>8, <3>9 DEF Event
  <2>2. Forwards(s)
    BY <2>1 DEF Forwards, Sends
  <2>3. Gathered(s)' = Gathered(s)
    BY <1>5, SenderMoves DEF Gathered, Unread
  <2> QED BY <1>1, <2>1, <2>2, <2>3 DEF Partial
<1> QED BY <1>3, <1>4, <1>5

(* Who is gone stays gone.                                                 *)
LEMMA StaysAlive ==
    ASSUME TransferInv, NEW s \in Side, Event(s), acb'[s].pc # "gone"
    PROVE  Alive(s)
BY SideInv
   DEF Event, LosesAssoc, StaysPut, AsksTurn, GivesTurn, StartsActivity, SendsPart,
       SendsCheckpoint, EndsActivity, InterruptsActivity, ReportsProblem,
       NotesIndication, GainsTurn, ConfirmsCheckpoint, OpensActivity, AcceptsDiscard,
       ClosesActivity, AcceptsEnd, AsksRelease, LeavesRelease, ReadsNext, Fields, Idle,
       Placed, Receives, Sends, In, Alive

(* A step of the sender.                                                   *)
LEMMA WholeMine ==
    ASSUME TransferInv, TransferInv', DeliveryInv, TurnInv, WholeInv, NEW s \in Side,
           Event(s), Frame(s), Alive(Peer(s))
    PROVE  Whole(s)'
<1> DEFINE p == Peer(s)
<1>1. /\ p \in Side /\ Peer(p) = s /\ Gathers(s) /\ Parts(s) \in Nat
      /\ Ends(s) \in Nat /\ Halts(s) \in Nat /\ Confirmed(s) \in Nat
  BY WholeScene DEF Whole
<1>3. Gathers(s)'
  <2>1. ASSUME acb[p].ind \in {"endind", "discind"} PROVE Parts(s)' = 0
    <3>1. ~SendsPart(s)
      BY <2>1, PartInTime, NoClosing
    <3> QED BY <1>1, <2>1, <3>1, SenderMoves DEF Gathers
  <2> QED BY <1>1, <2>1, SenderMoves DEF Gathers, Receives, In
<1>4. acb'[s].pc # "gone" => Clear(s)' /\ Partial(s)'
  BY StaysAlive, ClearMine, PartialMine
<1> QED BY <1>3, <1>4, CompleteMine, SequencedKept DEF Whole, Alive

(* What a step of the receiver does to what it has of the transfer of s.   *)
LEMMA ReceiverMoves ==
    ASSUME TransferInv, TransferInv', DeliveryInv, TurnInv, WholeInv, NEW s \in Side,
           Alive(Peer(s)), Event(Peer(s)), Frame(Peer(s)), acb'[Peer(s)].pc # "gone"
    PROVE  /\ acb'[s] = acb[s] /\ sb'[s] = sb[s] /\ log'[s] = log[s]
           /\ Ends(s)' \in Nat /\ Halts(s)' \in Nat /\ Parts(s)' \in Nat
           /\ Unread(s)' \in Nat /\ acb'[Peer(s)].len \in Nat /\ Closings(s)' \in Nat
           /\ IF ReadsNext(Peer(s))
              THEN /\ net[Peer(s)] # <<>> /\ net'[Peer(s)] = Tail(net[Peer(s)])
                   /\ Parts(s)' = Parts(s) - Bit(Head(net[Peer(s)]).code = "DT")
                   /\ acb[Peer(s)].ind = "none"
              ELSE /\ Parts(s)' = Parts(s)
                   /\ acb'[Peer(s)].ind \in {"none", acb[Peer(s)].ind}
           /\ Unread(s)' <= Unread(s)
<1> DEFINE p == Peer(s)
<1>1. /\ p \in Side /\ Peer(p) = s /\ acb'[s] = acb[s] /\ sb'[s] = sb[s]
      /\ log'[s] = log[s]
  <2>1. p \in Side /\ Peer(p) = s
    BY DEF Peer, Side
  <2> QED BY <2>1, OtherSide DEF Frame
<1>2. /\ Ends(s)' \in Nat /\ Halts(s)' \in Nat /\ Closings(s)' \in Nat
      /\ Parts(s) \in Nat /\ Parts(s)' \in Nat /\ acb'[p].len \in Nat
  <2>1. acb'[p].len \in Nat
    BY <1>1 DEF TransferInv, RtTypeOK, assocblk
  <2> QED BY <1>1, <2>1, WholeScene, Numbers, TurnNumbers DEF Naturals, Parts
<1>3. Unread(s)' = Parts(s)' + Bit(acb'[p].ind = "data")
  BY DEF Unread
<1>4. CASE ReadsNext(p)
  <2>1. /\ net[p] # <<>> /\ net'[p] = Tail(net[p]) /\ acb[p].ind = "none" /\ Gets(p)
        /\ acb'[p].ind = "data" => Head(net[p]).code = "DT"
    BY <1>4 DEF ReadsNext, Gets, Effect, IndicationOf
  <2>2. Parts(s)' = Parts(s) - Bit(Head(net[p]).code = "DT")
    BY <1>1, <2>1, PartsMove
  <2>3. Unread(s)' <= Unread(s)
    BY <1>2, <1>3, <2>1, <2>2 DEF Unread, Bit
  <2> QED BY <1>1, <1>2, <1>3, <1>4, <2>1, <2>2, <2>3 DEF Bit
<1>5. CASE ~ReadsNext(p)
  <2>1. acb'[p].ind \in {"none", acb[p].ind}
    BY <1>1, <1>5, PointEvents
       DEF SendsCheckpoint, ConfirmsCheckpoint, Fields, Pointless
  <2>2. Parts(s)' = Parts(s)
    <3>1. Untouched \/ \E c : Puts(p, c)
      BY <1>1, <1>5, EventShapes DEF LosesAssoc, Fields, SendsPart
    <3> QED BY <1>1, <3>1, PartsMove
  <2>3. Unread(s)' <= Unread(s)
    BY <1>2, <1>3, <2>1, <2>2 DEF Unread, Bit
  <2> QED BY <1>1, <1>2, <1>3, <1>5, <2>1, <2>2, <2>3 DEF Bit
<1> QED BY <1>4, <1>5

(* What it assembled, it assembled in an activity that goes on.            *)
LEMMA GathersTheirs ==
    ASSUME TransferInv, TransferInv', DeliveryInv, TurnInv, WholeInv, NEW s \in Side,
           Alive(Peer(s)), Event(Peer(s)), Frame(Peer(s)), acb'[Peer(s)].pc # "gone"
    PROVE  Gathers(s)'
<1> DEFINE p == Peer(s)
<1>1. /\ p \in Side /\ Peer(p) = s /\ Gathers(s) /\ Sequenced(net[p]) /\ Placed(p)
      /\ acb[p].len \in Nat /\ Parts(s) \in Nat /\ net[p] \in Seq(SpduSet)
  BY WholeScene DEF Whole, TransferInv, TypeOK
<1>2. ASSUME acb'[p].ind \in {"endind", "discind"} PROVE Parts(s)' = 0
  <2>1. CASE ReadsNext(p)
    <3>1. Head(net[p]).code \in {"MAP", "AI", "AD"}
      BY <1>2, <2>1 DEF ReadsNext, Effect, IndicationOf
    <3>2. net[p] # <<>> /\ net'[p] = Tail(net[p])
      BY <2>1, ReceiverMoves
    <3>3. \A a : Bears(Tail(net[p]), a) => a.code # "DT"
      BY <1>1, <3>1, <3>2, FollowsTail DEF Sequenced
    <3>4. Tail(net[p]) \in Seq(SpduSet)
      BY <1>1, <3>2
    <3> QED BY <3>2, <3>3, <3>4, TallyBears DEF Parts
  <2>2. CASE ~ReadsNext(p)
    BY <1>1, <1>2, <2>2, ReceiverMoves DEF Gathers
  <2> QED BY <2>1, <2>2
<1>3. ASSUME acb'[p].len > 0 PROVE Receives(p)'
  <2> SUFFICES "ACT" \in acb'[p].flags /\ "TURN" \notin acb'[p].flags
    BY DEF Receives, In
  <2>1. acb[p].len > 0 => "ACT" \in acb[p].flags /\ "TURN" \notin acb[p].flags
    BY <1>1 DEF Gathers, Receives, In
  <2>2. CASE NotesIndication(p)
    <3>1. acb[p].len > 0 \/ acb[p].ind = "data"
      BY <1>1, <1>3, <2>2 DEF NotesIndication, Bit
    <3> QED BY <2>1, <2>2, <3>1 DEF NotesIndication, SameTurn, Receives, In
  <2>3. CASE ReportsProblem(p)
    BY <1>1, <1>3, <2>1, <2>3 DEF ReportsProblem
  <2>4. CASE AcceptsDiscard(p) \/ AcceptsEnd(p) \/ LosesAssoc(p) \/ LeavesRelease(p)
    BY <1>3, <2>4 DEF AcceptsDiscard, AcceptsEnd, LosesAssoc, LeavesRelease, Fields
  <2>5. CASE StaysPut(p) \/ AsksTurn(p) \/ SendsPart(p) \/ SendsCheckpoint(p)
             \/ EndsActivity(p) \/ ConfirmsCheckpoint(p) \/ AsksRelease(p) \/ ReadsNext(p)
    BY <1>3, <2>1, <2>5
       DEF StaysPut, AsksTurn, SendsPart, SendsCheckpoint, EndsActivity,
           ConfirmsCheckpoint, AsksRelease, ReadsNext, SameTurn, SameLen
  <2>6. CASE GivesTurn(p) \/ StartsActivity(p) \/ GainsTurn(p) \/ ClosesActivity(p)
    BY <1>3, <2>1, <2>6
       DEF GivesTurn, StartsActivity, GainsTurn, ClosesActivity, SameLen, Sends, In
  <2>7. CASE OpensActivity(p)
    BY <1>3, <2>1, <2>7 DEF OpensActivity, SameLen, In
  <2>8. CASE InterruptsActivity(p)
    BY <1>3, <2>1, <2>8 DEF InterruptsActivity, SameTurn, SameLen
  <2> QED BY <2>2, <2>3, <2>4, <2>5, <2>6, <2>7, <2>8 DEF Event
<1>4. ASSUME acb'[p].ind = "endind" PROVE sb'[p].pr \in {"PR", "MAA"}
  <2>1. CASE ReadsNext(p)
    <3>1. sb[p].mode = "open"
      BY <1>4, <2>1 DEF ReadsNext
    <3> QED BY <1>4, <2>1, <3>1 DEF ReadsNext, Hearing
  <2>2. CASE ~ReadsNext(p)
    <3>1. acb[p].ind = "endind"
      BY <1>4, <2>2, ReceiverMoves
    <3>2. StaysPut(p) \/ AsksTurn(p)
      BY <1>4, <2>2, ReceiverMoves
         DEF Event, LosesAssoc, GivesTurn, StartsActivity, SendsPart, SendsCheckpoint,
             EndsActivity, InterruptsActivity, ReportsProblem, NotesIndication, GainsTurn,
             ConfirmsCheckpoint, OpensActivity, AcceptsDiscard, ClosesActivity, AcceptsEnd,
             AsksRelease, LeavesRelease, Fields
    <3> QED BY <3>1, <3>2 DEF StaysPut, AsksTurn, Idle
  <2> QED BY <2>1, <2>2
<1> QED BY <1>2, <1>3, <1>4 DEF Gathers

(* Who heeds the transfer keeps every part of it, and does so again only   *)
(* after the activity is over.                                             *)
LEMMA Gathering ==
    ASSUME TransferInv, TransferInv', DeliveryInv, TurnInv, WholeInv, NEW s \in Side,
           Alive(Peer(s)), Event(Peer(s)), Frame(Peer(s)), acb'[Peer(s)].pc # "gone",
           Halts(s) = 0, TurnAt(Peer(s)) = 0, ~AcceptsEnd(Peer(s)), Heeds(Peer(s))'
    PROVE  Heeds(Peer(s)) /\ Gathered(s)' = Gathered(s)
<1> DEFINE p == Peer(s)
           h == Head(net[p])
<1>1. /\ p \in Side /\ Peer(p) = s /\ Placed(p) /\ Owner(p) /\ net[p] \in Seq(SpduSet)
      /\ Parts(s) \in Nat /\ acb[p].len \in Nat /\ Turns(p) \in Nat
      /\ DiscChain(p) /\ \A k : Tally(net[p], k) \in Nat /\ Tally(net[s], k) \in Nat
  BY WholeScene, Numbers DEF TransferInv, TypeOK, Naturals, DeliveryInv, Delivering
<1>2. ~In(p, "TURN")
  BY <1>1 DEF TurnAt, Bit
<1>3. Gathered(s) = Parts(s) + Bit(acb[p].ind = "data") + acb[p].len
  BY DEF Gathered, Unread
<1>4. Gathered(s)' = Parts(s)' + Bit(acb'[p].ind = "data") + acb'[p].len
  BY DEF Gathered, Unread
<1>5. /\ Tally(net[p], "AI") = 0 /\ Tally(net[p], "AD") = 0 /\ acb[p].ind # "discind"
      /\ Tally(net[p], "AIA") > 0 => Halts(p) > 0
  <2> DEFINE ai == Tally(net[p], "AI")   ad == Tally(net[p], "AD")
             aia == Tally(net[p], "AIA") aiN == Tally(net[s], "AI")
             adN == Tally(net[s], "AD")  aiaN == Tally(net[s], "AIA")
  <2>1. /\ ai \in Nat /\ ad \in Nat /\ aia \in Nat
        /\ aiN \in Nat /\ adN \in Nat /\ aiaN \in Nat
    BY <1>1
  <2>2. /\ Halts(s) = ai + ad + Bit(acb[p].ind = "discind") + aiaN
        /\ Halts(p) = aiN + adN + Bit(acb[s].ind = "discind") + aia
    BY <1>1 DEF Halts
  <2> HIDE DEF ai, ad, aia, aiN, adN, aiaN
  <2>3. ai = 0 /\ ad = 0 /\ acb[p].ind # "discind" /\ (aia > 0 => Halts(p) > 0)
    BY <2>1, <2>2 DEF Bit
  <2> QED BY <2>3 DEF ai, ad, aia
<1>6. CASE ReadsNext(p)
  <2>1. /\ net[p] # <<>> /\ Parts(s)' = Parts(s) - Bit(h.code = "DT")
        /\ acb[p].ind = "none"
        /\ acb'[p].len = acb[p].len
        /\ acb'[p].ind = "data" => h.code = "DT"
    BY <1>6, ReceiverMoves DEF ReadsNext, SameLen, Effect, IndicationOf
  <2>2. sb[p].mode \in {"open", "waiting"}
    BY <1>1 DEF Placed, Alive
  <2>3. Tally(net[p], h.code) >= 1
    <3>1. 1 \in 1..Len(net[p]) /\ net[p][1] = h
      BY <1>1, <2>1
    <3> QED BY <1>1, <3>1, Counted
  <2>4. h.code \notin {"AI", "AD"}
    BY <1>5, <2>3
  <2>5. h.code # "AIA"
    <3> SUFFICES ASSUME h.code = "AIA" PROVE FALSE
      OBVIOUS
    <3>1. Tally(net[p], "AIA") > 0
      BY <1>1, <2>3
    <3>2. Halts(p) > 0
      BY <1>5, <3>1
    <3>3. "AI" \in sb[p].flags
      BY <1>1, <3>2, Numbers DEF DiscChain, Alive, Naturals, Bit
    <3> QED BY <1>1, <1>2, <3>3 DEF Owner
  <2>6. Heeds(p) /\ (h.code = "DT" => acb'[p].ind = "data")
    <3>1. CASE sb[p].mode = "open"
      <4>1. Hearing(p, acb'[p].ind)
        BY <1>6, <3>1 DEF ReadsNext
      <4> QED BY <2>4, <2>5, <4>1 DEF Hearing
    <3>2. CASE sb[p].mode = "waiting"
      BY <1>6, <3>2 DEF ReadsNext, Heeds
    <3> QED BY <2>2, <3>1, <3>2
  <2> QED BY <1>1, <1>3, <1>4, <2>1, <2>6 DEF Bit
<1>7. CASE ~ReadsNext(p)
  <2>1. Parts(s)' = Parts(s) /\ acb'[p].ind \in {"none", acb[p].ind}
    BY <1>7, ReceiverMoves
  <2>2. ~ReportsProblem(p)
    BY DEF ReportsProblem, Heeds
  <2>3. ~AcceptsDiscard(p)
    BY <1>5 DEF AcceptsDiscard
  <2>4. Heeds(p)
    BY <1>7, <2>2, <2>3
       DEF Event, Heeds, LosesAssoc, StaysPut, Untouched, AsksTurn, GivesTurn,
           StartsActivity, SendsPart, SendsCheckpoint, EndsActivity, InterruptsActivity,
           NotesIndication, GainsTurn, ConfirmsCheckpoint, OpensActivity, ClosesActivity,
           AsksRelease, LeavesRelease, Steady, Fields
  <2>5. CASE NotesIndication(p)
    BY <1>1, <1>3, <1>4, <2>1, <2>4, <2>5 DEF NotesIndication, Bit
  <2>6. CASE ~NotesIndication(p)
    <3>1. /\ acb'[p].len = acb[p].len
          /\ acb[p].ind = "data" => acb'[p].ind = "data"
      BY <1>1, <1>7, <2>2, <2>3, <2>6
         DEF Event, LosesAssoc, StaysPut, AsksTurn, GivesTurn, StartsActivity, SendsPart,
             SendsCheckpoint, EndsActivity, InterruptsActivity, GainsTurn,
             ConfirmsCheckpoint, OpensActivity, ClosesActivity, AsksRelease,
             LeavesRelease, Fields, Idle, SameLen, Placed
    <3>2. Bit(acb'[p].ind = "data") = Bit(acb[p].ind = "data")
      BY <2>1, <3>1 DEF Bit
    <3> QED BY <1>3, <1>4, <2>1, <2>4, <3>1, <3>2
  <2> QED BY <2>5, <2>6
<1> QED BY <1>6, <1>7

(* What it takes off, answers or gains.                                    *)
LEMMA ReceiverCounts ==
    ASSUME TransferInv, TransferInv', DeliveryInv, TurnInv, WholeInv, NEW s \in Side,
           Alive(Peer(s)), Event(Peer(s)), Frame(Peer(s)), acb'[Peer(s)].pc # "gone"
    PROVE  /\ AcceptsEnd(Peer(s)) => Ends(s)' = 0 /\ Ends(s) > 0
           /\ Ends(s)' <= Ends(s) /\ Halts(s)' <= Halts(s)
           /\ TurnAt(Peer(s)) = 0 => TurnAt(Peer(s))' = 0
           /\ Closings(s)' > 0 =>
                Closings(s) > 0 \/ AcceptsEnd(Peer(s)) \/ AcceptsDiscard(Peer(s))
<1> DEFINE p == Peer(s)
           i == acb[p].ind
           j == acb'[p].ind
<1>1. /\ p \in Side /\ Peer(p) = s /\ acb'[s] = acb[s] /\ EndChain(s) /\ Placed(p)
      /\ Ends(s) \in Nat /\ Halts(s) \in Nat /\ Confirmed(s) \in Nat
      /\ Closings(s) \in Nat /\ Turns(p) \in Nat
      /\ Ends(s)' \in Nat /\ Halts(s)' \in Nat /\ Closings(s)' \in Nat /\ Turns(p)' \in Nat
  BY WholeScene, ReceiverMoves, TurnNumbers
<1>2. ASSUME NEW c, NEW h, Deltas(p, c, h), TurnMoves(p, c, h)
      PROVE  /\ Ends(s)' = Ends(s) - Bit(h = "MAP") - Bit(i = "endind") + Bit(j = "endind")
             /\ Halts(s)' <= Halts(s) + Bit(c = "AIA") - Bit(h = "AI") - Bit(h = "AD")
                               - Bit(i = "discind") + Bit(j = "discind")
             /\ Closings(s)' <= Closings(s) + Bit(c = "MAA") + Bit(c = "AIA")
             /\ Turns(p)' = Turns(p) - Bit(h = "GTC")
  BY <1>1, <1>2 DEF Deltas, TurnMoves
<1>3. CASE ReadsNext(p)
  <2> DEFINE h == Head(net[p]).code
  <2>1. Deltas(p, "none", h) /\ TurnMoves(p, "none", h)
    BY <1>1, <1>3, CountsMove, TurnsMove DEF ReadsNext
  <2>2. /\ i = "none" /\ (j = "endind" => h = "MAP") /\ (j = "control" => h = "GTC")
        /\ j = "discind" => h \in {"AI", "AD"}
        /\ acb'[p].flags = acb[p].flags
    BY <1>3 DEF ReadsNext, Effect, IndicationOf
  <2> HIDE DEF h, i, j
  <2>3. Ends(s)' <= Ends(s)
    BY <1>1, <1>2, <2>1, <2>2 DEF Bit
  <2>4. Halts(s)' <= Halts(s)
    BY <1>1, <1>2, <2>1, <2>2 DEF Bit
  <2>5. Closings(s)' <= Closings(s)
    BY <1>1, <1>2, <2>1 DEF Bit
  <2>6. ASSUME TurnAt(p) = 0 PROVE TurnAt(p)' = 0
    <3>1. Turns(p) = 0 /\ ~In(p, "TURN")
      BY <1>1, <2>6 DEF TurnAt, Bit
    <3>2. h # "GTC" /\ Turns(p)' = 0
      BY <1>1, <1>2, <2>1, <3>1 DEF Bit
    <3>3. j # "control" /\ "TURN" \notin acb'[p].flags
      BY <2>2, <3>1, <3>2 DEF In
    <3> QED BY <3>2, <3>3 DEF TurnAt, In, Bit, j
  <2>7. ~AcceptsEnd(p)
    BY <2>2 DEF AcceptsEnd, i
  <2> QED BY <1>1, <2>3, <2>4, <2>5, <2>6, <2>7
<1>4. CASE ~ReadsNext(p)
  <2>1. j \in {"none", i}
    BY <1>4, ReceiverMoves
  <2>2. PICK c : /\ Deltas(p, c, "none") /\ TurnMoves(p, c, "none")
                 /\ c = "AIA" => AcceptsDiscard(p)
                 /\ c = "MAA" => AcceptsEnd(p)
                 /\ AcceptsDiscard(p) => c = "AIA"
                 /\ AcceptsEnd(p) => c = "MAA"
    <3>1. \/ Untouched /\ ~AcceptsDiscard(p) /\ ~AcceptsEnd(p)
          \/ \E c : /\ Puts(p, c)
                    /\ c = "AIA" => AcceptsDiscard(p)
                    /\ c = "MAA" => AcceptsEnd(p)
                    /\ AcceptsDiscard(p) => c = "AIA"
                    /\ AcceptsEnd(p) => c = "MAA"
      <4>1. CASE AcceptsDiscard(p)
        BY <4>1 DEF AcceptsDiscard, AcceptsEnd
      <4>2. CASE AcceptsEnd(p)
        BY <4>2 DEF AcceptsDiscard, AcceptsEnd
      <4>3. CASE ~AcceptsDiscard(p) /\ ~AcceptsEnd(p)
        <5>1. \/ Untouched
              \/ \E c \in {"GTC", "AS", "MIP", "MIA", "MAP", "AI", "AD", "ED", "FN", "PT",
                           "DT"} : Puts(p, c)
          BY <1>4, <4>3
             DEF Event, LosesAssoc, StaysPut, AsksTurn, GivesTurn, StartsActivity,
                 SendsPart, SendsCheckpoint, EndsActivity, InterruptsActivity,
                 ReportsProblem, NotesIndication, GainsTurn, ConfirmsCheckpoint,
                 OpensActivity, ClosesActivity, AsksRelease, LeavesRelease, Fields
        <5> QED BY <4>3, <5>1
      <4> QED BY <4>1, <4>2, <4>3
    <3>2. CASE Untouched /\ ~AcceptsDiscard(p) /\ ~AcceptsEnd(p)
      <4>1. Deltas(p, "none", "none") /\ TurnMoves(p, "none", "none")
        BY <1>1, <3>2, CountsMove, TurnsMove
      <4> QED BY <3>2, <4>1
    <3>3. CASE \E c : /\ Puts(p, c)
                      /\ c = "AIA" => AcceptsDiscard(p)
                      /\ c = "MAA" => AcceptsEnd(p)
                      /\ AcceptsDiscard(p) => c = "AIA"
                      /\ AcceptsEnd(p) => c = "MAA"
      BY <1>1, <3>3, CountsMove, TurnsMove
    <3> QED BY <3>1, <3>2, <3>3
  <2>3. /\ AcceptsDiscard(p) => i = "discind" /\ j = "none"
        /\ AcceptsEnd(p) => i = "endind" /\ j = "none"
    BY DEF AcceptsDiscard, AcceptsEnd, Fields
  <2>4. /\ Ends(s)' = Ends(s) - Bit("none" = "MAP") - Bit(i = "endind") + Bit(j = "endind")
        /\ Halts(s)' <= Halts(s) + Bit(c = "AIA") - Bit("none" = "AI") - Bit("none" = "AD")
                          - Bit(i = "discind") + Bit(j = "discind")
        /\ Closings(s)' <= Closings(s) + Bit(c = "MAA") + Bit(c = "AIA")
        /\ Turns(p)' = Turns(p) - Bit("none" = "GTC")
    BY <1>2, <2>2
  <2>5. i = "control" => TurnAt(p) > 0
    BY <1>1 DEF TurnAt, Bit
  <2>6. i # "control" /\ ~In(p, "TURN") => "TURN" \notin acb'[p].flags
    BY <1>4
       DEF Event, LosesAssoc, StaysPut, AsksTurn, GivesTurn, StartsActivity, SendsPart,
           SendsCheckpoint, EndsActivity, InterruptsActivity, ReportsProblem,
           NotesIndication, GainsTurn, ConfirmsCheckpoint, OpensActivity, AcceptsDiscard,
           ClosesActivity, AcceptsEnd, AsksRelease, LeavesRelease, SameTurn, In
  <2>7. i = "endind" => Ends(s) > 0
    BY <1>1, Numbers DEF Ends, Naturals, Bit
  <2>8. TurnAt(p) = 0 => TurnAt(p)' = 0
    <3> SUFFICES ASSUME TurnAt(p) = 0 PROVE TurnAt(p)' = 0
      OBVIOUS
    <3>1. Turns(p) = 0 /\ ~In(p, "TURN") /\ i # "control"
      BY <1>1, <2>5 DEF TurnAt, Bit
    <3>2. "TURN" \notin acb'[p].flags /\ j # "control"
      BY <2>1, <2>6, <3>1
    <3>3. Turns(p)' = 0
      BY <2>4, <3>1 DEF Bit
    <3> QED BY <3>2, <3>3 DEF TurnAt, In, Bit
  <2> HIDE DEF i, j
  <2>9. Ends(s)' <= Ends(s) /\ (AcceptsEnd(p) => Ends(s)' = 0 /\ Ends(s) > 0)
    <3>1. Ends(s) <= 1
      BY <1>1 DEF EndChain, Bit
    <3> QED BY <1>1, <2>1, <2>3, <2>4, <2>7, <3>1 DEF Bit
  <2>10. Halts(s)' <= Halts(s)
    BY <1>1, <2>1, <2>2, <2>3, <2>4 DEF Bit
  <2>11. Closings(s)' > 0 => Closings(s) > 0 \/ AcceptsEnd(p) \/ AcceptsDiscard(p)
    BY <1>1, <2>2, <2>4 DEF Bit
  <2> QED BY <2>8, <2>9, <2>10, <2>11
<1> QED BY <1>3, <1>4

(* A step of the receiver.                                                 *)
LEMMA WholeTheirs ==
    ASSUME TransferInv, TransferInv', DeliveryInv, TurnInv, WholeInv, NEW s \in Side,
           Alive(Peer(s)), Event(Peer(s)), Frame(Peer(s)), acb'[Peer(s)].pc # "gone"
    PROVE  Whole(s)'
<1> DEFINE p == Peer(s)
<1>1. /\ p \in Side /\ Peer(p) = s /\ Whole(s) /\ EndChain(s)
      /\ acb'[s] = acb[s] /\ sb'[s] = sb[s] /\ log'[s] = log[s]
      /\ Ends(s) \in Nat /\ Halts(s) \in Nat /\ Confirmed(s) \in Nat /\ Unread(s) \in Nat
      /\ Closings(s) \in Nat /\ Turns(p) \in Nat /\ Parts(s) \in Nat
      /\ Forwards(s) => Ends(s) = 0 /\ Halts(s) = 0 /\ TurnAt(p) = 0
  BY WholeScene, ReceiverMoves
<1>2. /\ Ends(s)' \in Nat /\ Halts(s)' \in Nat /\ Closings(s)' \in Nat
      /\ Unread(s)' \in Nat /\ Unread(s)' <= Unread(s) /\ Turns(p)' \in Nat
  BY <1>1, ReceiverMoves, TurnNumbers
<1>3. AcceptsEnd(p) \/ AcceptsDiscard(p) => Unread(s)' = 0
  <2> SUFFICES ASSUME AcceptsEnd(p) \/ AcceptsDiscard(p) PROVE Unread(s)' = 0
    OBVIOUS
  <2>1. /\ acb[p].ind \in {"endind", "discind"} /\ acb'[p].ind = "none"
        /\ ~ReadsNext(p)
    BY DEF AcceptsEnd, AcceptsDiscard, ReadsNext, Fields
  <2>2. Parts(s)' = 0
    BY <1>1, <2>1, ReceiverMoves DEF Whole, Gathers
  <2> QED BY <2>1, <2>2 DEF Unread, Bit
<1>4. /\ AcceptsEnd(p) => Ends(s)' = 0 /\ Ends(s) > 0
      /\ Ends(s)' <= Ends(s) /\ Halts(s)' <= Halts(s)
      /\ TurnAt(p) = 0 => TurnAt(p)' = 0
      /\ Closings(s)' > 0 => Closings(s) > 0 \/ AcceptsEnd(p) \/ AcceptsDiscard(p)
  BY ReceiverCounts
<1>5. Complete(s)'
  <2> SUFFICES ASSUME Ends(s)' > 0
               PROVE  /\ Halts(s)' = 0 /\ TurnAt(p)' = 0
                      /\ Heeds(p)' => Gathered(s)' = log[s].size
    BY <1>1 DEF Complete
  <2>1. /\ Ends(s) > 0 /\ ~AcceptsEnd(p)
    BY <1>1, <1>2, <1>4
  <2>2. Halts(s) = 0 /\ TurnAt(p) = 0 /\ (Heeds(p) => Gathered(s) = log[s].size)
    BY <1>1, <2>1 DEF Whole, Complete
  <2>3. Heeds(p)' => Heeds(p) /\ Gathered(s)' = Gathered(s)
    BY <2>1, <2>2, Gathering
  <2> QED BY <1>2, <1>4, <2>2, <2>3
<1>6. ASSUME Alive(s) PROVE Clear(s)'
  <2>1. Clear(s)
    BY <1>1, <1>6 DEF Whole
  <2>2. Unread(s)' > 0 => Sends(s)'
    BY <1>1, <1>2, <2>1 DEF Clear, Sends, In
  <2>3. ASSUME Closings(s)' > 0 \/ acb[s].ind \in {"endcnf", "disccnf"}
        PROVE  Unread(s)' = 0
    BY <1>1, <1>2, <1>3, <1>4, <2>1, <2>3 DEF Clear
  <2> QED BY <1>1, <2>2, <2>3 DEF Clear
<1>7. ASSUME Alive(s) PROVE Partial(s)'
  <2> SUFFICES ASSUME Forwards(s)
               PROVE  /\ acb[s].pc = "done" => acb[s].left = 0
                      /\ Heeds(p)' => Gathered(s)' + acb[s].left = log[s].size
    BY <1>1 DEF Partial, Forwards, Sends, In
  <2>1. Partial(s)
    BY <1>1, <1>7 DEF Whole
  <2>2. Halts(s) = 0 /\ TurnAt(p) = 0 /\ ~AcceptsEnd(p)
    BY <1>1, <1>4
  <2>3. Heeds(p)' => Heeds(p) /\ Gathered(s)' = Gathered(s)
    BY <2>2, Gathering
  <2> QED BY <2>1, <2>3 DEF Partial
<1>8. Sequenced(net'[p])
  BY <1>1, SequencedKept
<1>9. Gathers(s)'
  BY GathersTheirs
<1> QED BY <1>1, <1>5, <1>6, <1>7, <1>8, <1>9 DEF Whole, Alive

(* The invariant is inductive.                                             *)
LEMMA WholeStep ==
    ASSUME TransferInv, DeliveryInv, TurnInv, WholeInv, [RoNext]_rovars
    PROVE  WholeInv'
<1>1. TransferInv'
  BY TransferKept
<1>2. CASE UNCHANGED rovars
  BY <1>2
     DEF rovars, WholeInv, Whole, Alive, Sequenced, Gathers, Complete, Clear, Partial,
         Forwards, Parts, Unread, Gathered, Heeds, Ends, Halts, Closings, Turns, TurnAt,
         Receives, Sends, In
<1>3. CASE RoNext
  <2>1. PICK s \in Side : RoStep(s)
    BY <1>3 DEF RoNext, RoStep
  <2>2. Event(s) /\ Frame(s)
    BY <2>1, EveryStep
  <2>3. /\ Peer(s) \in Side /\ Peer(Peer(s)) = s /\ acb'[Peer(s)] = acb[Peer(s)]
        /\ \A t \in Side : t = s \/ t = Peer(s)
    BY <2>2 DEF Frame, Peer, Side
  <2>4. Alive(Peer(s))' => Whole(s)'
    BY <1>1, <2>2, <2>3, WholeMine DEF Alive
  <2>5. Alive(s)' => Whole(Peer(s))'
    <3> SUFFICES ASSUME acb'[s].pc # "gone" PROVE Whole(Peer(s))'
      BY DEF Alive
    <3>1. Alive(s)
      BY <2>2, StaysAlive
    <3> QED BY <1>1, <2>2, <2>3, <3>1, WholeTheirs
  <2> QED BY <2>3, <2>4, <2>5 DEF WholeInv
<1> QED BY <1>2, <1>3

(* At first nothing was sent.                                              *)
LEMMA WholeInit == RoInit => WholeInv
<1> SUFFICES ASSUME RoInit, NEW s \in Side PROVE Whole(s)
  BY DEF WholeInv
<1>1. /\ \A t \in Side : /\ net[t] = <<>> /\ acb[t].pc = "user" /\ acb[t].ind = "none"
                         /\ acb[t].len = 0
      /\ Peer(s) \in Side
  BY PeerSide DEF RoInit, RtInit, NewAcb
<1>2. Parts(s) = 0 /\ Ends(s) = 0 /\ Closings(s) = 0
  BY <1>1, TallyEmpty DEF Parts, Ends, Closings, Bit
<1>3. Unread(s) = 0
  BY <1>1, <1>2 DEF Unread, Bit
<1>4. Sequenced(net[Peer(s)])
  BY <1>1 DEF Sequenced, Pair
<1> QED BY <1>1, <1>2, <1>3, <1>4
        DEF Whole, Gathers, Complete, Clear, Partial, Forwards

(* An APDU that is indicated to the RtS-user (ActEndInd in rt2ss.c hands   *)
(* over what doSSdata assembled from the S-DATA.INDICATIONs since the last *)
(* S-ACTIVITY-START) has all the parts the sender cut it into, and none of *)
(* an earlier one that was discarded, interrupted or reported on.          *)
THEOREM TransferAlwaysDeliveredWhole == RoSpec => DeliveredWhole
<1> DEFINE Whose == \A s \in Side : log'[s].taken > log[s].taken
                                      => acb[s].len = log[Peer(s)].size
<1>1. ASSUME TransferInv, DeliveryInv, TurnInv, WholeInv, [RoNext]_rovars
      PROVE  [Whose]_rovars
  <2> SUFFICES ASSUME RoNext, NEW t \in Side, log'[t].taken > log[t].taken
               PROVE  acb[t].len = log[Peer(t)].size
    BY <1>1
  <2>1. PICK s \in Side : RoStep(s)
    BY DEF RoNext, RoStep
  <2>2. Event(s) /\ Frame(s)
    BY <1>1, <2>1, EveryStep
  <2>3. t = s
    <3>1. log'[Peer(s)] = log[Peer(s)] /\ (t = s \/ t = Peer(s))
      BY <2>2 DEF Frame, Peer, Side
    <3>2. log[t].taken \in Nat
      BY <1>1 DEF TransferInv, RtTypeOK, Log
    <3> QED BY <3>1, <3>2
  <2>4. AcceptsEnd(t)
    <3>1. log[t].taken \in Nat
      BY <1>1 DEF TransferInv, RtTypeOK, Log
    <3> QED BY <2>2, <2>3, <3>1
         DEF Event, LosesAssoc, StaysPut, AsksTurn, GivesTurn, StartsActivity, SendsPart,
             SendsCheckpoint, EndsActivity, InterruptsActivity, ReportsProblem,
             NotesIndication, GainsTurn, ConfirmsCheckpoint, OpensActivity, AcceptsDiscard,
             ClosesActivity, AsksRelease, LeavesRelease, ReadsNext, Counts
  <2>5. /\ acb[t].ind = "endind" /\ "ED" \notin sb[t].flags
    BY <2>4 DEF AcceptsEnd, ssapPsig, Has
  <2>6. Alive(t)
    BY <1>1, <2>5, SideInv DEF Placed, Alive
  <2> DEFINE r == Peer(t)
  <2>7. r \in Side /\ Peer(r) = t
    BY DEF Peer, Side
  <2>8. /\ Whole(r) /\ Parts(r) \in Nat /\ acb[t].len \in Nat /\ Ends(r) \in Nat
    BY <1>1, <2>6, <2>7, WholeScene
  <2>9. Parts(r) = 0 /\ sb[t].pr \in {"PR", "MAA"}
    BY <2>5, <2>7, <2>8 DEF Whole, Gathers
  <2>10. Ends(r) > 0
    <3>1. Tally(net[t], "MAP") \in Nat
      BY <1>1, Numbers DEF Naturals
    <3> QED BY <2>5, <2>7, <3>1 DEF Ends, Bit
  <2>11. Gathered(r) = log[r].size
    BY <2>5, <2>7, <2>8, <2>9, <2>10 DEF Whole, Complete, Heeds
  <2>12. Gathered(r) = acb[t].len
    BY <2>5, <2>7, <2>8, <2>9 DEF Gathered, Unread, Bit
  <2> QED BY <2>11, <2>12
<1>2. TransferInv /\ DeliveryInv /\ TurnInv /\ WholeInv /\ PrepInv /\ [RoNext]_rovars
          => TransferInv' /\ DeliveryInv' /\ TurnInv' /\ WholeInv'
  BY TransferKept, DeliveryKept, TurnKept, WholeStep
<1>3. RoInit => TransferInv /\ DeliveryInv /\ TurnInv /\ WholeInv
  BY TransferInit, DeliveryInit, TurnInit, WholeInit
<1>4. RoSpec => []PrepInv
  BY RoImplementsSession, PreparationAnnounced, PTL
<1>5. RoSpec => [][Whose]_rovars
  BY <1>1, <1>2, <1>3, <1>4, PTL DEF RoSpec
<1> QED BY <1>5 DEF DeliveredWhole

=============================================================================
