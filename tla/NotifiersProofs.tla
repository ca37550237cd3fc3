-------------------------- MODULE NotifiersProofs --------------------------
(* Proofs about Notifiers, for every number of attempts in doubt.          *)
EXTENDS Notifiers, TLAPS

(* What an attempt under way has behind it, and what its exception says.   *)
UnderWay ==
    /\ stage # "idle" => verdict = "none" /\ Configured
    /\ error # "none" => stage = "quit"
    /\ error = "refused" => ~truth.destination \/ deferred
    /\ error = "auth" => ~truth.login \/ deferred

Inv ==
    /\ TypeOK
    /\ UnderWay
    /\ TakenIsAccounted
    /\ OnlyHopelessGivenUp

LEMMA InitInv == Init => Inv
<1> SUFFICES ASSUME Init PROVE Inv
  OBVIOUS
<1>1. TypeOK
  <2>1. taken \in 0..(MaxDoubts + 1) /\ doubts \in 0..MaxDoubts
    BY NotifiersAssumption DEF Init
  <2>2. deferred \in BOOLEAN
    BY DEF Init
  <2> QED BY <2>1, <2>2 DEF Init, TypeOK, Stages, Errors, Verdicts
<1>2. UnderWay /\ OnlyHopelessGivenUp
  BY DEF Init, UnderWay, OnlyHopelessGivenUp
<1>3. TakenIsAccounted
  BY DEF Init, TakenIsAccounted, Certain
<1> QED BY <1>1, <1>2, <1>3 DEF Inv

-----------------------------------------------------------------------------
LEMMA SendInv ==
    ASSUME Inv, Send PROVE Inv'
<1> USE DEF Inv, Send, Return, world, counts
<1>1. TypeOK' /\ UnderWay'
  BY DEF TypeOK, UnderWay, Configured, Stages, Errors, Verdicts
<1>2. TakenIsAccounted' /\ OnlyHopelessGivenUp'
  BY DEF TypeOK, UnderWay, TakenIsAccounted, OnlyHopelessGivenUp, Certain, Configured
<1> QED BY <1>1, <1>2

LEMMA TelegramInv ==
    ASSUME Inv, (\E code \in Codes : TelegramAnswer(code)) \/ TelegramLost PROVE Inv'
<1> USE NotifiersAssumption DEF Inv, Return, world, counts, Takes
<1>1. /\ stage = "post" /\ stage' = "idle" /\ error' = "none"
      /\ UNCHANGED <<settings, channel, truth, deferred>>
  BY DEF TelegramAnswer, TelegramLost
<1>2. \/ verdict' = "accepted" /\ taken' = taken + 1 /\ doubts' = doubts
      \/ verdict' = "permanent" /\ ~truth.destination /\ taken' = taken /\ doubts' = doubts
      \/ verdict' = "transient" /\ taken' = taken /\ doubts' = doubts
      \/ /\ verdict' = "transient" /\ doubts < MaxDoubts
         /\ taken' = taken + 1 /\ doubts' = doubts + 1
  BY DEF TelegramAnswer, TelegramLost, OfStatus, Codes
<1>3. taken = doubts /\ doubts \in 0..MaxDoubts
  BY <1>1 DEF TypeOK, UnderWay, TakenIsAccounted, Certain
<1>4. TypeOK'
  BY <1>1, <1>2, <1>3 DEF TypeOK, Stages, Errors, Verdicts
<1>5. UnderWay' /\ OnlyHopelessGivenUp'
  BY <1>1, <1>2 DEF UnderWay, OnlyHopelessGivenUp
<1>6. TakenIsAccounted'
  BY <1>1, <1>2, <1>3 DEF TakenIsAccounted, Certain
<1> QED BY <1>4, <1>5, <1>6

(* The stages of an SMTP exchange before the message is handed over.       *)
LEMMA TalkInv ==
    ASSUME Inv, (\E s \in Stages : Talk(s)) \/ NoConnection PROVE Inv'
<1> USE NotifiersAssumption DEF Inv, Return, world, counts
<1>1. CASE \E s \in Stages : Talk(s)
  <2>1. /\ stage \in {"connect", "starttls", "login"}
        /\ stage' \in {"starttls", "login", "message"}
        /\ UNCHANGED <<settings, channel, truth, error, verdict, taken, doubts, deferred>>
    BY <1>1 DEF Talk, After, Stages
  <2>2. TypeOK' /\ UnderWay'
    BY <2>1 DEF TypeOK, UnderWay, Stages, Configured
  <2>3. TakenIsAccounted' /\ OnlyHopelessGivenUp'
    BY <2>1 DEF UnderWay, TakenIsAccounted, OnlyHopelessGivenUp, Certain
  <2> QED BY <2>2, <2>3
<1>2. CASE NoConnection
  <2>1. /\ stage = "connect" /\ stage' = "idle" /\ error' = "none" /\ verdict' = "transient"
        /\ UNCHANGED <<settings, channel, truth, taken, doubts, deferred>>
    BY <1>2 DEF NoConnection, OfError
  <2>2. TypeOK' /\ UnderWay'
    BY <2>1 DEF TypeOK, UnderWay, Stages, Errors, Verdicts
  <2>3. TakenIsAccounted' /\ OnlyHopelessGivenUp'
    BY <2>1 DEF UnderWay, TakenIsAccounted, OnlyHopelessGivenUp, Certain
  <2> QED BY <2>2, <2>3
<1> QED BY <1>1, <1>2

LEMMA HandInv ==
    ASSUME Inv,
           \/ TalkFails \/ Hand \/ HandLost
           \/ \E e \in Errors, temporary \in BOOLEAN : Refuses(e, temporary)
    PROVE  Inv'
<1> USE NotifiersAssumption DEF Inv, world, counts, Takes
<1>1. /\ stage \in {"starttls", "login", "message"} /\ stage' = "quit"
      /\ UNCHANGED <<settings, channel, truth, verdict>>
  BY DEF TalkFails, Refuses, Hand, HandLost
<1>2. \/ /\ error' = "none" /\ deferred' = deferred
         /\ taken' = taken + 1 /\ doubts' = doubts
      \/ /\ error' = "other" /\ deferred' = deferred /\ doubts < MaxDoubts
         /\ taken' = taken + 1 /\ doubts' = doubts + 1
      \/ /\ \/ error' = "other" /\ deferred' = deferred
            \/ error' = "auth" /\ deferred' \in BOOLEAN /\ (~truth.login \/ deferred')
            \/ error' = "refused" /\ deferred' \in BOOLEAN /\ (~truth.destination \/ deferred')
         /\ UNCHANGED <<taken, doubts>>
  BY <1>1 DEF TalkFails, Refuses, Hand, HandLost, UnderWay
<1>3. taken = doubts /\ doubts \in 0..MaxDoubts /\ verdict = "none"
  BY <1>1 DEF TypeOK, UnderWay, TakenIsAccounted, Certain
<1>4. TypeOK'
  BY <1>1, <1>2, <1>3 DEF TypeOK, Stages, Errors
<1>5. UnderWay' /\ OnlyHopelessGivenUp'
  BY <1>1, <1>2, <1>3 DEF UnderWay, OnlyHopelessGivenUp, Configured
<1>6. TakenIsAccounted'
  BY <1>1, <1>2, <1>3 DEF TakenIsAccounted, Certain
<1> QED BY <1>4, <1>5, <1>6

(* quit, whose own exception hides the one the exchange ended with.        *)
LEMMA QuitInv ==
    ASSUME Inv, (\E e \in Errors : Quit(e)) \/ QuitFails PROVE Inv'
<1> USE NotifiersAssumption DEF Inv, Return, world, counts
<1>1. /\ stage = "quit" /\ stage' = "idle" /\ error' = "none" /\ taken' = taken
      /\ UNCHANGED <<settings, channel, truth, deferred>>
      /\ channel = "email"
  BY DEF Quit, QuitFails, TypeOK
<1>2. \/ error = "none" /\ verdict' = "accepted" /\ doubts' = doubts
      \/ error = "none" /\ verdict' = "transient" /\ doubts < MaxDoubts /\ doubts' = doubts + 1
      \/ /\ error \in {"refused", "auth"} /\ verdict' \in {"permanent", "transient"}
         /\ doubts' = doubts
      \/ error = "other" /\ verdict' = "transient" /\ doubts' = doubts
  BY DEF Quit, QuitFails, OfError, ClosedWith, Errors, TypeOK
<1>3. taken = IF error = "none" THEN doubts + 1 ELSE doubts
  BY <1>1 DEF TakenIsAccounted, UnderWay, Certain, TypeOK
<1>4. TypeOK'
  BY <1>1, <1>2 DEF TypeOK, Stages, Errors, Verdicts
<1>5. UnderWay' /\ OnlyHopelessGivenUp'
  BY <1>1, <1>2 DEF UnderWay, OnlyHopelessGivenUp
<1>6. TakenIsAccounted'
  BY <1>1, <1>2, <1>3 DEF TakenIsAccounted, Certain, TypeOK
<1> QED BY <1>4, <1>5, <1>6

-----------------------------------------------------------------------------
LEMMA NextInv == Inv /\ [Next]_vars => Inv'
<1> SUFFICES ASSUME Inv, [Next]_vars PROVE Inv'
  OBVIOUS
<1>1. CASE UNCHANGED vars
  BY <1>1 DEF vars, world, counts, Inv, TypeOK, UnderWay, TakenIsAccounted, OnlyHopelessGivenUp,
              Certain, Configured
<1> QED BY <1>1, SendInv, TelegramInv, TalkInv, HandInv, QuitInv DEF Next

LEMMA InvIsInvariant == Spec => []Inv
<1> QED BY InitInv, NextInv, PTL DEF Spec

(* Every variable of the channels stays in its type.                       *)
THEOREM NotifierTypes == Spec => []TypeOK
<1>1. Inv => TypeOK
  BY DEF Inv
<1> QED BY <1>1, InvIsInvariant, PTL

(* What the delivery task hears is true: an accepted attempt was taken     *)
(* once, a permanent one never, and only a transient one may have been     *)
(* taken all the same (email.py:49-66, telegram.py:47-60).                 *)
THEOREM VerdictsAccountForTaken == Spec => []TakenIsAccounted
<1>1. Inv => TakenIsAccounted
  BY DEF Inv
<1> QED BY <1>1, InvIsInvariant, PTL

(* Nothing gives an alert up that could have reached its student but the   *)
(* temporary refusal of an SMTP login or recipient; in particular no       *)
(* outage of Telegram, no lost connection, and no failure of quit.         *)
THEOREM OnlyRefusalsGiveUp == Spec => []OnlyHopelessGivenUp
<1>1. Inv => OnlyHopelessGivenUp
  BY DEF Inv
<1> QED BY <1>1, InvIsInvariant, PTL

=============================================================================
