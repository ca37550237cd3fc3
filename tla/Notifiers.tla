----------------------------- MODULE Notifiers ------------------------------
(***************************************************************************)
(* The notification channels: what a send does with the settings, with an  *)
(* SMTP server or the Telegram API, and which of the three verdicts the    *)
(* delivery task hears.  One alert is followed through the attempts that   *)
(* a transient verdict leads to.                                           *)
(*                                                                         *)
(* An SMTP exchange goes through stages, any of which may fail; quit runs  *)
(* in a finally block, and an exception of its own replaces the one the    *)
(* exchange ended with.                                                    *)
(***************************************************************************)
EXTENDS Naturals

CONSTANT MaxDoubts    \* bound: attempts whose acceptance the caller cannot see

ASSUME NotifiersAssumption == MaxDoubts \in Nat

VARIABLES
    settings,  \* the environment the processes read, once
    channel,   \* the watch's channel
    truth,     \* whether its destination takes alerts and the login is right
    stage,     \* where the running attempt is
    error,     \* the exception an SMTP exchange is unwinding with
    verdict,   \* what the last attempt told the task
    taken,     \* history: how often the channel took the alert
    doubts,    \* history: how often it did while the attempt failed
    deferred   \* history: whether the attempt met a temporary refusal

world  == <<settings, channel, truth>>
counts == <<taken, doubts>>
vars   == <<world, stage, error, verdict, counts, deferred>>

-----------------------------------------------------------------------------
(* telegram_bot_token, smtp_host, smtp_use_tls, smtp_username: given or not.*)
Settings == [token : BOOLEAN, host : BOOLEAN, tls : BOOLEAN, username : BOOLEAN]
Stages   == {"idle", "post", "connect", "starttls", "login", "message", "quit"}
Errors   == {"none", "refused", "auth", "other"}
Verdicts == {"none", "accepted", "permanent", "transient"}

TypeOK ==
    /\ settings \in Settings
    /\ channel \in {"telegram", "email"}
    /\ truth \in [destination : BOOLEAN, login : BOOLEAN]
    /\ stage \in Stages
    /\ error \in Errors
    /\ verdict \in Verdicts
    /\ taken \in 0..(MaxDoubts + 1)
    /\ doubts \in 0..MaxDoubts
    /\ deferred \in BOOLEAN
    /\ stage # "idle" => (stage = "post") = (channel = "telegram")

Init ==
    /\ settings \in Settings
    /\ channel \in {"telegram", "email"}
    /\ truth \in [destination : BOOLEAN, login : BOOLEAN]
    /\ stage = "idle"
    /\ error = "none"
    /\ verdict = "none"
    /\ taken = 0
    /\ doubts = 0
    /\ deferred = FALSE

-----------------------------------------------------------------------------
Return(v) == stage' = "idle" /\ error' = "none" /\ verdict' = v

(* The channel takes the alert; in doubt if the attempt fails all the same.*)
Takes(doubtful) ==
    /\ truth.destination
    /\ taken' = taken + 1
    /\ IF doubtful THEN doubts < MaxDoubts /\ doubts' = doubts + 1 ELSE UNCHANGED doubts

Configured == IF channel = "telegram" THEN settings.token ELSE settings.host

(* The task sends, or sends again after a transient verdict.               *)
Send ==
    /\ stage = "idle"
    /\ verdict \in {"none", "transient"}
    /\ IF Configured
       THEN /\ stage' = IF channel = "telegram" THEN "post" ELSE "connect"
            /\ verdict' = "none"
            /\ UNCHANGED error
       ELSE Return("permanent")
    /\ deferred' = FALSE
    /\ UNCHANGED <<world, counts>>

(* TelegramNotifier.send.                                                  *)
\* Variants (each definition named ...X is the one after it with a seeded bug,
\* kept to show which property notices): a 200 is not looked for.
OfStatusX(code) == IF code \in {400, 403} THEN "permanent" ELSE "transient"

OfStatus(code) ==
    CASE code = 200          -> "accepted"
      [] code \in {400, 403} -> "permanent"
      [] OTHER               -> "transient"

TelegramAnswer(code) ==
    /\ stage = "post"
    /\ code = 200 => Takes(FALSE)
    /\ code \in {400, 403} => ~truth.destination
    /\ code # 200 => UNCHANGED counts
    /\ Return(OfStatus(code))
    /\ UNCHANGED <<world, deferred>>

(* httpx.HTTPError: nothing arrived, or the answer did not.                *)
TelegramLost ==
    /\ stage = "post"
    /\ Takes(TRUE) \/ UNCHANGED counts
    /\ Return("transient")
    /\ UNCHANGED <<world, deferred>>

-----------------------------------------------------------------------------
(* EmailNotifier.send.                                                     *)
After(s) ==
    CASE s = "connect" /\ settings.tls -> "starttls"
      [] s \in {"connect", "starttls"} /\ settings.username -> "login"
      [] OTHER -> "message"

(* The except clauses.                                                     *)
\* Every error is permanent; or none is.
OfErrorHardX(e) == IF e = "none" THEN "accepted" ELSE "permanent"
OfErrorSoftX(e) == IF e = "none" THEN "accepted" ELSE "transient"

OfError(e) ==
    CASE e = "none"                -> "accepted"
      [] e \in {"refused", "auth"} -> "permanent"
      [] OTHER                     -> "transient"

\* The exception is forgotten once the connection is closed.
ClosedWithX(e) == "none"

ClosedWith(e) == e

Talk(s) ==
    /\ stage = s
    /\ s \in {"connect", "starttls"} \/ (s = "login" /\ truth.login)
    /\ stage' = After(s)
    /\ UNCHANGED <<world, error, verdict, counts, deferred>>

(* Without a connection there is nothing to quit.                          *)
NoConnection ==
    /\ stage = "connect"
    /\ Return(OfError("other"))
    /\ UNCHANGED <<world, counts, deferred>>

TalkFails ==
    /\ stage \in {"starttls", "login", "message"}
    /\ error' = "other"
    /\ stage' = "quit"
    /\ UNCHANGED <<world, verdict, counts, deferred>>

(* SMTPAuthenticationError and SMTPRecipientsRefused: the server refuses   *)
(* the login or the recipient.  smtplib raises them for any reply that     *)
(* does not accept, so also for a temporary one (454, 450, 451, 452).      *)
Refuses(e, temporary) ==
    /\ \/ e = "auth"    /\ stage = "login"   /\ (temporary \/ ~truth.login)
       \/ e = "refused" /\ stage = "message" /\ (temporary \/ ~truth.destination)
    /\ error' = e
    /\ stage' = "quit"
    /\ deferred' = temporary
    /\ UNCHANGED <<world, verdict, counts>>

Hand ==
    /\ stage = "message"
    /\ Takes(FALSE)
    /\ stage' = "quit"
    /\ UNCHANGED <<world, error, verdict, deferred>>

HandLost ==
    /\ stage = "message"
    /\ Takes(TRUE)
    /\ error' = "other"
    /\ stage' = "quit"
    /\ UNCHANGED <<world, verdict, deferred>>

Quit(e) ==
    /\ stage = "quit" /\ error = e
    /\ Return(OfError(ClosedWith(e)))
    /\ UNCHANGED <<world, counts, deferred>>

QuitFails ==
    /\ stage = "quit"
    /\ error = "none" => doubts < MaxDoubts
    /\ doubts' = IF error = "none" THEN doubts + 1 ELSE doubts
    /\ Return(OfError("other"))
    /\ UNCHANGED <<world, taken, deferred>>

-----------------------------------------------------------------------------
Codes == {200, 302, 400, 403, 429, 500}

Next ==
    \/ Send
    \/ (\E code \in Codes : TelegramAnswer(code)) \/ TelegramLost
    \/ (\E s \in Stages : Talk(s)) \/ NoConnection
    \/ TalkFails
    \/ \E e \in Errors, temporary \in BOOLEAN : Refuses(e, temporary)
    \/ Hand \/ HandLost
    \/ \E e \in Errors : Quit(e)
    \/ QuitFails

Spec == Init /\ [][Next]_vars

-----------------------------------------------------------------------------
(* What Delivery takes for granted: an attempt the task hears succeed was  *)
(* taken, one it hears fail for good was not, and a student is reached     *)
(* twice only after an attempt that failed when the alert was out already  *)
(* (email.py:49-66, telegram.py:47-60).                                    *)
Certain == IF verdict = "accepted" \/ (stage = "quit" /\ error = "none") THEN 1 ELSE 0

TakenIsAccounted == taken = doubts + Certain

(* An alert is given up only if no attempt could have reached the student: *)
(* the channel is not configured, the login is wrong, or nobody is there;  *)
(* not for a lost connection, a failing step of the exchange, quit, or an  *)
(* answer that did not arrive.  base.py:22-27 asks that of every temporary *)
(* failure; the code gives the alert up for one kind, the temporary        *)
(* refusal of a login or a recipient (email.py:59-64).                     *)
OnlyHopelessGivenUp ==
    verdict = "permanent" =>
        \/ ~Configured
        \/ ~truth.destination
        \/ channel = "email" /\ (~truth.login \/ deferred)

(* Every socket has a timeout, so an attempt comes to an end; an outage,   *)
(* and a quit that fails, do not last for ever.  What the code retries for *)
(* ever is supposed not to happen: a wrong bot token (Telegram answers     *)
(* 401), a server that permanently refuses the message itself (a 5xx after *)
(* DATA) or supports no STARTTLS or AUTH: all of these are transient.      *)
Fairness ==
    /\ WF_vars(Send)
    /\ \A s \in Stages : SF_vars(Talk(s))
    /\ SF_vars(Hand)
    /\ \A e \in Errors : SF_vars(Quit(e))
    /\ SF_vars(\E e \in {"auth", "refused"} : Refuses(e, FALSE))
    /\ SF_vars(\E code \in {200, 400, 403} : TelegramAnswer(code))

FairSpec == Spec /\ Fairness

(* The retries of an alert end: it is taken, or given up, even if the      *)
(* error that says so was once or twice replaced by that of quit           *)
(* (email.py:55-57).                                                       *)
Settles == <>[](verdict \in {"accepted", "permanent"})

=============================================================================
