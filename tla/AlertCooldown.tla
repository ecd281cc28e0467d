---------------------------- MODULE AlertCooldown ----------------------------
(***************************************************************************)
(* The alert cooldown (alerts.py) and its two users: the error spike of    *)
(* monitoring.py, decided in the request that recorded an error, and the   *)
(* health alert of health.py, run by beat, cron or with --force. Senders   *)
(* run side by side and share nothing but the error table and one cache    *)
(* key.                                                                    *)
(***************************************************************************)
EXTENDS Integers, FiniteSets

CONSTANTS
  Senders,
  Channels,                                      \* what build_channels returns
  Kinds,                                         \* which alert: "spike" or "health"
  Threshold, WindowLength, Retention,            \* SNAPADMIN_ERROR_*
  CooldownLength,                                \* SNAPADMIN_*_ALERT_COOLDOWN_MINUTES
  MaxTime, MaxErrors, MaxTokens, MaxAlertFaults  \* bounds

ASSUME AlertAssumption ==
  /\ IsFiniteSet(Senders) /\ Kinds \subseteq {"spike", "health"}
  /\ {Threshold, WindowLength, Retention, MaxTime, MaxErrors, MaxTokens, MaxAlertFaults} \subseteq Nat
  /\ CooldownLength \in Nat \ {0}

VARIABLES
  now, kind,
  down,     \* whether a subsystem is down
  errors,   \* how many ErrorEvent rows each instant has
  tokens,   \* claims made; a claim's token is its number
  key,      \* the cache key: the token and when it expires
  sender,   \* local variables of maybe_send_spike_alert and send_health_alert
  heard,    \* history: the claims announced in their window, and when they were made; what
            \* clears the key, or overtakes the release of another claim, starts it anew
  silent,   \* history: claims whose sender died or raised before sending
  alertFaults

alertVars == <<now, kind, down, errors, tokens, key, sender, heard, silent, alertFaults>>

NoToken == 0
Times == 0..MaxTime
Free == [token |-> NoToken, until |-> 0]
IdleSender == [step |-> "idle", token |-> NoToken, force |-> FALSE]

AlertInit ==
  /\ now = 0 /\ kind \in Kinds /\ down = FALSE
  /\ errors = [t \in Times |-> 0]
  /\ tokens = 0 /\ key = Free
  /\ sender = [s \in Senders |-> IdleSender]
  /\ heard = {} /\ silent = {}
  /\ alertFaults = 0

WindowClaimed == key.token # NoToken /\ now < key.until
AlertFault == alertFaults < MaxAlertFaults /\ alertFaults' = alertFaults + 1
Become(s, e) == sender' = [sender EXCEPT ![s] = e]
SenderStep(s, step) == Become(s, [sender[s] EXCEPT !.step = step])

\* The sums below have a few terms; instants outside Times have none.
Recorded(from) ==
  Cardinality({p \in Times \X (1..MaxErrors) : p[1] >= from /\ p[2] <= errors[p[1]]})
Spike == Recorded(now - WindowLength) >= Threshold

-----------------------------------------------------------------------------
(* What makes an alert due.                                                *)

RecordError(s) ==
  /\ kind = "spike" /\ sender[s] = IdleSender /\ Recorded(0) < MaxErrors
  /\ errors' = [errors EXCEPT ![now] = @ + 1]
  /\ SenderStep(s, "count")
  /\ UNCHANGED <<now, kind, down, tokens, key, heard, silent, alertFaults>>

CountRecent(s) ==
  /\ sender[s].step = "count"
  /\ SenderStep(s, IF Spike /\ Channels # {} THEN "arm" ELSE "idle")
  /\ UNCHANGED <<now, kind, down, errors, tokens, key, heard, silent, alertFaults>>

Probe(s) ==
  /\ kind = "health" /\ sender[s] = IdleSender
  /\ \E force \in BOOLEAN :
       Become(s, [IdleSender EXCEPT !.force = force,
                              !.step = IF ~down THEN "clear" ELSE IF Channels # {} THEN "arm" ELSE "idle"])
  /\ UNCHANGED <<now, kind, down, errors, tokens, key, heard, silent, alertFaults>>

\* Whoever finds everything healthy opens the window for the next outage.
ClearOnRecovery(s) ==
  /\ sender[s].step = "clear"
  /\ key' = Free /\ heard' = {}
  /\ Become(s, IdleSender)
  /\ UNCHANGED <<now, kind, down, errors, tokens, silent, alertFaults>>

-----------------------------------------------------------------------------
(* Claiming the window, sending, and giving it back.                       *)

ArmCooldown(s) ==
  /\ sender[s].step = "arm"
  /\ IF WindowClaimed
       THEN /\ Become(s, IF sender[s].force THEN [sender[s] EXCEPT !.step = "send"] ELSE IdleSender)
            /\ UNCHANGED <<tokens, key>>
       ELSE /\ tokens < MaxTokens
            /\ tokens' = tokens + 1
            /\ key' = [token |-> tokens + 1, until |-> now + CooldownLength]
            /\ Become(s, [sender[s] EXCEPT !.token = tokens + 1,
                                           !.step = IF kind = "spike" THEN "group" ELSE "send"])
  /\ UNCHANGED <<now, kind, down, errors, heard, silent, alertFaults>>

GroupEvents(s) ==
  /\ sender[s].step = "group"
  /\ SenderStep(s, "send")
  /\ UNCHANGED <<now, kind, down, errors, tokens, key, heard, silent, alertFaults>>

\* A query fails (record_error swallows it) or the process dies: the window
\* stays claimed though nothing was sent.
Abort(s) ==
  /\ AlertFault /\ sender[s] # IdleSender
  /\ silent' = IF sender[s].step \in {"group", "send", "release", "delete"}
                 THEN silent \cup {sender[s].token} ELSE silent
  /\ Become(s, IdleSender)
  /\ UNCHANGED <<now, kind, down, errors, tokens, key, heard>>

Undoubted(taken) == TRUE   \* Mutant: the result of dispatch is not looked at.
AnyDelivered(taken) == taken # {}

\* dispatch tries every channel whatever happened to the others.
Dispatch(s) ==
  /\ sender[s].step = "send"
  /\ \E taken \in SUBSET Channels :
       /\ heard' = IF taken # {} /\ sender[s].token # NoToken /\ key.token = sender[s].token
                     THEN heard \cup {[token |-> key.token, at |-> key.until - CooldownLength]}
                     ELSE heard
       /\ Become(s, IF AnyDelivered(taken) \/ sender[s].token = NoToken
                      THEN IdleSender ELSE [sender[s] EXCEPT !.step = "release"])
  /\ UNCHANGED <<now, kind, down, errors, tokens, key, silent, alertFaults>>

\* release_cooldown: a get, then a delete that no longer compares.
CompareToken(s) ==
  /\ sender[s].step = "release"
  /\ Become(s, IF WindowClaimed /\ key.token = sender[s].token THEN [sender[s] EXCEPT !.step = "delete"] ELSE IdleSender)
  /\ UNCHANGED <<now, kind, down, errors, tokens, key, heard, silent, alertFaults>>

DeleteKey(s) ==
  /\ sender[s].step = "delete"
  /\ key' = Free
  /\ heard' = IF key.token # sender[s].token THEN {} ELSE heard
  /\ Become(s, IdleSender)
  /\ UNCHANGED <<now, kind, down, errors, tokens, silent, alertFaults>>

-----------------------------------------------------------------------------
(* The digest and the environment.                                         *)

\* send_error_digest arms no cooldown; what it leaves behind is the purge.
SendDigest ==
  /\ kind = "spike"
  /\ errors' = [t \in Times |-> IF Retention > 0 /\ t < now - Retention THEN 0 ELSE errors[t]]
  /\ UNCHANGED <<now, kind, down, tokens, key, sender, heard, silent, alertFaults>>

BreakOrMend ==
  /\ kind = "health" /\ down' = ~down
  /\ UNCHANGED <<now, kind, errors, tokens, key, sender, heard, silent, alertFaults>>

\* The channels' timeouts end a dispatch within the window it has claimed.
ClockTick ==
  /\ now < MaxTime
  /\ \A s \in Senders : sender[s].token # NoToken /\ sender[s].token = key.token => now + 1 < key.until
  /\ now' = now + 1
  /\ UNCHANGED <<kind, down, errors, tokens, key, sender, heard, silent, alertFaults>>

EvictKey ==
  /\ AlertFault /\ key # Free
  /\ key' = Free /\ heard' = {}
  /\ UNCHANGED <<now, kind, down, errors, tokens, sender, silent>>

Send(s) == \/ RecordError(s) \/ CountRecent(s) \/ Probe(s) \/ ClearOnRecovery(s) \/ ArmCooldown(s)
           \/ GroupEvents(s) \/ Abort(s) \/ Dispatch(s) \/ CompareToken(s) \/ DeleteKey(s)

AlertNext == (\E s \in Senders : Send(s)) \/ SendDigest \/ BreakOrMend \/ ClockTick \/ EvictKey

AlertSpec == AlertInit /\ [][AlertNext]_alertVars

-----------------------------------------------------------------------------
(* Properties.                                                             *)

AlertTypeOK ==
  /\ now \in Times /\ kind \in Kinds /\ down \in BOOLEAN
  /\ errors \in [Times -> 0..MaxErrors] /\ tokens \in 0..MaxTokens
  /\ key.token \in 0..tokens /\ \A s \in Senders : sender[s].token \in 0..tokens
  /\ silent \subseteq 0..tokens /\ \A h \in heard : h.token \in 1..tokens /\ h.at <= now

\* No alert is muted by one nobody got: while the window is claimed, its owner is
\* still sending, has been heard, or died. And nobody is alerted twice in a
\* window: announced claims are a cooldown apart, although a failed sender gives
\* its window back in two calls while others claim it.
CooldownHonest ==
  /\ WindowClaimed => \/ key.token \in {h.token : h \in heard} \cup silent
                      \/ \E s \in Senders : sender[s].token = key.token
  /\ \A a, b \in heard : a # b => a.at - b.at >= CooldownLength \/ b.at - a.at >= CooldownLength
=============================================================================
