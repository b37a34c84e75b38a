------------------------------- MODULE Notifier -------------------------------
(***************************************************************************)
(* What one call of NotificationService.Send may do                        *)
(* (internal/service/notification.go): the message goes to Telegram first, *)
(* then its row goes to notification_log.  A report says whether the       *)
(* message reached its reader, the delivery status of the row (NONE when   *)
(* there is no row) and the error the caller sees.                         *)
(*                                                                         *)
(* The sender is the bot's client; no sender at all (the API without a     *)
(* bot token); or a nil client inside a non-nil interface (the worker      *)
(* without a token: cmd/worker/main.go passes a *telegram.Client variable  *)
(* it never set), whose first use panics.                                  *)
(***************************************************************************)

Senders == {"bot", "no sender", "nil client"}
Statuses == {"SUCCESS", "FAILED", "NONE"}
Errors == {"none", "send", "unconfigured", "insert", "panic"}

\* A lost answer of Telegram is an error although the message was shown.
SendMessage(sender) ==
  CASE sender = "bot" ->
         {[told |-> TRUE, err |-> "none"], [told |-> TRUE, err |-> "send"],
          [told |-> FALSE, err |-> "send"]}
    [] sender = "no sender" -> {[told |-> FALSE, err |-> "unconfigured"]}
    [] sender = "nil client" -> {[told |-> FALSE, err |-> "panic"]}

DeliveryStatus(sent) == IF sent.err = "none" THEN "SUCCESS" ELSE "FAILED"

\* The insert succeeds, or fails and takes the place of the sender's error.
InsertNotification(sent) ==
  {[told |-> sent.told, status |-> DeliveryStatus(sent), err |-> sent.err],
   [told |-> sent.told, status |-> "NONE", err |-> "insert"]}

Panicked(sent) == {[told |-> FALSE, status |-> "NONE", err |-> "panic"]}

Send(sender) ==
  UNION {IF sent.err = "panic" THEN Panicked(sent) ELSE InsertNotification(sent)
           : sent \in SendMessage(sender)}

\* Slip: the failure is in the log, and that is enough.
ignoreLoggedSendError(err) == err \in {"none", "unconfigured", "send"}
ignoreNotificationSendError(err) == err \in {"none", "unconfigured"}
===============================================================================
