----------------------- MODULE MCNotificationDelivery -----------------------
(* Small instances of NotificationDelivery for TLC. *)
EXTENDS NotificationDelivery, TLC

CONSTANTS aapl, sma50, score

\* One ticker: a break and a recovery of a line, a change of the score, a stop.
MCTicker  == [a \in Alerts |-> aapl]
MCSubject == [a \in Alerts |-> CASE a \in {1, 2} -> sma50
                                 [] a = 3 -> score
                                 [] a = 4 -> NoSubject]
MCRoute   == [a \in Alerts |-> CASE a = 1 -> "break"
                                 [] a = 2 -> "recovery"
                                 [] a = 3 -> "score"
                                 [] a = 4 -> "stop"]
MCModes   == [r \in Routes |-> IF r = "recovery" THEN "digest" ELSE "immediate"]
MCOff     == [r \in Routes |-> IF r = "recovery" THEN "off" ELSE "immediate"]
MCNoLimit == [s \in Subjects |-> 0]
MCLimit   == [s \in Subjects |-> IF s = sma50 THEN 1 ELSE 0]
=============================================================================
