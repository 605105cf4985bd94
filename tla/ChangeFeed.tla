------------------------------- MODULE ChangeFeed -------------------------------
(***************************************************************************)
(* What an ApolloConfigWatcher promises the caller of Next, without its    *)
(* goroutines, contexts and requests: a feed of the releases of one        *)
(* namespace that may leave releases out and may repeat one, but never     *)
(* goes back, never runs ahead of the server, keeps at most one release    *)
(* waiting, and ends with Stop.                                            *)
(***************************************************************************)
EXTENDS Naturals, Sequences

VARIABLES
    release,    \* the server's newest release
    channel,    \* the release that waits for Next, if any
    delivered,  \* the release Next last returned, 0 before the first
    stopped     \* Stop has returned

vars == <<release, channel, delivered, stopped>>

Init == release = 0 /\ channel = <<>> /\ delivered = 0 /\ stopped = FALSE

Publish == release' = release + 1 /\ UNCHANGED <<channel, delivered, stopped>>

\* After Stop nothing new is handed over.
Hand == /\ ~stopped
        /\ channel = <<>>
        /\ \E r \in delivered..release : channel' = <<r>>
        /\ UNCHANGED <<release, delivered, stopped>>

\* Next may still return what was waiting when the feed was stopped.
Deliver == /\ channel # <<>>
           /\ delivered' = Head(channel)
           /\ channel' = <<>>
           /\ UNCHANGED <<release, stopped>>

Stop == ~stopped /\ stopped' = TRUE /\ UNCHANGED <<release, channel, delivered>>

Next == Publish \/ Hand \/ Deliver \/ Stop

Spec == Init /\ [][Next]_vars
================================================================================
