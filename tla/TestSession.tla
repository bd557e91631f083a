----------------------------- MODULE TestSession -----------------------------
(***************************************************************************)
(* What a test session of Perftest promises, whatever the language of the  *)
(* port and the middleware under it: the announcements of the subscribers  *)
(* hold every publisher back until all subscribers are ready, and the      *)
(* FINISHED samples of the publishers hold every subscriber in the test    *)
(* until no publisher sends data any more.                                 *)
(***************************************************************************)
CONSTANTS Pubs, Subs

VARIABLES
  ready,    \* subscribers that have announced themselves
  started,  \* publishers that have begun to write samples
  stopped,  \* publishers that will write no further data sample
  ended     \* subscribers that have ended the test

tsVars == <<ready, started, stopped, ended>>

TSInit == ready = {} /\ started = {} /\ stopped = {} /\ ended = {}

Announce(s) ==
  /\ ready' = ready \cup {s}
  /\ UNCHANGED <<started, stopped, ended>>

Start(p) ==
  /\ ready = Subs
  /\ started' = started \cup {p}
  /\ UNCHANGED <<ready, stopped, ended>>

Stop(p) ==
  /\ p \in started
  /\ stopped' = stopped \cup {p}
  /\ UNCHANGED <<ready, started, ended>>

End(s) ==
  /\ stopped = Pubs
  /\ ended' = ended \cup {s}
  /\ UNCHANGED <<ready, started, stopped>>

TSNext ==
  \/ \E s \in Subs : Announce(s) \/ End(s)
  \/ \E p \in Pubs : Start(p) \/ Stop(p)

TSSpec == TSInit /\ [][TSNext]_tsVars

\* The parts of a test follow one another: no publisher writes before every subscriber is
\* ready, and no subscriber ends before every publisher has written its last sample.
InOrder ==
  /\ ready \subseteq Subs /\ stopped \subseteq started
  /\ started # {} => ready = Subs
  /\ ended # {} => stopped = Pubs /\ (Pubs # {} => ready = Subs)
=============================================================================
