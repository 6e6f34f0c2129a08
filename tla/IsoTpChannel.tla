----------------------------- MODULE IsoTpChannel -----------------------------
(***************************************************************************)
(* IsoTpSession implements PayloadChannel: the mapping of its state, and   *)
(* the two properties that say so.                                         *)
(***************************************************************************)
EXTENDS IsoTpSession

\* What an application has been given; bytes that are no whole payload are Mixed.
Given(n) == [i \in DOMAIN delivered[n] |->
  LET d == delivered[n][i] IN
    IF d.msg \in Msg /\ d.len = Size[d.msg] THEN d.msg ELSE Mixed]

\* Only a single frame can be lost without anyone noticing.
Channel == INSTANCE PayloadChannel WITH
  Silent <- IF Lossless THEN {} ELSE {m \in Msg : FitsSingle(m)},
  accepted <- sent,
  received <- [n \in Node |-> Given(n)],
  reported <- blamed,
  closing <- {n \in Node : status[n] # "open"}

\* SendContext, the two machines and their timers are a channel that delivers whole
\* payloads in order and once, and never delivers one after an error about it.
ImplementsChannel == Channel!Spec

\* The same, and every segmented payload is eventually delivered or reported, though
\* the bus loses frames.
ResolvesPayloads == Channel!FairSpec
=============================================================================
