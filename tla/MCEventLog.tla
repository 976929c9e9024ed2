---------------------------- MODULE MCEventLog ----------------------------
(* EventLog on every stream of at most MaxEvents events out of a small     *)
(* vocabulary: each kind, each way a call can end, two timestamps.         *)
EXTENDS EventLog

Stamps == 1 .. 3

Ari(kind, at, value, cause) ==
  [kind |-> kind, at |-> at, value |-> value, cause |-> cause, from |-> "ARI"]

Small ==
  { Ari(k, t, "NONE", NoCause) : k \in {"StasisStart", "PlaybackStarted",
                                        "PlaybackFinished", "StasisEnd"}, t \in Stamps }
  \cup { Ari("ChannelDtmfReceived", t, d, NoCause) : d \in {"1", "9"}, t \in {1, 2} }
  \cup { Ari("AmdResult", 2, "MACHINE", NoCause) }
  \cup { Ari("ChannelDestroyed", t, "NONE", c) :
           c \in {NoCause, "NORMAL", "USER_BUSY", "CONGESTION"}, t \in {2, 3} }
  \cup { [Ari("ChannelDestroyed", 3, "NONE", NoCause) EXCEPT !.from = f] :
           f \in {"CDR", "RECONCILER"} }

\* The beginning and the end of one call.
Ordinary == { e \in Small : \/ e.kind = "StasisStart" /\ e.at = 1
                            \/ e.kind = "ChannelDestroyed" /\ e.at = 2 }
===========================================================================
