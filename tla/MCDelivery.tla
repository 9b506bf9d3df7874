----------------------------- MODULE MCDelivery -----------------------------
(* An instance of Delivery for TLC: two tabs, and the bounds of each setup. *)
EXTENDS Delivery

TwoTabs == {1, 2}

Bounded(channel, dedup, messages, events, time) ==
  [channel |-> channel, dedup |-> dedup, messages |-> messages, events |-> events, time |-> time]

(* Without a window the clock is never read.  A window of one id forgets    *)
(* by count with two messages, and by time with one.                        *)
Windows(channel) ==
  {Bounded(channel, "off", 1, 2, 0), Bounded(channel, "fixed", 2, 1, 0),
   Bounded(channel, "fixed", 1, 0, 2), Bounded(channel, "adaptive", 2, 0, 1),
   Bounded(channel, "adaptive", 1, 0, 3)}

SmallSetups ==
  Windows("none") \cup Windows("broadcast")
    \cup {Bounded("storage", "off", 2, 0, 0), Bounded("storage", "off", 1, 1, 0)}
============================================================================
