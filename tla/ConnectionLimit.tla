-------------------------- MODULE ConnectionLimit ---------------------------
(***************************************************************************)
(* What ConnectNum of Config.ini promises: the server serves at most that  *)
(* many clients at a time, each through a channel of its own, and turns a  *)
(* client away only when every channel is taken.                           *)
(***************************************************************************)
CONSTANTS
  Channels,  \* the channels
  Clients,   \* the clients, each of which connects once
  NoClient   \* a free channel's owner

VARIABLES
  owner,      \* the client each channel serves
  turnedAway  \* the clients that were refused

vars == <<owner, turnedAway>>

Served == {owner[c] : c \in Channels} \ {NoClient}

Init ==
  /\ owner = [c \in Channels |-> NoClient]
  /\ turnedAway = {}

Accept(c, k) ==
  /\ owner[c] = NoClient
  /\ k \notin Served \cup turnedAway
  /\ owner' = [owner EXCEPT ![c] = k]
  /\ UNCHANGED turnedAway

TurnAway(k) ==
  /\ k \notin Served \cup turnedAway
  /\ \A c \in Channels : owner[c] # NoClient
  /\ turnedAway' = turnedAway \cup {k}
  /\ UNCHANGED owner

Leave(c) ==
  /\ owner[c] # NoClient
  /\ owner' = [owner EXCEPT ![c] = NoClient]
  /\ UNCHANGED turnedAway

Next ==
  \/ \E k \in Clients : TurnAway(k) \/ \E c \in Channels : Accept(c, k)
  \/ \E c \in Channels : Leave(c)

Spec == Init /\ [][Next]_vars
=============================================================================
