--------------------------- MODULE SecureChannels ---------------------------
(* The channel manager of a node (core/channel/manager.js), and the channel  *)
(* that two nodes share (core/crypto/channel.js).  A channel of the manager  *)
(* awaits its shared key when it opens, and the import of a module when it   *)
(* rekeys, sends and receives; calls and its timer run meanwhile.  Keys are  *)
(* abstract: the key of an epoch is the number of the epoch, NoKey is null.  *)
EXTENDS Integers, FiniteSets, Sequences

CONSTANTS Peers,
          Channels,      \* channel objects (bound of the model)
          Keyed,         \* whether the node has an identity that derives keys
          MaxEpoch,      \* epochs of a channel (bound)
          MaxSends,      \* messages of a channel (bound)
          Sides,         \* the two roles, "alice" and "bob"
          CounterLimit   \* 2^32 in the code: where a counter begins again

VARIABLES channel,       \* the channel objects
          map,           \* ChannelManager.channels
          closing,       \* channels closeAll() has still to close, or Idle
          side,          \* the two ends of the shared channel
          boxes          \* what was encrypted (history, and the wire)

vars == <<channel, map, closing, side, boxes>>

None == 0
NoKey == -1
Idle == {None}

\* busy: what the channel awaits; epochs: the epochs of sessionKeys.
NewChannel == [peer |-> None, state |-> "none", key |-> NoKey, epoch |-> 0, nonce |-> 0,
               timer |-> FALSE, epochs |-> {}, busy |-> {}, idle |-> FALSE]

Init ==
    /\ channel = [c \in Channels |-> NewChannel]
    /\ map = [p \in Peers |-> None]
    /\ closing = Idle
    /\ side = [r \in Sides |-> [epoch |-> 0, send |-> 1, recv |-> 1]]
    /\ boxes = {}

-----------------------------------------------------------------------------
(* SecureChannel of the manager *)

Set(c, value) == channel' = [channel EXCEPT ![c] = value]

\* ChannelManager.open(): an open channel of the map is used again; otherwise
\* a new one is opened, and enters the map only afterwards.
Open(p, c) ==
    /\ channel[c].state = "none" /\ \A d \in Channels : channel[d].state = "none" => c <= d
    /\ map[p] # None => channel[map[p]].state # "OPEN"
    /\ Set(c, [NewChannel EXCEPT !.peer = p, !.state = "INITIALIZING", !.busy = {"open"}])
    /\ UNCHANGED <<map, closing, side, boxes>>

\* SecureChannel.open() after deriveSharedKey().  close() may have come first.
Opened(c, ok) ==
    LET opened == [channel[c] EXCEPT !.busy = @ \ {"open"}, !.state = "OPEN",
                                     !.timer = TRUE, !.key = IF Keyed THEN 0 ELSE @]
    IN /\ "open" \in channel[c].busy
       /\ ok \/ Keyed
       /\ IF ok THEN Set(c, opened) /\ map' = [map EXCEPT ![channel[c].peer] = c]
          ELSE /\ Set(c, [channel[c] EXCEPT !.busy = @ \ {"open"}, !.state = "ERROR"])
               /\ UNCHANGED map
       /\ UNCHANGED <<closing, side, boxes>>

\* Faulty variant: does not wipe the key.
ClosedKeepsKey(k) ==
    IF k.state = "CLOSED" THEN k ELSE [k EXCEPT !.state = "CLOSED", !.timer = FALSE]

Closed(k) ==
    IF k.state = "CLOSED" THEN k
    ELSE [k EXCEPT !.state = "CLOSED", !.timer = FALSE, !.key = NoKey, !.epochs = {}]

\* SecureChannel.close(), by whoever holds the channel.
CloseChannel(c) ==
    /\ channel[c].state \notin {"none", "INITIALIZING"}
    /\ Set(c, Closed(channel[c]))
    /\ UNCHANGED <<map, closing, side, boxes>>

Close(p) ==
    /\ map[p] # None
    /\ Set(map[p], Closed(channel[map[p]]))
    /\ map' = [map EXCEPT ![p] = None]
    /\ UNCHANGED <<closing, side, boxes>>

Mapped == {map[p] : p \in Peers} \ {None}

\* closeAll(): one channel after the other, then the map is emptied, with
\* whatever entered it meanwhile.
CloseAll ==
    /\ closing = Idle /\ closing' = Mapped
    /\ UNCHANGED <<channel, map, side, boxes>>

CloseNext ==
    /\ closing # Idle
    /\ \/ \E c \in closing : Set(c, Closed(channel[c])) /\ closing' = closing \ {c}
                             /\ UNCHANGED map
       \/ /\ closing = {} /\ closing' = Idle
          /\ map' = [p \in Peers |-> None] /\ UNCHANGED channel
    /\ UNCHANGED <<side, boxes>>

\* rekey(): it is not asked whether another one runs (bound: one at a time).
Rekeying(k) == [k EXCEPT !.state = "REKEYING", !.busy = @ \cup {"rekey"}]

BeginRekey(c) ==
    /\ channel[c].state # "none" /\ "rekey" \notin channel[c].busy
    /\ Set(c, Rekeying(channel[c]))
    /\ UNCHANGED <<map, closing, side, boxes>>

\* The timer, or a message after the rekey interval without activity.
RekeyTimer(c) ==
    /\ channel[c].timer /\ channel[c].state = "OPEN" /\ channel[c].idle
    /\ "rekey" \notin channel[c].busy
    /\ Set(c, Rekeying(channel[c]))
    /\ UNCHANGED <<map, closing, side, boxes>>

BecomesIdle(c) ==
    /\ channel[c].state = "OPEN" /\ ~channel[c].idle
    /\ Set(c, [channel[c] EXCEPT !.idle = TRUE])
    /\ UNCHANGED <<map, closing, side, boxes>>

\* After the import: without a key (there never was one, or close() came
\* first) deriving the next one throws, also out of the send() that awaits it.
RekeyEnds(c) ==
    LET rest == channel[c].busy \ {"rekey", "sendRekey"}
        resumed == IF "sendRekey" \in channel[c].busy THEN {"send"} ELSE {}
    IN /\ "rekey" \in channel[c].busy
       /\ channel[c].epoch < MaxEpoch
       /\ Set(c, IF channel[c].key = NoKey
                 THEN [channel[c] EXCEPT !.state = "ERROR", !.busy = rest]
                 ELSE [channel[c] EXCEPT !.state = "OPEN", !.busy = rest \cup resumed,
                                         !.epochs = @ \cup {channel[c].epoch},
                                         !.key = channel[c].epoch + 1, !.epoch = @ + 1,
                                         !.nonce = 0])
       /\ UNCHANGED <<map, closing, side, boxes>>

\* send(): its first await is a rekey if one is due, and else the import.
Send(c) ==
    LET k == channel[c]
    IN /\ k.state = "OPEN" /\ k.key # NoKey
       /\ k.busy \cap {"send", "sendRekey"} = {}
       /\ IF k.idle
          THEN "rekey" \notin k.busy /\ Set(c, [Rekeying(k) EXCEPT !.busy = @ \cup {"sendRekey"}])
          ELSE Set(c, [k EXCEPT !.busy = @ \cup {"send"}])
       /\ UNCHANGED <<map, closing, side, boxes>>

\* After the import a nonce is drawn, and box.seal, which crypto/box.js does not
\* have, throws, so that messageCount stays 0; receive() fails in the same way
\* at box.open and changes nothing.
SendFails(c) ==
    /\ "send" \in channel[c].busy
    /\ channel[c].nonce < MaxSends
    /\ Set(c, [channel[c] EXCEPT !.busy = @ \ {"send"}, !.nonce = @ + 1])
    /\ UNCHANGED <<map, closing, side, boxes>>

ManagerNext ==
    \/ \E p \in Peers : Close(p) \/ \E c \in Channels : Open(p, c)
    \/ \E c \in Channels : \/ CloseChannel(c) \/ BeginRekey(c) \/ RekeyTimer(c)
                           \/ BecomesIdle(c) \/ RekeyEnds(c) \/ Send(c) \/ SendFails(c)
                           \/ \E ok \in BOOLEAN : Opened(c, ok)
    \/ CloseAll \/ CloseNext

-----------------------------------------------------------------------------
(* SecureChannel of core/crypto/channel.js: the ends rekey by themselves, and*)
(* boxes may be lost, repeated and reordered on their way.                   *)

Other(r) == CHOOSE s \in Sides : s # r

\* _deriveKeysForEpoch(): a key for each direction and epoch; the nonce takes
\* the counter as 32 bits.
Sent(s) == [s EXCEPT !.send = @ + 1]
Received(s) == [s EXCEPT !.recv = @ + 1]
Made(r) == Cardinality({b \in boxes : b.from = r})
Box(r) == [from |-> r, made |-> Made(r),
           key |-> <<r, side[r].epoch>>, nonce |-> side[r].send % CounterLimit,
           opened |-> FALSE]

encryptToPeer(r) ==
    /\ Cardinality(boxes) < MaxSends
    /\ boxes' = boxes \cup {Box(r)}
    /\ side' = [side EXCEPT ![r] = Sent(@)]
    /\ UNCHANGED <<channel, map, closing>>

\* A box is opened by the key of the direction and of the receiver's epoch.
decryptFromPeer(r, b) ==
    /\ b.key = <<Other(r), side[r].epoch>>
    /\ side[r].recv <= MaxSends
    /\ side' = [side EXCEPT ![r] = Received(@)]
    /\ boxes' = (boxes \ {b}) \cup {[b EXCEPT !.opened = TRUE]}
    /\ UNCHANGED <<channel, map, closing>>

\* Faulty variant: begins the counters again under the same keys.
rekeySameKeys(r) ==
    /\ side[r].epoch < MaxEpoch
    /\ side' = [side EXCEPT ![r].send = 1, ![r].recv = 1]
    /\ UNCHANGED <<channel, map, closing, boxes>>

rekey(r) ==
    /\ side[r].epoch < MaxEpoch
    /\ side' = [side EXCEPT ![r] = [epoch |-> @.epoch + 1, send |-> 1, recv |-> 1]]
    /\ UNCHANGED <<channel, map, closing, boxes>>

PairNext == \E r \in Sides : \/ encryptToPeer(r) \/ rekey(r)
                             \/ \E b \in boxes : decryptFromPeer(r, b)

\* The two kinds of channel share no state: a run may explore them apart.
Next == ManagerNext \/ PairNext

Spec == Init /\ [][Next]_vars

-----------------------------------------------------------------------------
TypeOK ==
    /\ \A c \in Channels :
         /\ channel[c].state \in {"none", "INITIALIZING", "OPEN", "REKEYING", "CLOSED", "ERROR"}
         /\ channel[c].key \in {NoKey} \cup 0..MaxEpoch
         /\ channel[c].busy \subseteq {"open", "rekey", "send", "sendRekey"}
    /\ map \in [Peers -> Channels \cup {None}]
    /\ closing \subseteq Channels \cup {None}

\* However opening, rekeying and sending overlap with close(), a channel that
\* is closed holds no key and no timer, and a key always is the one of the
\* channel's epoch, which the keys kept for the transition precede.
ClosedIsClean ==
    \A c \in Channels :
      LET k == channel[c]
      IN /\ k.state = "CLOSED" => k.key = NoKey /\ k.epochs = {} /\ ~k.timer
         /\ k.key # NoKey => k.key = k.epoch \/ "open" \in k.busy
         /\ \A e \in k.epochs : e < k.epoch

\* No two messages of a channel are encrypted under one key and one nonce,
\* whenever the ends rekey and whatever arrives.
NonceFresh ==
    \A a, b \in boxes : (a.key = b.key /\ a.nonce = b.nonce) => a = b

=============================================================================
