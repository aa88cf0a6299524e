-------------------------- MODULE SessionProtocol --------------------------
(* The three parts of a protocol handler (network/protocol/): the handshake  *)
(* of one side with its timers, the encryptor of a channel with its key      *)
(* rotation, and the parser of the wire format.  The application connects    *)
(* them; they share no state.  Handlers of the handshake run to their end    *)
(* without an await.                                                         *)
EXTENDS Integers, FiniteSets, Sequences

CONSTANTS MaxTimers,     \* start() calls without reset() (bound of the model)
          MaxKeys,       \* master keys (bound)
          MaxNonce,      \* 2^96 in the code: where a nonce begins again
          Streams        \* what a peer may send on a connection

VARIABLES hs,            \* [state, asked, timer, leaked] of the HandshakeManager
          cipher,        \* the ChannelEncryptor
          sealed,        \* what encrypt() used, in order (history)
          wire           \* [stream, arrived, done, given, failed] of the WireParser

vars == <<hs, cipher, sealed, wire>>

NoKey == 0

\* Intervals of the rotation, by the master key they were made with; `held' is
\* the one _keyRotationTimer holds.
Init ==
    /\ hs = [state |-> "idle", asked |-> FALSE, timer |-> FALSE, leaked |-> 0]
    /\ cipher = [key |-> NoKey, nonce |-> 0, keys |-> 0, intervals |-> {}, held |-> NoKey,
                 owned |-> FALSE]
    /\ sealed = <<>>
    /\ wire \in [stream : Streams, arrived : {0}, done : {0}, given : {<<>>}, failed : {FALSE}]

-----------------------------------------------------------------------------
(* HandshakeManager.  The messages it creates are read back from bytes whose *)
(* header says DATA and length 0, so that they leave without their payload:  *)
(* no peer ever learns a challenge, and a response to one is always wrong.   *)

Handshake(h) == hs' = h /\ UNCHANGED <<cipher, sealed, wire>>

\* _startTimeout() leaves the timer of an earlier start() running.
startTimeout(h) == [h EXCEPT !.leaked = IF h.timer THEN @ + 1 ELSE @, !.timer = TRUE]
clearTimeout(h) == [h EXCEPT !.timer = FALSE]
fail(h) == clearTimeout([h EXCEPT !.state = "failed"])

Start ==
    /\ hs.leaked < MaxTimers
    /\ Handshake(startTimeout([hs EXCEPT !.state = "hello_sent"]))

Reset == Handshake(clearTimeout([hs EXCEPT !.state = "idle", !.asked = FALSE]))

\* A HELLO in time: the state changes before the payload is parsed, which may
\* be cut short ("throws"), and the version may be unknown.
HandleHello(hello) ==
    /\ hs.state = "idle"
    /\ LET h == [hs EXCEPT !.state = "hello_received"]
       IN Handshake(CASE hello = "good" -> [h EXCEPT !.asked = TRUE]
                      [] hello = "version" -> fail(h)
                      [] hello = "throws" -> h)

\* Faulty variant: an answer that is awaited needs no timer.
HandleHelloAckUntimed(hello) ==
    /\ hs.state = "hello_sent"
    /\ Handshake(CASE hello = "good" -> clearTimeout([hs EXCEPT !.asked = TRUE, !.state = "auth_sent"])
                   [] hello = "version" -> fail(hs)
                   [] hello = "throws" -> hs)

HandleHelloAck(hello) ==
    /\ hs.state = "hello_sent"
    /\ Handshake(CASE hello = "good" -> [hs EXCEPT !.asked = TRUE, !.state = "auth_sent"]
                   [] hello = "version" -> fail(hs)
                   [] hello = "throws" -> hs)

\* AUTH and AUTH_ACK: without a challenge verify() throws.
HandleAuth == hs.state = "hello_received" /\ hs.asked /\ Handshake(fail(hs))
HandleAuthAck == hs.state = "auth_sent" /\ Handshake(fail(hs))

\* A timer runs out, the current one or a forgotten one.
Timeout ==
    \/ hs.timer /\ Handshake(fail(hs))
    \/ hs.leaked > 0 /\ Handshake(fail([hs EXCEPT !.leaked = @ - 1]))

HandshakeNext ==
    \/ Start \/ Reset \/ HandleAuth \/ HandleAuthAck \/ Timeout
    \/ \E hello \in {"good", "version", "throws"} : HandleHello(hello) \/ HandleHelloAck(hello)

-----------------------------------------------------------------------------
(* ChannelEncryptor.  A key stands for the master key it is derived from;    *)
(* the one of a rotation is the hash of an older one and of the time.        *)

Cipher(c) == cipher' = c /\ UNCHANGED <<hs, wire>>

\* Faulty variant: the rotation derives its key without the time, so that the
\* next key is the present one again.
KeyedAgain(c) == LET k == IF c.key = NoKey THEN c.keys + 1 ELSE c.key
                 IN [c EXCEPT !.key = k, !.keys = k, !.nonce = 0,
                              !.intervals = @ \cup {k}, !.held = k]

\* init(): the interval of an earlier key goes on, and is no longer held.
Keyed(c) == LET k == c.keys + 1
            IN [c EXCEPT !.key = k, !.keys = k, !.nonce = 0,
                         !.intervals = @ \cup {k}, !.held = k]

\* The owner calls init() with the session key of a handshake.
InitCipher ==
    /\ cipher.keys < MaxKeys
    /\ Cipher([Keyed(cipher) EXCEPT !.owned = TRUE]) /\ UNCHANGED sealed

\* Every interval rotates the key, also those init() and destroy() forgot.
Rotate(k) ==
    /\ k \in cipher.intervals /\ cipher.keys < MaxKeys
    /\ Cipher(Keyed(cipher)) /\ UNCHANGED sealed

encrypt ==
    /\ cipher.key # NoKey
    /\ Len(sealed) < MaxNonce
    /\ Cipher([cipher EXCEPT !.nonce = (@ + 1) % MaxNonce])
    /\ sealed' = Append(sealed, <<cipher.key, cipher.nonce>>)

stopKeyRotation(c) == [c EXCEPT !.intervals = @ \ {c.held}, !.held = NoKey]

destroy ==
    /\ Cipher([stopKeyRotation(cipher) EXCEPT !.key = NoKey, !.owned = FALSE])
    /\ UNCHANGED sealed

CipherNext ==
    \/ InitCipher \/ encrypt \/ destroy
    \/ cipher.held # NoKey /\ Cipher(stopKeyRotation(cipher)) /\ UNCHANGED sealed
    \/ \E k \in 1..MaxKeys : Rotate(k)

-----------------------------------------------------------------------------
(* WireParser: a message arrives as its header and its payload, "large" is a *)
(* message whose header exceeds the maximum.                                 *)

\* Messages of which all bytes have arrived, up to one with too large a header.
Complete(w) == {i \in DOMAIN w.stream : w.arrived >= 2 * i}
TooLarge(w) == {i \in DOMAIN w.stream : w.stream[i] = "large" /\ w.arrived >= 2 * i - 1}

\* Faulty variant: what was parsed is not cut off.
ParsedAgain(w) == {i \in Complete(w) : \A j \in TooLarge(w) : i < j}

Parsed(w) == {i \in Complete(w) : i > w.done /\ \A j \in TooLarge(w) : i < j}

\* The messages of a set in the order of the stream.
Ascending(S) == [k \in 1..Cardinality(S) |->
                   CHOOSE i \in S : Cardinality({j \in S : j < i}) = k - 1]

\* feed() of n pieces.  An oversized message empties the buffer and leaves the
\* parser out of step with the stream: what it returns afterwards is not
\* modelled.
Feed(n) ==
    LET w == [wire EXCEPT !.arrived = @ + n]
    IN /\ ~wire.failed
       /\ w.arrived <= 2 * Len(w.stream)
       /\ wire' = [w EXCEPT !.given = @ \o Ascending(Parsed(w)),
                            !.done = @ + Cardinality(Parsed(w)),
                            !.failed = TooLarge(w) # {}]
       /\ UNCHANGED <<hs, cipher, sealed>>

WireNext == \E n \in 1..3 : Feed(n)

Next == HandshakeNext \/ CipherNext \/ WireNext

\* Timers fire; nobody has to send.
Spec == Init /\ [][Next]_vars /\ WF_vars(Timeout)

-----------------------------------------------------------------------------
TypeOK ==
    /\ hs.state \in {"idle", "hello_sent", "hello_received", "auth_sent", "failed"}
    /\ hs.leaked \in 0..MaxTimers
    /\ cipher.key \in 0..MaxKeys /\ cipher.held \in 0..MaxKeys
    /\ cipher.nonce \in 0..MaxNonce

\* A side that waits for an answer has a timer, so that its handshake ends,
\* whatever timers of earlier handshakes fire meanwhile.
WaitHasTimer == hs.state \in {"hello_sent", "auth_sent"} => hs.timer

\* However the rotations of several intervals fall between two messages, no
\* key and nonce encrypt two messages.
NonceFresh == \A i, j \in DOMAIN sealed : sealed[i] = sealed[j] => i = j

\* Whatever pieces a stream arrives in, its messages are returned in order and
\* once, and none before all of it is there.
MessagesInOrder ==
    /\ wire.given = [i \in 1..Len(wire.given) |-> i]
    /\ Len(wire.given) <= wire.arrived \div 2
    /\ ~wire.failed => Len(wire.given) = wire.arrived \div 2

\* "Clean up ... Secure wipe keys" (encryption.js:318-322): an encryptor that
\* was destroyed has no key until its owner initialises it again.
DestroyedHasNoKey == ~cipher.owned => cipher.key = NoKey

=============================================================================
