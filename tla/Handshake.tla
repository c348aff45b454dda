----------------------------- MODULE Handshake -----------------------------
(***************************************************************************)
(* The session handshake of package session as a symbolic computation:     *)
(* what NegotiateClient puts on the wire, what NegotiateServer makes of    *)
(* those bytes, and the session each end derives.  Keys and secrets are    *)
(* atoms.  X25519, HKDF and AES-GCM (external) do what they are meant to   *)
(* do: a shared secret belongs to the owners of two key pairs, different   *)
(* inputs give different keys, and only the key that encrypted a frame     *)
(* decrypts it.                                                            *)
(***************************************************************************)
EXTENDS Integers

CONSTANTS
    ClientKeys,   \* API keys a client may hold: id, len of the id in bytes, the
                  \* prefix its first len % 2^16 bytes spell, and the secret
    KeyStore,     \* the server's APIKeyStore: a function from key IDs to secrets
    NoID,         \* the empty ID, of an anonymous client
    AnonSecret,   \* "hush-anonymous"
    Client,       \* the key pair of the client,
    Server,       \* that of the server,
    Garbage       \* and 32 bytes that are neither's public key

ASSUME HandshakeAssumption ==
    /\ \A k \in ClientKeys : k.len \in Nat /\ (k.len = 0 <=> k.id = NoID)
    /\ NoID \notin DOMAIN KeyStore
    /\ Client # Server /\ Client # Garbage /\ Server # Garbage

MaxKeyLen == 256
LenRange == 65536   \* of the two bytes that carry the length

(***************************************************************************)
(* The client's message.  Of an ID too long for its length field the       *)
(* server finds the start and, where the public key should be, more of the *)
(* ID.                                                                     *)
(***************************************************************************)
Fits(k) == k.len < LenRange

ClientInit(k) ==
    [len |-> k.len % LenRange,
     id  |-> IF Fits(k) THEN k.id ELSE k.prefix,
     pub |-> IF Fits(k) THEN Client ELSE Garbage]

\* The server takes length 0 for an anonymous client, and looks other IDs up.
Known(m) == m.len = 0 \/ (m.len <= MaxKeyLen /\ m.id \in DOMAIN KeyStore)

(***************************************************************************)
(* The session of either end.                                              *)
(***************************************************************************)
SharedSecret(priv, pub) == {priv, pub}

MutDeriveSessionKey(shared, secret) == <<shared, AnonSecret>>
DeriveSessionKey(shared, secret) == <<shared, secret>>

NewSession(i, keyID, key) == [id |-> i, apiKeyID |-> keyID, key |-> key]

MutClientSecret(k) == k.secret
ClientSecret(k) == IF k.id = NoID THEN AnonSecret ELSE k.secret

ClientSession(k, i) ==
    NewSession(i, k.id, DeriveSessionKey(SharedSecret(Client, Server), ClientSecret(k)))

ServerSession(m, i) ==
    NewSession(i, IF m.len = 0 THEN NoID ELSE m.id,
        DeriveSessionKey(SharedSecret(Server, m.pub),
                         IF m.len = 0 THEN AnonSecret ELSE KeyStore[m.id]))

Decrypts(key, encryptedWith) == key = encryptedWith

\* The client's key is the one the server knows under the client's ID.
RightSecret(k) ==
    k.id = NoID \/ (k.id \in DOMAIN KeyStore /\ k.secret = KeyStore[k.id])
=============================================================================
