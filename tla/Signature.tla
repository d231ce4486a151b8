----------------------------- MODULE Signature -----------------------------
(***************************************************************************)
(* Verifying the signature of a captured request and signing what is       *)
(* forwarded again (internal/signature, secretBox.check and resign in      *)
(* internal/handler/secrets.go, and their callers).                        *)
(*                                                                         *)
(* A signature names its scheme, its key and what it covers, and can be    *)
(* made only by who has the key: made holds those with the endpoint's      *)
(* secret, by the sender or by this server, and anybody may copy them into *)
(* a request of his own.  Signatures with another secret, and v1a ones of  *)
(* the endpoint's public key, which whoever knows the endpoint can set,    *)
(* anybody can make.                                                       *)
(*                                                                         *)
(* A header map has, for each of the three names, a value under the        *)
(* canonical spelling and one under another, which only a script that      *)
(* builds headers produces.                                                *)
(***************************************************************************)
EXTENDS Integers, FiniteSets

CONSTANTS
  Body,
  Id,           \* what webhook ids there are, msg_<request id> among them
  OwnId,
  Tolerance,    \* DefaultTolerance, in ticks
  LastTick,     \* bound on the clock
  MaxMade,      \* bound on the signatures with the secret, when a request comes in
  Settings,     \* bound on the endpoint's configurations
  Nothing       \* a missing header, no key, no result

ASSUME SignatureAssumption ==
  /\ OwnId \in Id
  /\ Tolerance \in Nat
  /\ LastTick \in Nat
  /\ Nothing \notin Id \cup Nat \cup {"secret"}

Name == {"id", "timestamp", "signature"}
Spelling == {"canonical", "other"}

SignatureEntry ==
  [version : {"v1", "v1a"}, key : {"secret", "another", "public"}, id : Id, ts : 0..LastTick, body : Body]

\* What decides about an endpoint's requests: a secret that is usable, not
\* valid, not readable with the keys there are, or not set; a public key; and
\* whether to sign again.
SignatureConfig ==
  [secret : {"secret", "malformed", "unreadable", Nothing}, publicKey : {"public", Nothing}, resign : BOOLEAN]

ASSUME SettingsAssumption == Settings \subseteq SignatureConfig

NoHeader == [n \in Name |-> IF n = "signature" THEN {} ELSE Nothing]

Canonical(id, ts, signatures) ==
  [n \in Name |-> [s \in Spelling |->
     IF s = "other" THEN NoHeader[n]
     ELSE CASE n = "id" -> id [] n = "timestamp" -> ts [] OTHER -> signatures]]

VARIABLES
  clock,
  made,       \* the v1 signatures with the endpoint's secret that exist
  request,    \* the request being handled, or Nothing
  outgoing    \* what is signed again and when, or Nothing

signatureVars == <<clock, made, request, outgoing>>

SignatureInit ==
  /\ clock = 0
  /\ made = {}
  /\ request = Nothing
  /\ outgoing = Nothing

PassTime ==
  /\ clock < LastTick
  /\ clock' = clock + 1
  /\ UNCHANGED <<made, request, outgoing>>

SignHMAC(id, ts, body) == [version |-> "v1", key |-> "secret", id |-> id, ts |-> ts, body |-> body]

SenderSigns ==
  /\ Cardinality(made) < MaxMade
  /\ \E id \in Id \ {OwnId}, body \in Body : made' = made \cup {SignHMAC(id, clock, body)}
  /\ UNCHANGED <<clock, request, outgoing>>

Get(h, name) == h[name]["canonical"]

\* verify, for the signatures of one scheme that the key matches.
verify(h, body, at, version, key) ==
  LET id == Get(h, "id")
      ts == Get(h, "timestamp")
  IN IF id = Nothing \/ ts = Nothing \/ Get(h, "signature") = {} THEN "missing"
     ELSE IF at - ts > Tolerance \/ ts - at > Tolerance THEN "invalid"
     ELSE IF \E e \in Get(h, "signature") :
               e = [version |-> version, key |-> key, id |-> id, ts |-> ts, body |-> body]
          THEN "verified"
     ELSE "invalid"

\* A malformed secret fails before a header is looked at.
VerifyHMAC(secret, h, body, at) ==
  IF secret = "malformed" THEN "invalid" ELSE verify(h, body, at, "v1", secret)

VerifyEd25519(publicKey, h, body, at) == verify(h, body, at, "v1a", publicKey)

\* Either key is enough, the secret is tried first.
Check(secret, publicKey, h, body, at) ==
  LET hmac == IF secret = Nothing THEN "invalid" ELSE VerifyHMAC(secret, h, body, at)
      ed25519 == IF publicKey = Nothing THEN "invalid" ELSE VerifyEd25519(publicKey, h, body, at)
  IN IF secret = Nothing /\ publicKey = Nothing THEN Nothing
     ELSE IF hmac # "invalid" THEN [status |-> hmac, scheme |-> IF hmac = "verified" THEN "v1" ELSE Nothing]
     ELSE [status |-> ed25519, scheme |-> IF ed25519 = "verified" THEN "v1a" ELSE Nothing]

\* check: a secret that cannot be decrypted fails the verification.
check(cfg, h, body, at) ==
  IF cfg.secret = "unreadable" THEN [status |-> "invalid", scheme |-> Nothing]
  ELSE Check(cfg.secret, cfg.publicKey, h, body, at)

\* The ids that Resign may take: one the headers have, in any spelling, else
\* the given one.
ResignId(h, id) ==
  LET present == {h["id"][s] : s \in Spelling} \ {Nothing}
  IN IF present = {} THEN {id} ELSE present

Fresh(id, body, at) == Canonical(id, at, {SignHMAC(id, at, body)})

\* Fault: a header in another spelling stays.
ResignCanonical(h, id, body, at) ==
  [n \in Name |-> [Fresh(id, body, at)[n] EXCEPT !["other"] = h[n]["other"]]]

\* Resign: one header of each name, whatever spellings there were.
Resign(h, id, body, at) == Fresh(id, body, at)

\* Fault: any scheme that verified will do.
ResignableAnyScheme(cfg, incoming) ==
  /\ cfg.resign
  /\ incoming # Nothing
  /\ incoming.status = "verified"
  /\ cfg.secret = "secret"

\* resign refuses what the secret itself has not signed.
Resignable(cfg, incoming) ==
  /\ cfg.resign
  /\ incoming # Nothing
  /\ incoming.status = "verified"
  /\ incoming.scheme = "v1"
  /\ cfg.secret = "secret"

\* A request comes in under some configuration: with an id and a timestamp, or
\* without, and any signatures its sender can get.
Receive ==
  /\ request = Nothing
  /\ outgoing = Nothing
  /\ Cardinality(made) <= MaxMade
  /\ \E cfg \in Settings, body \in Body, id \in Id \cup {Nothing}, ts \in 0..LastTick \cup {Nothing} :
       \E own \in SUBSET {[version |-> v, key |-> IF v = "v1" THEN "another" ELSE "public",
                           id |-> id, ts |-> ts, body |-> body] : v \in {"v1", "v1a"}},
          copied \in SUBSET made :
         LET h == Canonical(id, ts, own \cup copied)
         IN request' = [cfg |-> cfg, headers |-> h, body |-> body, at |-> clock,
                        verdict |-> check(cfg, h, body, clock)]
  /\ UNCHANGED <<clock, made, outgoing>>

\* What a transform may make of the headers: it keeps, drops or respells them.
Transformed(h) ==
  {h, Canonical(Nothing, Nothing, {}),
   [n \in Name |-> [s \in Spelling |-> h[n][IF s = "other" THEN "canonical" ELSE "other"]]],
   [n \in Name |-> [s \in Spelling |-> Get(h, n)]]}

\* The forward of a captured request, after the transform: it is signed again,
\* or it goes out as the transform left it, which is not kept here.
SignForward ==
  /\ request # Nothing
  /\ outgoing = Nothing
  /\ Resignable(request.cfg, request.verdict)
  /\ \E body \in Body, h \in Transformed(request.headers) : \E id \in ResignId(h, OwnId) :
       /\ outgoing' = [headers |-> Resign(h, id, body, clock), body |-> body, at |-> clock]
       /\ made' = made \cup {SignHMAC(id, clock, body)}
  /\ UNCHANGED <<clock, request>>

\* POST .../resign: a tab sends the request as captured and the body it is
\* about to forward; the request has to verify now.
ResignRequest ==
  /\ request # Nothing
  /\ outgoing = Nothing
  /\ LET incoming == check(request.cfg, request.headers, request.body, clock)
         id == IF Get(request.headers, "id") = Nothing THEN OwnId ELSE Get(request.headers, "id")
     IN \E body \in Body :
          /\ Resignable(request.cfg, incoming)
          /\ request' = [request EXCEPT !.at = clock, !.verdict = incoming]
          /\ outgoing' = [headers |-> Fresh(id, body, clock), body |-> body, at |-> clock]
          /\ made' = made \cup {SignHMAC(id, clock, body)}
  /\ UNCHANGED clock

NextRequest ==
  /\ request # Nothing
  /\ request' = Nothing
  /\ outgoing' = Nothing
  /\ UNCHANGED <<clock, made>>

SignatureNext ==
  \/ PassTime
  \/ SenderSigns
  \/ Receive
  \/ SignForward
  \/ ResignRequest
  \/ NextRequest

SignatureSpec == SignatureInit /\ [][SignatureNext]_signatureVars

-----------------------------------------------------------------------------
\* The server signs only on behalf of somebody who had the secret: what is
\* signed again came with a v1 signature of exactly what was received, made
\* with the secret and not older than the tolerance.
ResignedWasSigned ==
  outgoing # Nothing =>
    \E e \in Get(request.headers, "signature") \cap made :
      /\ e = SignHMAC(Get(request.headers, "id"), Get(request.headers, "timestamp"), request.body)
      /\ request.at - e.ts <= Tolerance

\* The headers as the target reads them: net/http sends every spelling under
\* the canonical name, in no certain order, and the target takes the first.
Reads(h) ==
  [n \in Name |-> {h[n][s] : s \in Spelling} \ {NoHeader[n]}]

\* A target that has the secret accepts what was signed again, as long as it
\* gets it within the tolerance, whatever the transform did to the headers.
ResignedVerifies ==
  outgoing # Nothing /\ clock - outgoing.at <= Tolerance =>
    \A id \in Reads(outgoing.headers)["id"] :
    \A ts \in Reads(outgoing.headers)["timestamp"] :
    \A sigs \in Reads(outgoing.headers)["signature"] :
      Check("secret", Nothing, Canonical(id, ts, sigs), outgoing.body, clock) = [status |-> "verified", scheme |-> "v1"]
=============================================================================
