--------------------------- MODULE EndpointProofs ---------------------------
(***************************************************************************)
(* Proofs about EndpointAPI, for any number of endpoints, calls, slugs,    *)
(* requests and instances, with the former settings or not.                *)
(*                                                                         *)
(* The properties are about what calls have answered.  What makes them     *)
(* inductive is what is known of a call before that: CallInv says what it  *)
(* may have done by where it is, and that what it is going to store comes  *)
(* from what it read.  ClearInv says of every config that may be written   *)
(* back, a row, what a call has read or a page holds, that it has no       *)
(* secret in the clear that was not sent so.  ResealInv says of every      *)
(* secret that is to be brought under the primary key that the reseal has  *)
(* it before it, in its page or further down the list.                     *)
(***************************************************************************)
EXTENDS EndpointAPI, FiniteSetTheorems, TLAPS

USE DEF Id

-----------------------------------------------------------------------------
\* Records.
LEMMA CallFields ==
  ASSUME NEW s \in CallState
  PROVE  /\ s.op \in {"create", "patch", "delete"} /\ s.id \in Id \cup {0} /\ s.body \in Body
         /\ s.at \in {"naming", "renaming", "removing", "saving", "deleting", "replied"}
         /\ s.read \in Endpoint \cup {NoEndpoint} /\ s.config \in Config
         /\ s.tries \in 0..Attempts /\ s.did \in SUBSET {"create", "rename", "edit", "delete"}
         /\ s.status \in Status
         /\ s # Absent
BY CallAssumption DEF CallState

LEMMA BodyFields ==
  ASSUME NEW b \in Body
  PROVE  /\ b.name \in Name \cup {Absent}
         /\ b.rename \in BOOLEAN
         /\ b.config \in ConfigSent \cup {Absent}
BY DEF Body

LEMMA EndpointFields ==
  ASSUME NEW e \in Endpoint
  PROVE  e.slug \in Slug /\ e.name \in Name /\ e.config \in Config /\ e # NoEndpoint
BY MissingAssumption DEF Endpoint

\* A caller's call after a step of it, and the others'.
LEMMA AfterStep ==
  ASSUME APITypeOK, NEW c \in Caller, NEW s \in CallState, Step(c, s)
  PROVE  /\ call'[c] = s
         /\ \A d \in Caller \ {c} : call'[d] = call[d]
         /\ call' \in [Caller -> CallState \cup {Absent}]
BY DEF APITypeOK, Step

LEMMA AfterArrival ==
  ASSUME APITypeOK, NEW c \in Caller, NEW s \in CallState, Arrive(c, s)
  PROVE  /\ call[c] = Absent
         /\ call'[c] = s
         /\ \A d \in Caller \ {c} : call'[d] = call[d]
         /\ call' \in [Caller -> CallState \cup {Absent}]
         /\ UNCHANGED <<endpoints, created, hubVars, reseal, raced, initially>>
BY DEF APITypeOK, Arrive

\* What a reply keeps of the call, and what it does not.
Replied(s, status) ==
  [s EXCEPT !.at = "replied", !.status = status, !.read = NoEndpoint, !.config = NoSignature]

LEMMA RepliedFields ==
  ASSUME NEW s \in CallState, NEW status \in Status
  PROVE  /\ Replied(s, status) \in CallState
         /\ Replied(s, status).at = "replied"
         /\ Replied(s, status).status = status
         /\ Replied(s, status).op = s.op
         /\ Replied(s, status).id = s.id
         /\ Replied(s, status).body = s.body
         /\ Replied(s, status).tries = s.tries
         /\ Replied(s, status).did = s.did
BY DEF Replied, CallState, Config

LEMMA ReplyIsStep ==
  ASSUME NEW c, NEW s, NEW status, Reply(c, status, s)
  PROVE  Step(c, Replied(s, status))
BY DEF Reply, Replied

LEMMA AtCall ==
  ASSUME APITypeOK, NEW c \in Caller, NEW at, At(c, at)
  PROVE  call[c] \in CallState /\ call[c].at = at
BY DEF APITypeOK, At

-----------------------------------------------------------------------------
\* Sealing: what is stored holds what was sent, and comes from the old secret
\* or is under the given key.
LEMMA StoreFacts ==
  ASSUME NEW secret \in Secret, NEW key \in {Primary, Former}, store(secret, key) # Refused
  PROVE  /\ key # NoKey
         /\ store(secret, key) \in Sealed
         /\ store(secret, key).value = secret
         /\ store(secret, key).key = key
BY EndpointAssumption DEF store, EncryptString, Sealed

LEMMA ConfigFields ==
  ASSUME NEW config \in Config, config # NoSignature
  PROVE  /\ config.resign \in BOOLEAN
         /\ config.secret \in Sealed \cup {NoSecret}
         /\ config.respelled \in Secret \cup {NoSecret}
         /\ config.secret # NoSecret =>
              /\ config.secret.value \in Secret
              /\ config.secret.key \in {Primary, Former, Forgotten, Plain} \ {NoKey}
BY DEF Config, Sealed

\* What a config read from the database has for its secret.
LEMMA FoundFacts ==
  ASSUME NEW config \in Config
  PROVE  /\ Found(config) \in Sealed \cup {NoSecret}
         /\ Found(config) # NoSecret =>
              /\ Found(config).value \in Secret
              /\ Found(config).key = Plain => Found(config).value \in InTheClear(config)
              /\ Found(config).key # Plain => /\ config # NoSignature
                                              /\ config.secret = Found(config)
<1>1. CASE config = NoSignature
  BY <1>1 DEF Found
<1>2. CASE config # NoSignature /\ config.secret = NoSecret /\ config.respelled # NoSecret
  <2>1. Found(config) = [value |-> config.respelled, key |-> Plain] /\ config.respelled \in Secret
    BY <1>2, ConfigFields DEF Found
  <2>2. Found(config) \in Sealed /\ Found(config).value = config.respelled /\ Found(config).key = Plain
    BY <2>1, EndpointAssumption DEF Sealed
  <2> QED BY <1>2, <2>1, <2>2 DEF InTheClear
<1>3. CASE config # NoSignature /\ ~(config.secret = NoSecret /\ config.respelled # NoSecret)
  <2>1. Found(config) = config.secret /\ config.secret \in Sealed \cup {NoSecret}
    BY <1>3, ConfigFields DEF Found
  <2>2. ASSUME config.secret # NoSecret, config.secret.key = Plain
        PROVE  config.secret.value \in InTheClear(config)
    <3>1. config.secret = [value |-> config.secret.value, key |-> Plain] /\ config.secret.value \in Secret
      BY <2>1, <2>2 DEF Sealed
    <3> QED BY <1>3, <3>1 DEF InTheClear
  <2> QED BY <1>3, <2>1, <2>2, ConfigFields
<1> QED BY <1>1, <1>2, <1>3

\* The secret that seal puts under the sent configuration.
SealedSecret(sent, old, key) ==
  LET previous == Found(old)
  IN CASE sent.secret \in Secret -> store(sent.secret, key)
       [] sent.secret = Cleared -> NoSecret
       [] OTHER -> IF previous # NoSecret /\ previous.key = Plain /\ key # NoKey
                   THEN store(previous.value, key) ELSE previous

LEMMA SealedSecretFacts ==
  ASSUME NEW sent \in ConfigSent, sent # NoSignature, NEW old \in Config, NEW key \in {Primary, Former},
         SealedSecret(sent, old, key) # Refused
  PROVE  /\ SealedSecret(sent, old, key) \in Sealed \cup {NoSecret}
         /\ sent.secret = Cleared => SealedSecret(sent, old, key) = NoSecret
         /\ sent.secret \in Secret => /\ SealedSecret(sent, old, key) # NoSecret
                                      /\ SealedSecret(sent, old, key).value = sent.secret
         /\ \/ SealedSecret(sent, old, key) = NoSecret
            \/ SealedSecret(sent, old, key).key = key
            \/ /\ Found(old) # NoSecret
               /\ SealedSecret(sent, old, key) = Found(old)
               /\ Found(old).key = Plain => key = NoKey
<1> DEFINE previous == Found(old)
<1>1. CASE sent.secret \in Secret
  <2>1. sent.secret # Cleared
    BY <1>1, MissingAssumption
  <2>2. SealedSecret(sent, old, key) = store(sent.secret, key)
    BY <1>1, <2>1 DEF SealedSecret
  <2> QED BY <1>1, <2>1, <2>2, StoreFacts, MissingAssumption
<1>2. CASE sent.secret \notin Secret /\ sent.secret = Cleared
  <2>1. SealedSecret(sent, old, key) = NoSecret
    BY <1>2 DEF SealedSecret
  <2> QED BY <1>2, <2>1
<1>3. CASE sent.secret \notin Secret /\ sent.secret # Cleared
  <2>1. SealedSecret(sent, old, key) = IF previous # NoSecret /\ previous.key = Plain /\ key # NoKey
                                       THEN store(previous.value, key) ELSE previous
    BY <1>3 DEF SealedSecret
  <2> HIDE DEF previous
  <2>2. CASE previous # NoSecret /\ previous.key = Plain /\ key # NoKey
    <3>1. SealedSecret(sent, old, key) = store(previous.value, key) /\ previous.value \in Secret
      BY <2>1, <2>2, FoundFacts DEF previous
    <3> QED BY <1>3, <3>1, StoreFacts
  <2>3. CASE ~(previous # NoSecret /\ previous.key = Plain /\ key # NoKey)
    <3>1. SealedSecret(sent, old, key) = previous /\ previous \in Sealed \cup {NoSecret}
      BY <2>1, <2>3, FoundFacts DEF previous
    <3> QED BY <1>3, <2>3, <3>1 DEF previous
  <2> QED BY <2>2, <2>3
<1> QED BY <1>1, <1>2, <1>3

\* What is stored holds what was sent; it has in the clear only what the old
\* config had, or what was sent under another spelling; and an instance with the
\* current settings leaves no more secrets to reseal than there were.
LEMMA SealFacts ==
  ASSUME NEW sent \in ConfigSent, NEW old \in Config, NEW key \in {Primary, Former},
         seal(sent, old, key) # Refused
  PROVE  /\ seal(sent, old, key) \in Config
         /\ Holds(seal(sent, old, key), sent)
         /\ InTheClear(seal(sent, old, key)) \subseteq InTheClear(old) \cup Respelled(sent)
         /\ key = Primary /\ Under(seal(sent, old, key), {Plain, Former}) => Under(old, {Plain, Former})
<1>1. CASE sent = NoSignature
  <2>1. seal(sent, old, key) = NoSignature
    BY <1>1 DEF seal
  <2> QED BY <1>1, <2>1 DEF Holds, Under, Config, InTheClear
<1>2. CASE sent # NoSignature /\ ~sent.exact
  <2>1. seal(sent, old, key) = [resign |-> sent.resign, secret |-> NoSecret, respelled |-> Verbatim(sent)]
    BY <1>2 DEF seal
  <2>2. /\ sent.resign \in BOOLEAN /\ sent # Absent /\ sent.respelled \in Secret \cup {NoSecret}
        /\ Verbatim(sent) \in Secret \cup {NoSecret}
    BY <1>2, MissingAssumption DEF ConfigSent, Verbatim
  <2> DEFINE new == [resign |-> sent.resign, secret |-> NoSecret, respelled |-> Verbatim(sent)]
  <2>3. new \in Config /\ new # NoSignature
    BY <2>2, MissingAssumption DEF Config
  <2>4. new.resign = sent.resign /\ new.secret = NoSecret /\ new.respelled = Verbatim(sent)
    OBVIOUS
  <2> HIDE DEF new
  <2>5. Holds(new, sent)
    BY <1>2, <2>2, <2>3, <2>4 DEF Holds
  <2>6. InTheClear(new) \subseteq Respelled(sent)
    <3> SUFFICES ASSUME NEW s \in Secret, s \in InTheClear(new) PROVE s \in Respelled(sent)
      BY DEF InTheClear
    <3>1. NoSecret # [value |-> s, key |-> Plain]
      BY MissingAssumption, EndpointAssumption DEF Sealed
    <3>2. Verbatim(sent) = s
      BY <2>4, <3>1 DEF InTheClear
    <3> QED BY <1>2, <2>2, <3>2 DEF Respelled, Verbatim
  <2>7. ~Under(new, {Plain, Former})
    BY <2>4 DEF Under
  <2> QED BY <2>1, <2>3, <2>5, <2>6, <2>7 DEF new
<1>3. CASE sent # NoSignature /\ sent.exact
  <2> DEFINE secret == SealedSecret(sent, old, key)
             new == [resign |-> sent.resign, secret |-> secret, respelled |-> sent.respelled]
  <2>1. secret # Refused /\ seal(sent, old, key) = new
    BY <1>3 DEF seal, SealedSecret
  <2>2. sent.resign \in BOOLEAN /\ sent # Absent /\ sent.respelled \in Secret \cup {NoSecret}
    BY <1>3, MissingAssumption DEF ConfigSent
  <2>3. secret \in Sealed \cup {NoSecret}
    BY <1>3, <2>1, SealedSecretFacts
  <2>4. /\ sent.secret = Cleared => secret = NoSecret
        /\ sent.secret \in Secret => secret # NoSecret /\ secret.value = sent.secret
    BY <1>3, <2>1, SealedSecretFacts
  <2>5. \/ secret = NoSecret
        \/ secret.key = key
        \/ Found(old) # NoSecret /\ secret = Found(old) /\ (Found(old).key = Plain => key = NoKey)
    BY <1>3, <2>1, SealedSecretFacts
  <2> HIDE DEF secret
  <2>6. new \in Config /\ new # NoSignature
    BY <2>2, <2>3, MissingAssumption DEF Config
  <2>7. new.resign = sent.resign /\ new.secret = secret /\ new.respelled = sent.respelled
    OBVIOUS
  <2> HIDE DEF new
  <2>8. Holds(new, sent)
    BY <1>3, <2>2, <2>4, <2>6, <2>7 DEF Holds
  <2>9. key # Plain /\ Primary \notin {Plain, Former, NoKey} /\ NoSecret \notin Secret
    BY EndpointAssumption, MissingAssumption
  <2>10. InTheClear(new) \subseteq InTheClear(old) \cup Respelled(sent)
    <3> SUFFICES ASSUME NEW s \in Secret, s \in InTheClear(new) PROVE s \in InTheClear(old) \cup Respelled(sent)
      BY DEF InTheClear
    <3>1. CASE new.respelled = s
      BY <1>3, <2>2, <2>7, <3>1 DEF Respelled
    <3>2. CASE secret = [value |-> s, key |-> Plain]
      <4>1. secret.key = Plain /\ secret.value = s /\ secret # NoSecret
        <5>1. [value |-> s, key |-> Plain] \in Sealed
          BY EndpointAssumption DEF Sealed
        <5> QED BY <3>2, <5>1, MissingAssumption
      <4>2. Found(old) # NoSecret /\ secret = Found(old)
        BY <2>5, <2>9, <4>1
      <4> QED BY <4>1, <4>2, FoundFacts
    <3> QED BY <2>7, <3>1, <3>2 DEF InTheClear
  <2>11. ASSUME key = Primary, Under(new, {Plain, Former}) PROVE Under(old, {Plain, Former})
    <3>1. secret # NoSecret /\ secret.key \in {Plain, Former}
      BY <2>7, <2>11 DEF Under
    <3>2. Found(old) # NoSecret /\ secret = Found(old) /\ Found(old).key # Plain
      BY <2>5, <2>9, <2>11, <3>1
    <3> QED BY <3>1, <3>2, FoundFacts DEF Under
  <2> QED BY <2>1, <2>6, <2>8, <2>10, <2>11
<1> QED BY <1>1, <1>2, <1>3

LEMMA Keys == \A c \in Caller : Key(c) \in {Primary, Former} /\ (Home[c] \notin Outdated => Key(c) = Primary)
BY DEF Key

-----------------------------------------------------------------------------
\* What the steps of a call do to it.
OnlyCall(c) ==
  /\ call'[c] \in CallState
  /\ \A d \in Caller \ {c} : call'[d] = call[d]
  /\ call' \in [Caller -> CallState \cup {Absent}]

SameTask(s, t) == t.op = s.op /\ t.id = s.id /\ t.body = s.body

SameBasis(s, t) == t.read = s.read /\ t.config = s.config

LEMMA ReplyEffect ==
  ASSUME APITypeOK, NEW c \in Caller, NEW s \in CallState, NEW status \in Status, Reply(c, status, s)
  PROVE  /\ OnlyCall(c)
         /\ SameTask(s, call'[c])
         /\ call'[c].at = "replied"
         /\ call'[c].status = status
         /\ call'[c].did = s.did
         /\ call'[c].tries = s.tries
BY ReplyIsStep, RepliedFields, AfterStep DEF OnlyCall, SameTask

LEMMA UnmetFields ==
  ASSUME NEW s \in CallState
  PROVE  Unmet(s) \in CallState /\ Unmet(s).did = s.did
<1>1. NoBody \in Body
  BY DEF NoBody, Body
<1> QED BY <1>1 DEF Unmet, CallState

LEMMA TryAgainEffect ==
  ASSUME APITypeOK, NEW c \in Caller, TryAgain(c)
  PROVE  /\ OnlyCall(c) /\ UNCHANGED <<endpoints, created, hubVars, reseal, raced, initially>>
         /\ call[c] \in CallState /\ call[c].at \in {"naming", "renaming"}
         /\ call'[c].did = call[c].did
         /\ \/ /\ call'[c].at = call[c].at
               /\ SameTask(call[c], call'[c])
               /\ SameBasis(call[c], call'[c])
               /\ call'[c].tries < Attempts
            \/ call'[c].at = "replied" /\ call'[c].status = "conflict" /\ call'[c].tries = Attempts
<1>1. PICK id \in Id \cup {0} : SlugTaken(c, id) /\ call[c] \in CallState /\ call[c].at \in {"naming", "renaming"}
  BY AtCall, CallFields DEF TryAgain
<1>2. UNCHANGED <<endpoints, created, hubVars, reseal, raced, initially>>
  BY <1>1 DEF SlugTaken
<1>3. CASE call[c].tries + 1 < Attempts
  <2> DEFINE t == [call[c] EXCEPT !.tries = @ + 1]
  <2>1. Step(c, t)
    BY <1>1, <1>3 DEF SlugTaken
  <2>2. /\ t \in CallState /\ SameTask(call[c], t) /\ SameBasis(call[c], t) /\ t.did = call[c].did
        /\ t.at = call[c].at /\ t.tries = call[c].tries + 1
    <3>1. call[c].tries + 1 \in 0..Attempts
      BY <1>1, <1>3, CallFields, EndpointAssumption
    <3> QED BY <1>1, <3>1 DEF CallState, SameTask, SameBasis
  <2> HIDE DEF t
  <2>3. OnlyCall(c) /\ call'[c] = t
    BY <2>1, <2>2, AfterStep DEF OnlyCall
  <2> QED BY <1>1, <1>2, <1>3, <2>2, <2>3
<1>4. CASE ~(call[c].tries + 1 < Attempts)
  <2> DEFINE t == [Unmet(call[c]) EXCEPT !.tries = Attempts]
  <2>1. Reply(c, "conflict", t)
    BY <1>1, <1>4 DEF SlugTaken
  <2>2. t \in CallState /\ t.did = call[c].did /\ t.tries = Attempts
    <3>1. Attempts \in 0..Attempts
      BY EndpointAssumption
    <3> QED BY <1>1, <3>1, UnmetFields DEF CallState
  <2> HIDE DEF t
  <2>3. "conflict" \in Status
    BY DEF Status
  <2> QED BY <1>1, <1>2, <2>1, <2>2, <2>3, ReplyEffect
<1> QED BY <1>3, <1>4

Inserted(c) ==
  \E s \in Slug :
    endpoints' = [endpoints EXCEPT ![created'] =
                    [slug |-> s, name |-> call[c].body.name, config |-> call[c].config]]

LEMMA InsertEffect ==
  ASSUME APITypeOK, NEW c \in Caller, Insert(c)
  PROVE  /\ OnlyCall(c) /\ UNCHANGED <<hubVars, reseal, raced, initially>>
         /\ call[c] \in CallState /\ call[c].at = "naming"
         /\ created < MaxEndpoints /\ created' = created + 1 /\ created' \in Id
         /\ Inserted(c)
         /\ call'[c].at = "replied" /\ call'[c].status = "ok" /\ call'[c].did = {"create"}
         /\ call'[c].id = created' /\ call'[c].body = call[c].body
<1> DEFINE t == [call[c] EXCEPT !.id = created', !.did = {"create"}]
<1>1. call[c] \in CallState /\ call[c].at = "naming"
  BY AtCall DEF Insert
<1>2. created < MaxEndpoints /\ created' = created + 1 /\ created' \in Id
  <2>1. created < MaxEndpoints /\ created' = created + 1
    BY DEF Insert, InsertEndpoint
  <2> QED BY <2>1, EndpointAssumption DEF APITypeOK
<1>3. Inserted(c)
  BY DEF Insert, InsertEndpoint, Inserted
<1>4. t \in CallState /\ t.id = created' /\ t.did = {"create"} /\ t.body = call[c].body
  BY <1>1, <1>2 DEF CallState
<1>5. Reply(c, "ok", t) /\ "ok" \in Status /\ UNCHANGED <<hubVars, reseal, raced, initially>>
  BY DEF Insert, Status
<1> HIDE DEF t
<1> QED BY <1>1, <1>2, <1>3, <1>4, <1>5, ReplyEffect DEF SameTask

LEMMA RenameEffect ==
  ASSUME APITypeOK, NEW c \in Caller, Rename(c)
  PROVE  /\ OnlyCall(c) /\ TakeUrl(c) /\ UNCHANGED <<created, reseal, raced, initially>>
         /\ call[c] \in CallState /\ call[c].at = "renaming" /\ RenameEndpoint(call[c].id)
         /\ SameTask(call[c], call'[c]) /\ SameBasis(call[c], call'[c])
         /\ call'[c].at = "removing" /\ call'[c].did = {"rename"}
<1> DEFINE t == [call[c] EXCEPT !.at = "removing", !.did = {"rename"}]
<1>1. call[c] \in CallState /\ call[c].at = "renaming"
  BY AtCall DEF Rename
<1>2. Step(c, t) /\ RenameEndpoint(call[c].id) /\ TakeUrl(c) /\ UNCHANGED <<created, reseal, raced, initially>>
  BY DEF Rename
<1>3. /\ t \in CallState /\ SameTask(call[c], t) /\ SameBasis(call[c], t)
      /\ t.at = "removing" /\ t.did = {"rename"}
  BY <1>1 DEF CallState, SameTask, SameBasis
<1> HIDE DEF t
<1> QED BY <1>1, <1>2, <1>3, AfterStep DEF OnlyCall

LEMMA DeleteRowEffect ==
  ASSUME APITypeOK, NEW c \in Caller, DeleteRow(c)
  PROVE  /\ OnlyCall(c) /\ TakeUrl(c) /\ UNCHANGED <<created, reseal, raced, initially>>
         /\ call[c] \in CallState /\ call[c].at = "deleting"
         /\ endpoints' = [endpoints EXCEPT ![call[c].id] = NoEndpoint]
         /\ SameTask(call[c], call'[c]) /\ SameBasis(call[c], call'[c])
         /\ call'[c].at = "removing" /\ call'[c].did = {"delete"}
<1> DEFINE t == [call[c] EXCEPT !.at = "removing", !.did = {"delete"}]
<1>1. call[c] \in CallState /\ call[c].at = "deleting"
  BY AtCall DEF DeleteRow
<1>2. /\ Step(c, t) /\ endpoints' = [endpoints EXCEPT ![call[c].id] = NoEndpoint]
      /\ TakeUrl(c) /\ UNCHANGED <<created, reseal, raced, initially>>
  BY DEF DeleteRow
<1>3. /\ t \in CallState /\ SameTask(call[c], t) /\ SameBasis(call[c], t)
      /\ t.at = "removing" /\ t.did = {"delete"}
  BY <1>1 DEF CallState, SameTask, SameBasis
<1> HIDE DEF t
<1> QED BY <1>1, <1>2, <1>3, AfterStep DEF OnlyCall

LEMMA RemoveBufferEffect ==
  ASSUME APITypeOK, NEW c \in Caller, RemoveBuffer(c)
  PROVE  /\ OnlyCall(c) /\ UNCHANGED <<endpoints, created, reseal, raced, initially>>
         /\ call[c] \in CallState /\ call[c].at = "removing"
         /\ Forget(Home[c], call[c].read.slug)
         /\ SameTask(call[c], call'[c]) /\ call'[c].did = call[c].did
         /\ \/ call[c].op = "delete" /\ call'[c].at = "replied" /\ call'[c].status = "ok"
            \/ call[c].op # "delete" /\ call'[c].at = "saving" /\ SameBasis(call[c], call'[c])
<1> DEFINE t == [call[c] EXCEPT !.at = "saving"]
<1>1. call[c] \in CallState /\ call[c].at = "removing"
  BY AtCall DEF RemoveBuffer
<1>2. Forget(Home[c], call[c].read.slug) /\ UNCHANGED <<endpoints, created, reseal, raced, initially>>
  BY DEF RemoveBuffer
<1>3. t \in CallState /\ SameTask(call[c], t) /\ SameBasis(call[c], t) /\ t.at = "saving" /\ t.did = call[c].did
  BY <1>1 DEF CallState, SameTask, SameBasis
<1>4. IF call[c].op = "delete" THEN Reply(c, "ok", call[c]) ELSE Step(c, t)
  BY DEF RemoveBuffer
<1>5. "ok" \in Status
  BY DEF Status
<1> HIDE DEF t
<1>6. CASE call[c].op = "delete"
  BY <1>1, <1>2, <1>4, <1>5, <1>6, ReplyEffect
<1>7. CASE call[c].op # "delete"
  BY <1>1, <1>2, <1>3, <1>4, <1>7, AfterStep DEF OnlyCall
<1> QED BY <1>6, <1>7

LEMMA SaveEffect ==
  ASSUME APITypeOK, NEW c \in Caller, Save(c)
  PROVE  /\ OnlyCall(c) /\ UNCHANGED <<reseal, initially>>
         /\ call[c] \in CallState /\ call[c].at = "saving" /\ Live(call[c].id)
         /\ Write(call[c].id, call[c].read, NewName(c), call[c].config)
         /\ SameTask(call[c], call'[c])
         /\ call'[c].at = "replied" /\ call'[c].status = "ok" /\ call'[c].did = call[c].did \cup {"edit"}
<1> DEFINE t == [call[c] EXCEPT !.did = @ \cup {"edit"}]
<1>1. call[c] \in CallState /\ call[c].at = "saving"
  BY AtCall DEF Save
<1>2. t \in CallState /\ SameTask(call[c], t) /\ t.did = call[c].did \cup {"edit"}
  BY <1>1 DEF CallState, SameTask
<1>3. /\ Reply(c, "ok", t) /\ "ok" \in Status /\ UNCHANGED <<reseal, initially>> /\ Live(call[c].id)
      /\ Write(call[c].id, call[c].read, NewName(c), call[c].config)
  BY DEF Save, Status
<1> HIDE DEF t
<1> QED BY <1>1, <1>2, <1>3, ReplyEffect DEF SameTask

LEMMA StoreFailsEffect ==
  ASSUME APITypeOK, NEW c \in Caller, StoreFails(c)
  PROVE  /\ OnlyCall(c) /\ UNCHANGED <<endpoints, created, hubVars, reseal, raced, initially>>
         /\ call[c] \in CallState /\ call[c].at \in {"naming", "renaming", "saving", "deleting"}
         /\ call'[c].did = call[c].did
         /\ call'[c].at = "replied" /\ call'[c].status = "failed"
BY AtCall, ReplyEffect, UnmetFields DEF StoreFails, Status

-----------------------------------------------------------------------------
\* What is known of a call by where it is.
\* What a creation is going to store.
MakesConfig(c) ==
  /\ call[c].id = 0
  /\ call[c].body.name # Absent
  /\ Holds(call[c].config, call[c].body.config)
  /\ InTheClear(call[c].config) \subseteq Respelled(call[c].body.config)
  /\ Home[c] \notin Outdated => ~Under(call[c].config, {Plain, Former})

\* What a PATCH is going to store comes from what it read.
KeepsConfig(c) ==
  /\ call[c].id \in Id
  /\ call[c].read # NoEndpoint
  /\ IF call[c].body.config = Absent THEN call[c].config = call[c].read.config
                                     ELSE Holds(call[c].config, call[c].body.config)
  /\ InTheClear(call[c].config) \subseteq InTheClear(call[c].read.config) \cup Respelled(call[c].body.config)
  /\ Home[c] \notin Outdated /\ Under(call[c].config, {Plain, Former}) => Under(call[c].read.config, {Plain, Former})

\* ErrorsLeaveNoEdit, of one call.
Outcome(c) ==
  CASE call[c].status = "ok" -> {"create", "edit", "delete"} \cap call[c].did # {}
    [] call[c].status = "failed" -> call[c].did \subseteq {"rename"}
    [] call[c].status = "conflict" -> call[c].did = {} /\ call[c].tries = Attempts
    [] OTHER -> call[c].did = {}

Progress(c) ==
  /\ call[c].at = "naming" => call[c].op = "create" /\ call[c].did = {} /\ call[c].tries < Attempts
  /\ call[c].at = "renaming" => call[c].op = "patch" /\ call[c].did = {} /\ call[c].tries < Attempts
  /\ call[c].at = "deleting" => call[c].op = "delete" /\ call[c].did = {}
  /\ call[c].at = "removing" =>
       \/ call[c].op = "patch" /\ call[c].did \subseteq {"rename"}
       \/ call[c].op = "delete" /\ "delete" \in call[c].did /\ call[c].did \subseteq {"delete"}
  /\ call[c].at = "saving" => call[c].op = "patch" /\ call[c].did \subseteq {"rename"}
  /\ call[c].at = "replied" => Outcome(c)

CallInv(c) ==
  call[c] # Absent =>
    /\ Progress(c)
    /\ call[c].at = "naming" => MakesConfig(c)
    /\ call[c].op = "patch" /\ call[c].at \in {"renaming", "removing", "saving"} => KeepsConfig(c)

CallsInv == \A c \in Caller : CallInv(c)

\* A PATCH on its way.
Patching(c) == call[c] # Absent /\ call[c].op = "patch" /\ call[c].at \in {"renaming", "removing", "saving"}

\* A call begins with what it read, if anything.
LEMMA ArrivedFields ==
  ASSUME NEW op \in {"create", "patch", "delete"}, NEW id \in Id \cup {0}, NEW body \in Body
  PROVE  /\ Arrived(op, id, body) \in CallState
         /\ Arrived(op, id, body).op = op
         /\ Arrived(op, id, body).id = id
         /\ Arrived(op, id, body).body = body
         /\ Arrived(op, id, body).at = "replied"
         /\ Arrived(op, id, body).did = {}
         /\ Arrived(op, id, body).tries = 0
<1>1. 0 \in 0..Attempts
  BY EndpointAssumption
<1> QED BY <1>1 DEF Arrived, CallState, Config, Status

LEMMA RejectedFields ==
  ASSUME NEW op \in {"create", "patch", "delete"}, NEW status \in {"refused", "notFound"}
  PROVE  /\ Rejected(op, status) \in CallState
         /\ Rejected(op, status).at = "replied"
         /\ Rejected(op, status).status = status
         /\ Rejected(op, status).did = {}
<1>1. NoBody \in Body
  BY DEF NoBody, Body
<1>2. Arrived(op, 0, NoBody) \in CallState /\ Arrived(op, 0, NoBody).at = "replied" /\ Arrived(op, 0, NoBody).did = {}
  BY <1>1, ArrivedFields
<1> QED BY <1>2 DEF Rejected, CallState, Status

Began(c) ==
  /\ call[c] = Absent
  /\ OnlyCall(c)
  /\ call'[c].did = {}
  /\ UNCHANGED <<endpoints, created, hubVars, reseal, raced, initially>>

LEMMA BeganState ==
  ASSUME APITypeOK, NEW c \in Caller, NEW s \in CallState, Arrive(c, s), s.did = {}
  PROVE  Began(c) /\ call'[c] = s
BY AfterArrival DEF Began, OnlyCall

LEMMA NothingToAttempt == 0 < Attempts
BY EndpointAssumption

\* A PATCH takes along the row as it is.
ReadsRow(c) == Patching(c)' => Live(call'[c].id) /\ call'[c].read = endpoints[call'[c].id]

LEMMA RejectEffect ==
  ASSUME APITypeOK, NEW c \in Caller, NEW op \in {"create", "patch", "delete"},
         NEW status \in {"refused", "notFound"}, Arrive(c, Rejected(op, status))
  PROVE  Began(c) /\ CallInv(c)' /\ ReadsRow(c)
<1> DEFINE t == Rejected(op, status)
<1>1. t \in CallState /\ t.at = "replied" /\ t.status = status /\ t.did = {}
  BY RejectedFields
<1> HIDE DEF t
<1>2. Began(c) /\ call'[c] = t
  BY <1>1, BeganState DEF t
<1> QED BY <1>1, <1>2 DEF CallInv, Progress, Outcome, ReadsRow, Patching

LEMMA CreateEffect ==
  ASSUME APITypeOK, NEW c \in Caller, NEW body \in Sent, CreateEndpoint(c, body)
  PROVE  Began(c) /\ CallInv(c)' /\ ReadsRow(c)
<1> DEFINE sent == IF body.config = Absent THEN NoSignature ELSE body.config
           sealed == seal(sent, NoSignature, Key(c))
           state == Arrived("create", 0, body)
<1>1. /\ body \in Body /\ body.name # Absent /\ sent \in ConfigSent
      /\ NoSignature \in Config /\ Key(c) \in {Primary, Former}
  BY SentAssumption, BodyFields, Keys DEF CreateEndpoint, ConfigSent, Config
<1>2. state \in CallState /\ state.op = "create" /\ state.body = body /\ state.did = {} /\ state.tries = 0 /\ state.id = 0
  BY <1>1, ArrivedFields
<1>3. CASE Arrive(c, Rejected("create", "refused"))
  BY <1>3, RejectEffect
<1>4. CASE sealed # Refused /\ Arrive(c, [state EXCEPT !.at = "naming", !.config = sealed])
  <2> DEFINE t == [state EXCEPT !.at = "naming", !.config = sealed]
  <2>1. /\ sealed \in Config /\ Holds(sealed, sent)
        /\ InTheClear(sealed) \subseteq InTheClear(NoSignature) \cup Respelled(sent)
        /\ Key(c) = Primary /\ Under(sealed, {Plain, Former}) => Under(NoSignature, {Plain, Former})
    <3> HIDE DEF sent
    <3> QED BY <1>1, <1>4, SealFacts
  <2>2. Holds(sealed, body.config)
    BY <2>1 DEF Holds
  <2>3. /\ InTheClear(sealed) \subseteq Respelled(body.config)
        /\ Home[c] \notin Outdated => ~Under(sealed, {Plain, Former})
    BY <2>1, Keys DEF Under, InTheClear, Respelled
  <2> HIDE DEF sealed
  <2>4. /\ t \in CallState /\ t.at = "naming" /\ t.op = "create" /\ t.did = {} /\ t.tries = 0
        /\ t.config = sealed /\ t.body = body /\ t.id = 0
    BY <1>2, <2>1 DEF CallState
  <2>5. Began(c) /\ call'[c] = t
    BY <1>4, <2>4, BeganState
  <2> HIDE DEF t
  <2>6. Progress(c)' /\ MakesConfig(c)'
    BY <1>1, <2>2, <2>3, <2>4, <2>5, NothingToAttempt DEF Progress, MakesConfig
  <2> QED BY <2>4, <2>5, <2>6 DEF CallInv, ReadsRow, Patching
<1> QED BY <1>3, <1>4 DEF CreateEndpoint

LEMMA UpdateEffect ==
  ASSUME APITypeOK, NEW c \in Caller, NEW id \in Id, NEW body \in Sent, UpdateEndpoint(c, id, body)
  PROVE  Began(c) /\ CallInv(c)' /\ ReadsRow(c)
<1> DEFINE row == endpoints[id]
           config == IF body.config = Absent THEN row.config ELSE seal(body.config, row.config, Key(c))
           state == [Arrived("patch", id, body) EXCEPT !.read = row]
<1>1. body \in Body /\ Key(c) \in {Primary, Former} /\ row \in Endpoint \cup {NoEndpoint}
  BY SentAssumption, Keys DEF APITypeOK
<1>2. /\ state \in CallState /\ state.op = "patch" /\ state.id = id /\ state.body = body
      /\ state.at = "replied" /\ state.did = {} /\ state.tries = 0 /\ state.read = row
  BY <1>1, ArrivedFields DEF CallState
<1> HIDE DEF state
<1>3. CASE \/ Arrive(c, Rejected("patch", "notFound"))
           \/ Arrive(c, Rejected("patch", "refused"))
  BY <1>3, RejectEffect
<1>4. CASE /\ Live(id) /\ config # Refused
           /\ Arrive(c, [state EXCEPT !.at = IF body.rename THEN "renaming" ELSE "saving", !.config = config])
  <2> DEFINE t == [state EXCEPT !.at = IF body.rename THEN "renaming" ELSE "saving", !.config = config]
  <2>1. row \in Endpoint /\ row.config \in Config
    BY <1>1, <1>4, EndpointFields DEF Live
  <2>2. /\ config \in Config
        /\ IF body.config = Absent THEN config = row.config ELSE Holds(config, body.config)
        /\ InTheClear(config) \subseteq InTheClear(row.config) \cup Respelled(body.config)
        /\ Home[c] \notin Outdated /\ Under(config, {Plain, Former}) => Under(row.config, {Plain, Former})
    <3>1. CASE body.config = Absent
      BY <2>1, <3>1
    <3>2. CASE body.config # Absent
      <4>1. body.config \in ConfigSent /\ config = seal(body.config, row.config, Key(c))
        BY <1>1, <3>2, BodyFields
      <4> QED BY <1>1, <1>4, <2>1, <3>2, <4>1, SealFacts, Keys
    <3> QED BY <3>1, <3>2
  <2> HIDE DEF config
  <2>4. /\ t \in CallState /\ t.at \in {"renaming", "saving"} /\ t.op = "patch" /\ t.did = {} /\ t.tries = 0
        /\ t.config = config /\ t.body = body /\ t.read = row /\ t.id = id
    BY <1>1, <1>2, <2>2 DEF CallState
  <2>5. Began(c) /\ call'[c] = t
    BY <1>4, <2>4, BeganState
  <2>6. ReadsRow(c)
    BY <1>4, <2>4, <2>5 DEF ReadsRow
  <2> HIDE DEF t, row
  <2>7. Progress(c)'
    BY <2>4, <2>5, NothingToAttempt DEF Progress
  <2>8. KeepsConfig(c)'
    <3>1. row # NoEndpoint
      BY <1>4 DEF Live, row
    <3> QED BY <2>2, <2>4, <2>5, <3>1 DEF KeepsConfig
  <2> QED BY <2>4, <2>5, <2>6, <2>7, <2>8 DEF CallInv
<1> QED BY <1>3, <1>4 DEF UpdateEndpoint, state

LEMMA DeleteEffect ==
  ASSUME APITypeOK, NEW c \in Caller, NEW id \in Id, DeleteEndpoint(c, id)
  PROVE  Began(c) /\ CallInv(c)' /\ ReadsRow(c)
<1> DEFINE state == [Arrived("delete", id, NoBody) EXCEPT !.read = endpoints[id]]
<1>1. NoBody \in Body /\ endpoints[id] \in Endpoint \cup {NoEndpoint}
  BY DEF NoBody, Body, APITypeOK
<1>2. state \in CallState /\ state.op = "delete" /\ state.at = "replied" /\ state.did = {}
  BY <1>1, ArrivedFields DEF CallState
<1> HIDE DEF state
<1>3. CASE Live(id)
  <2> DEFINE t == [state EXCEPT !.at = "deleting"]
  <2>1. t \in CallState /\ t.op = "delete" /\ t.at = "deleting" /\ t.did = {}
    BY <1>2 DEF CallState
  <2>2. Arrive(c, t)
    BY <1>3 DEF DeleteEndpoint, state
  <2> HIDE DEF t
  <2>3. Began(c) /\ call'[c] = t
    BY <2>1, <2>2, BeganState
  <2> QED BY <2>1, <2>3 DEF CallInv, Progress, ReadsRow, Patching
<1>4. CASE ~Live(id)
  BY <1>4, RejectEffect DEF DeleteEndpoint
<1> QED BY <1>3, <1>4

LEMMA BeginEffect ==
  ASSUME APITypeOK, NEW c \in Caller, Begin(c)
  PROVE  Began(c) /\ CallInv(c)' /\ ReadsRow(c)
BY CreateEffect, UpdateEffect, DeleteEffect DEF Begin

-----------------------------------------------------------------------------
\* What the writes do to the rows.
OnlyRow(id) ==
  /\ endpoints' \in [Id -> Endpoint \cup {NoEndpoint}]
  /\ \A other \in Id \ {id} : endpoints'[other] = endpoints[other]

LEMMA WriteRow ==
  ASSUME APITypeOK, NEW id \in Id, NEW read, NEW name \in Name, NEW config \in Config,
         Live(id), Write(id, read, name, config)
  PROVE  /\ OnlyRow(id)
         /\ endpoints'[id] \in Endpoint
         /\ endpoints'[id].slug = endpoints[id].slug
         /\ endpoints'[id].name = name
         /\ endpoints'[id].config = config
         /\ raced' \in SUBSET Id /\ raced \subseteq raced' /\ raced' \subseteq raced \cup {id}
         /\ id \notin raced' => endpoints[id].name = read.name /\ endpoints[id].config = read.config
         /\ UNCHANGED <<created, hubVars>>
<1> DEFINE row == [endpoints[id] EXCEPT !.name = name, !.config = config]
<1>1. endpoints[id] \in Endpoint
  BY DEF APITypeOK, Live
<1>2. row \in Endpoint /\ row.slug = endpoints[id].slug /\ row.name = name /\ row.config = config
  BY <1>1 DEF Endpoint
<1>3. endpoints' = [endpoints EXCEPT ![id] = row]
  BY DEF Write, APITypeOK
<1> HIDE DEF row
<1>4. OnlyRow(id) /\ endpoints'[id] = row
  BY <1>2, <1>3 DEF OnlyRow, APITypeOK
<1> QED BY <1>2, <1>4 DEF Write, APITypeOK

LEMMA RenameRow ==
  ASSUME APITypeOK, NEW id \in Id, RenameEndpoint(id)
  PROVE  /\ OnlyRow(id) /\ Live(id)
         /\ endpoints'[id] \in Endpoint
         /\ endpoints'[id].name = endpoints[id].name
         /\ endpoints'[id].config = endpoints[id].config
<1>1. PICK s \in Slug : endpoints' = [endpoints EXCEPT ![id].slug = s]
  BY DEF RenameEndpoint
<1>2. Live(id) /\ endpoints[id] \in Endpoint
  BY DEF APITypeOK, Live, RenameEndpoint
<1> DEFINE row == [endpoints[id] EXCEPT !.slug = s]
<1>3. row \in Endpoint /\ row.name = endpoints[id].name /\ row.config = endpoints[id].config
  BY <1>2 DEF Endpoint
<1>4. endpoints' = [endpoints EXCEPT ![id] = row]
  BY <1>1
<1> HIDE DEF row
<1> QED BY <1>2, <1>3, <1>4 DEF OnlyRow, APITypeOK

LEMMA InsertRow ==
  ASSUME APITypeOK, NEW c \in Caller, Insert(c), CallInv(c)
  PROVE  /\ OnlyRow(created')
         /\ endpoints'[created'] \in Endpoint
         /\ endpoints'[created'].name = call[c].body.name
         /\ endpoints'[created'].config = call[c].config
<1>1. /\ created' \in Id /\ Inserted(c) /\ call[c] \in CallState /\ call[c].at = "naming"
  BY InsertEffect
<1>2. PICK s \in Slug : endpoints' = [endpoints EXCEPT ![created'] =
                          [slug |-> s, name |-> call[c].body.name, config |-> call[c].config]]
  BY <1>1 DEF Inserted
<1>3. call[c].body.name \in Name /\ call[c].config \in Config
  BY <1>1, CallFields, BodyFields DEF CallInv, MakesConfig
<1> DEFINE row == [slug |-> s, name |-> call[c].body.name, config |-> call[c].config]
<1>4. row \in Endpoint /\ row.name = call[c].body.name /\ row.config = call[c].config
  BY <1>3 DEF Endpoint
<1>5. endpoints' = [endpoints EXCEPT ![created'] = row]
  BY <1>2
<1> HIDE DEF row
<1> QED BY <1>1, <1>4, <1>5 DEF OnlyRow, APITypeOK

LEMMA DeleteRowRow ==
  ASSUME APITypeOK, NEW id \in Id, endpoints' = [endpoints EXCEPT ![id] = NoEndpoint]
  PROVE  OnlyRow(id) /\ endpoints'[id] = NoEndpoint
BY DEF OnlyRow, APITypeOK

LEMMA SaveRow ==
  ASSUME APITypeOK, NEW c \in Caller, Save(c), CallInv(c)
  PROVE  /\ call[c].id \in Id /\ Live(call[c].id)
         /\ OnlyRow(call[c].id)
         /\ endpoints'[call[c].id] \in Endpoint
         /\ endpoints'[call[c].id].slug = endpoints[call[c].id].slug
         /\ endpoints'[call[c].id].name = NewName(c)
         /\ endpoints'[call[c].id].config = call[c].config
         /\ raced' \in SUBSET Id /\ raced \subseteq raced' /\ raced' \subseteq raced \cup {call[c].id}
         /\ call[c].id \notin raced' => /\ endpoints[call[c].id].name = call[c].read.name
                                        /\ endpoints[call[c].id].config = call[c].read.config
         /\ UNCHANGED <<created, hubVars>>
         /\ KeepsConfig(c)
<1>1. /\ call[c] \in CallState /\ call[c].at = "saving" /\ Live(call[c].id)
      /\ Write(call[c].id, call[c].read, NewName(c), call[c].config)
  BY SaveEffect
<1>2. KeepsConfig(c)
  BY <1>1, CallFields DEF CallInv, Progress
<1>3. call[c].id \in Id /\ call[c].read \in Endpoint /\ call[c].config \in Config
  BY <1>1, <1>2, CallFields DEF KeepsConfig
<1>4. NewName(c) \in Name
  BY <1>1, <1>3, CallFields, BodyFields, EndpointFields DEF NewName
<1> HIDE DEF Id
<1> QED BY <1>1, <1>2, <1>3, <1>4, WriteRow

\* A resealed config is the one that was listed, but for the key.
Resealed(config) == [config EXCEPT !.secret = Rewrap(@, Primary)]

LEMMA ResealedFacts ==
  ASSUME NEW config \in Config, Resealable(config)
  PROVE  /\ Resealed(config) \in Config
         /\ ~Under(Resealed(config), {Plain, Former})
         /\ InTheClear(Resealed(config)) \subseteq InTheClear(config)
         /\ SameSecret(Resealed(config), config)
         /\ \A sent \in ConfigSent \cup {Absent} : Holds(config, sent) => Holds(Resealed(config), sent)
<1>1. config # NoSignature /\ config.secret # NoSecret
  BY DEF Resealable
<1>2. config \in [resign : BOOLEAN, secret : Sealed \cup {NoSecret}, respelled : Secret \cup {NoSecret}] /\ config.secret \in Sealed
  BY <1>1 DEF Config
<1> DEFINE secret == Rewrap(config.secret, Primary)
           new == [config EXCEPT !.secret = secret]
<1>3. secret \in Sealed /\ secret.value = config.secret.value /\ secret.key = Primary
  BY <1>2, EndpointAssumption DEF Rewrap, Sealed
<1>4. new = Resealed(config)
  BY DEF Resealed
<1> HIDE DEF secret
<1>5. /\ new \in [resign : BOOLEAN, secret : Sealed \cup {NoSecret}, respelled : Secret \cup {NoSecret}]
      /\ new.resign = config.resign /\ new.secret = secret /\ new.respelled = config.respelled
  BY <1>2, <1>3
<1> HIDE DEF new
<1>6. new # NoSignature /\ secret # NoSecret /\ new \in Config
  BY <1>3, <1>5, MissingAssumption DEF Config
<1>7. ~Under(new, {Plain, Former})
  BY <1>3, <1>5, EndpointAssumption DEF Under
<1>8. SameSecret(new, config)
  BY <1>1, <1>3, <1>5, <1>6 DEF SameSecret
<1>9. \A sent \in ConfigSent \cup {Absent} : Holds(config, sent) => Holds(new, sent)
  BY <1>1, <1>3, <1>5, <1>6 DEF Holds
<1>10. InTheClear(new) \subseteq InTheClear(config)
  <2>1. secret.key # Plain
    BY <1>3, EndpointAssumption
  <2>2. \A s \in Secret : secret # [value |-> s, key |-> Plain]
    BY <2>1
  <2> QED BY <1>1, <1>5, <2>2 DEF InTheClear
<1> QED BY <1>4, <1>6, <1>7, <1>8, <1>9, <1>10

LEMMA ItemFields ==
  ASSUME APITypeOK, NEW item \in reseal.page
  PROVE  item.id \in Id /\ item.row \in Endpoint /\ item.row.name \in Name /\ item.row.config \in Config
BY EndpointFields DEF APITypeOK

LEMMA ResealRow ==
  ASSUME APITypeOK, NEW item \in reseal.page, ResealItem(item)
  PROVE  /\ OnlyRow(item.id) /\ Live(item.id)
         /\ endpoints'[item.id] \in Endpoint
         /\ endpoints'[item.id].slug = endpoints[item.id].slug
         /\ endpoints'[item.id].name = item.row.name
         /\ endpoints'[item.id].config = Resealed(item.row.config)
         /\ raced' \in SUBSET Id /\ raced \subseteq raced' /\ raced' \subseteq raced \cup {item.id}
         /\ item.id \notin raced' => /\ endpoints[item.id].name = item.row.name
                                     /\ endpoints[item.id].config = item.row.config
         /\ UNCHANGED <<created, hubVars, call, initially>>
         /\ Resealable(item.row.config)
         /\ reseal' = [reseal EXCEPT !.page = @ \ {item}]
<1>1. /\ Live(item.id) /\ Resealable(item.row.config) /\ UNCHANGED <<call, initially>>
      /\ reseal' = [reseal EXCEPT !.page = @ \ {item}]
      /\ Write(item.id, item.row, item.row.name, Resealed(item.row.config))
  BY DEF ResealItem, Resealed
<1>2. item.id \in Id /\ item.row.name \in Name /\ Resealed(item.row.config) \in Config
  BY <1>1, ItemFields, ResealedFacts
<1> HIDE DEF Id
<1> QED BY <1>1, <1>2, WriteRow

-----------------------------------------------------------------------------
\* CallsInv is preserved: what is known of a call depends on it alone.
LEMMA OtherCall ==
  ASSUME NEW d, call'[d] = call[d], CallInv(d)
  PROVE  CallInv(d)'
BY DEF CallInv, Progress, Outcome, MakesConfig, KeepsConfig

LEMMA SameKeepsConfig ==
  ASSUME NEW c, SameTask(call[c], call'[c]), SameBasis(call[c], call'[c]), KeepsConfig(c)
  PROVE  KeepsConfig(c)'
BY DEF SameTask, SameBasis, KeepsConfig

LEMMA ContinueInv ==
  ASSUME APITypeOK, NEW c \in Caller, CallInv(c), Continue(c)
  PROVE  /\ OnlyCall(c) /\ CallInv(c)' /\ initially' = initially
         /\ call[c] # Absent /\ call[c].at # "replied" /\ call[c].did \subseteq call'[c].did
         /\ ~Insert(c) /\ ~Save(c) => call'[c].did \cap {"create", "edit"} = {}
<1>1. CASE TryAgain(c)
  <2>1. call[c].at \in {"naming", "renaming"} /\ call[c] # Absent /\ initially' = initially /\ OnlyCall(c)
    BY <1>1, TryAgainEffect, CallFields
  <2>2. Progress(c) /\ call[c].did = {} /\ call'[c].did = {}
    BY <1>1, <2>1, TryAgainEffect DEF CallInv, Progress
  <2>3. CASE /\ call'[c].at = call[c].at /\ SameTask(call[c], call'[c]) /\ SameBasis(call[c], call'[c])
             /\ call'[c].tries < Attempts
    <3>1. Progress(c)'
      BY <2>1, <2>2, <2>3 DEF Progress, SameTask
    <3>2. call'[c].at = "naming" => MakesConfig(c)'
      BY <2>1, <2>3 DEF CallInv, MakesConfig, SameTask, SameBasis
    <3>3. call'[c].at = "renaming" => KeepsConfig(c)'
      BY <2>1, <2>2, <2>3, SameKeepsConfig DEF CallInv, Progress
    <3> QED BY <2>1, <2>2, <2>3, <3>1, <3>2, <3>3 DEF CallInv
  <2>4. CASE call'[c].at = "replied" /\ call'[c].status = "conflict" /\ call'[c].tries = Attempts
    BY <2>1, <2>2, <2>4 DEF CallInv, Progress, Outcome
  <2> QED BY <1>1, <2>1, <2>3, <2>4, TryAgainEffect
<1>2. CASE Insert(c)
  <2>1. /\ call[c].at = "naming" /\ call[c] # Absent /\ initially' = initially /\ OnlyCall(c)
        /\ call'[c].at = "replied" /\ call'[c].status = "ok" /\ call'[c].did = {"create"}
    BY <1>2, InsertEffect, CallFields
  <2>2. call[c].did = {} /\ call[c].id \notin Id
    BY <2>1 DEF CallInv, Progress, MakesConfig
  <2> QED BY <1>2, <2>1, <2>2 DEF CallInv, Progress, Outcome
<1>3. CASE Rename(c)
  <2>1. /\ call[c].at = "renaming" /\ call[c] # Absent /\ initially' = initially /\ OnlyCall(c)
        /\ call'[c].at = "removing" /\ call'[c].did = {"rename"}
        /\ SameTask(call[c], call'[c]) /\ SameBasis(call[c], call'[c])
    BY <1>3, RenameEffect, CallFields
  <2>2. call[c].did = {} /\ call[c].op = "patch" /\ KeepsConfig(c)
    BY <2>1 DEF CallInv, Progress
  <2>3. KeepsConfig(c)' /\ call'[c].op = "patch"
    BY <2>1, <2>2, SameKeepsConfig DEF SameTask
  <2> QED BY <2>1, <2>2, <2>3 DEF CallInv, Progress
<1>4. CASE DeleteRow(c)
  <2>1. /\ call[c].at = "deleting" /\ call[c] # Absent /\ initially' = initially /\ OnlyCall(c)
        /\ call'[c].at = "removing" /\ call'[c].did = {"delete"}
        /\ SameTask(call[c], call'[c])
    BY <1>4, DeleteRowEffect, CallFields
  <2>2. call[c].did = {} /\ call'[c].op = "delete"
    BY <2>1 DEF CallInv, Progress, SameTask
  <2> QED BY <2>1, <2>2 DEF CallInv, Progress
<1>5. CASE RemoveBuffer(c)
  <2>1. /\ call[c].at = "removing" /\ call[c] # Absent /\ initially' = initially /\ OnlyCall(c)
        /\ call'[c].did = call[c].did /\ SameTask(call[c], call'[c])
    BY <1>5, RemoveBufferEffect, CallFields
  <2>2. \/ call[c].op = "patch" /\ call[c].did \subseteq {"rename"}
        \/ call[c].op = "delete" /\ "delete" \in call[c].did /\ call[c].did \subseteq {"delete"}
    BY <2>1 DEF CallInv, Progress
  <2>3. CASE call[c].op = "delete" /\ call'[c].at = "replied" /\ call'[c].status = "ok"
    BY <2>1, <2>2, <2>3 DEF CallInv, Progress, Outcome
  <2>4. CASE call[c].op # "delete" /\ call'[c].at = "saving" /\ SameBasis(call[c], call'[c])
    <3>1. call[c].op = "patch" /\ call'[c].op = "patch" /\ KeepsConfig(c)
      BY <2>1, <2>2, <2>4 DEF CallInv, SameTask
    <3>2. KeepsConfig(c)'
      BY <2>1, <2>4, <3>1, SameKeepsConfig
    <3> QED BY <2>1, <2>2, <2>4, <3>1, <3>2 DEF CallInv, Progress
  <2> QED BY <1>5, <2>3, <2>4, RemoveBufferEffect
<1>6. CASE Save(c)
  <2>1. /\ call[c].at = "saving" /\ call[c] # Absent /\ initially' = initially /\ OnlyCall(c)
        /\ call'[c].at = "replied" /\ call'[c].status = "ok" /\ call'[c].did = call[c].did \cup {"edit"}
        /\ SameTask(call[c], call'[c])
    BY <1>6, SaveEffect, CallFields
  <2> QED BY <1>6, <2>1 DEF CallInv, Progress, Outcome
<1>7. CASE StoreFails(c)
  <2>1. /\ call[c].at \in {"naming", "renaming", "saving", "deleting"} /\ call[c] # Absent
        /\ initially' = initially /\ OnlyCall(c)
        /\ call'[c].at = "replied" /\ call'[c].status = "failed" /\ call'[c].did = call[c].did
    BY <1>7, StoreFailsEffect, CallFields
  <2>2. call[c].did \subseteq {"rename"}
    BY <2>1 DEF CallInv, Progress
  <2> QED BY <2>1, <2>2 DEF CallInv, Progress, Outcome
<1> QED BY <1>1, <1>2, <1>3, <1>4, <1>5, <1>6, <1>7 DEF Continue

\* A step of a caller, and what it leaves of the calls before it.
Moved(c) ==
  /\ OnlyCall(c)
  /\ CallInv(c)'
  /\ initially' = initially
  /\ ~At(c, "replied")
  /\ call[c] # Absent => call[c].did \subseteq call'[c].did
  /\ ~Insert(c) /\ ~Save(c) => call'[c].did \cap {"create", "edit"} = {}

LEMMA CallerMoves ==
  ASSUME APITypeOK, NEW c \in Caller, CallInv(c), Begin(c) \/ Continue(c)
  PROVE  Moved(c)
<1>1. CASE Begin(c)
  BY <1>1, BeginEffect DEF Began, Moved, At
<1>2. CASE Continue(c)
  BY <1>2, ContinueInv DEF Moved, At
<1> QED BY <1>1, <1>2

\* What happens to requests and in the hubs.
HubStep ==
  \/ \E q \in Request : Lookup(q) \/ Publish(q) \/ NotBuffered(q)
  \/ \E on \in Instance, slug \in Slug : SweepBuffer(on, slug)

LEMMA HubOnly ==
  ASSUME HubStep
  PROVE  UNCHANGED <<endpoints, created, call, reseal, raced, initially>>
BY DEF HubStep, Lookup, Publish, NotBuffered, SweepBuffer

LEMMA ResealCalls ==
  ASSUME ResealSecrets \/ HubStep
  PROVE  UNCHANGED <<call, initially>>
BY HubOnly DEF ResealSecrets, ListPage, SkipItem, ResealItem, NextPage, ResealFails

LEMMA CallsInvStep ==
  ASSUME APITypeOK, CallsInv, APINext
  PROVE  CallsInv'
<1>1. ASSUME NEW c \in Caller, Begin(c) \/ Continue(c) PROVE CallsInv'
  <2>1. Moved(c)
    BY <1>1, CallerMoves DEF CallsInv
  <2>2. \A d \in Caller \ {c} : CallInv(d)'
    BY <2>1, OtherCall DEF CallsInv, Moved, OnlyCall
  <2> QED BY <2>1, <2>2 DEF CallsInv, Moved
<1>2. ASSUME ResealSecrets \/ HubStep PROVE CallsInv'
  BY <1>2, ResealCalls, OtherCall DEF CallsInv
<1> QED BY <1>1, <1>2 DEF APINext, HubStep

-----------------------------------------------------------------------------
\* What the steps leave alone.
LEMMA HubTypes ==
  ASSUME APITypeOK, HubStep
  PROVE  /\ captures' \in [Request -> Buffered \cup {Absent, Done}]
         /\ buffers' \in SUBSET Buffered /\ orphans' \in SUBSET Buffered
<1>1. ASSUME NEW q \in Request, NEW b \in Buffered \cup {Done}, captures' = [captures EXCEPT ![q] = b]
      PROVE  captures' \in [Request -> Buffered \cup {Absent, Done}]
  BY <1>1 DEF APITypeOK
<1>2. ASSUME NEW q \in Request, Lookup(q) PROVE captures' \in [Request -> Buffered \cup {Absent, Done}]
  <2>1. PICK id \in Busy : /\ Live(id)
                          /\ captures' = [captures EXCEPT ![q] = [on |-> Home[q], slug |-> endpoints[id].slug, id |-> id]]
    BY <1>2 DEF Lookup
  <2>2. id \in Id /\ endpoints[id].slug \in Slug /\ Home[q] \in Instance
    BY <2>1, EndpointAssumption, EndpointFields DEF APITypeOK, Live
  <2>3. [on |-> Home[q], slug |-> endpoints[id].slug, id |-> id] \in Buffered
    BY <2>2 DEF Buffered
  <2> QED BY <1>1, <2>1, <2>3
<1> QED BY <1>1, <1>2 DEF HubStep, Lookup, Publish, NotBuffered, SweepBuffer, Forget, APITypeOK

LEMMA CallerTypes ==
  ASSUME APITypeOK, NEW c \in Caller, CallInv(c), Continue(c)
  PROVE  /\ endpoints' \in [Id -> Endpoint \cup {NoEndpoint}]
         /\ created' \in 0..MaxEndpoints /\ raced' \in SUBSET Id 
         /\ buffers' \in SUBSET Buffered /\ orphans' \in SUBSET Buffered /\ captures' = captures
         /\ raced \subseteq raced' /\ reseal' = reseal
<1> HIDE DEF Id
<1> USE DEF APITypeOK, hubVars
<1>1. CASE TryAgain(c)
  BY <1>1, TryAgainEffect
<1>2. CASE Insert(c)
  <2>1. created' \in 0..MaxEndpoints
    BY <1>2, InsertEffect, EndpointAssumption DEF Id
  <2> QED BY <1>2, <2>1, InsertEffect, InsertRow DEF OnlyRow
<1>3. CASE Rename(c)
  <2>1. call[c].id \in Id
    BY <1>3, RenameEffect, CallFields DEF CallInv, Progress, KeepsConfig, OnlyCall
  <2> QED BY <1>3, <2>1, RenameEffect, RenameRow DEF OnlyRow, TakeUrl
<1>4. CASE DeleteRow(c)
  BY <1>4, DeleteRowEffect DEF TakeUrl
<1>5. CASE RemoveBuffer(c)
  BY <1>5, RemoveBufferEffect DEF Forget
<1>6. CASE Save(c)
  BY <1>6, SaveRow, SaveEffect DEF OnlyRow
<1>7. CASE StoreFails(c)
  BY <1>7, StoreFailsEffect
<1> QED BY <1>1, <1>2, <1>3, <1>4, <1>5, <1>6, <1>7 DEF Continue

ResealType ==
  [at : {"listing", "sealing", "done", "aborted"}, offset : Nat, last : BOOLEAN,
   page : SUBSET [id : Id, row : Endpoint]]

\* The reseal's own steps.
LEMMA ListPageEffect ==
  ASSUME APITypeOK, ListPage
  PROVE  /\ reseal' \in ResealType /\ reseal.at = "listing" /\ reseal'.at = "sealing"
         /\ reseal'.offset = reseal.offset
         /\ reseal'.page = {[id |-> id, row |-> endpoints[id]] : id \in Listed}
         /\ reseal'.last = (Cardinality({id \in Id : Live(id)}) < reseal.offset + PageSize)
         /\ UNCHANGED <<endpoints, created, hubVars, call, raced, initially>>
<1>1. {[id |-> id, row |-> endpoints[id]] : id \in Listed} \in SUBSET [id : Id, row : Endpoint]
  BY DEF Listed, Live, APITypeOK
<1>2. (Cardinality({id \in Id : Live(id)}) < reseal.offset + PageSize) \in BOOLEAN
  OBVIOUS
<1>3. reseal \in ResealType
  BY DEF APITypeOK, ResealType
<1> DEFINE page == {[id |-> id, row |-> endpoints[id]] : id \in Listed}
           last == Cardinality({id \in Id : Live(id)}) < reseal.offset + PageSize
<1>4. /\ reseal.at = "listing" /\ reseal' = [reseal EXCEPT !.at = "sealing", !.page = page, !.last = last]
      /\ UNCHANGED <<endpoints, created, hubVars, call, raced, initially>>
  BY DEF ListPage
<1> HIDE DEF page, last
<1>5. page \in SUBSET [id : Id, row : Endpoint] /\ last \in BOOLEAN
  BY <1>1, <1>2 DEF page, last
<1>6. /\ reseal' \in ResealType /\ reseal'.at = "sealing" /\ reseal'.offset = reseal.offset
      /\ reseal'.page = page /\ reseal'.last = last
  BY <1>3, <1>4, <1>5 DEF ResealType
<1> QED BY <1>4, <1>6 DEF page, last

LEMMA PageShrinks ==
  ASSUME APITypeOK, NEW item \in reseal.page, reseal' = [reseal EXCEPT !.page = @ \ {item}]
  PROVE  /\ reseal' \in ResealType /\ reseal'.at = reseal.at
         /\ reseal'.offset = reseal.offset /\ reseal'.last = reseal.last
         /\ reseal'.page = reseal.page \ {item}
BY DEF APITypeOK, ResealType

LEMMA NextPageEffect ==
  ASSUME APITypeOK, NextPage
  PROVE  /\ reseal' \in ResealType /\ reseal.at = "sealing" /\ reseal.page = {} /\ reseal'.page = {}
         /\ \/ reseal.last /\ reseal'.at = "done"
            \/ ~reseal.last /\ reseal'.at = "listing" /\ reseal'.offset = reseal.offset + PageSize
         /\ UNCHANGED <<endpoints, created, hubVars, call, raced, initially>>
<1>1. reseal \in ResealType
  BY DEF APITypeOK, ResealType
<1>2. PageSize \in Nat /\ reseal.offset \in Nat /\ reseal.last \in BOOLEAN
  BY <1>1, EndpointAssumption DEF ResealType
<1>3. reseal.at = "sealing" /\ reseal.page = {} /\ UNCHANGED <<endpoints, created, hubVars, call, raced, initially>>
  BY DEF NextPage
<1>4. CASE reseal.last
  <2>1. reseal' = [reseal EXCEPT !.at = "done"]
    BY <1>4 DEF NextPage
  <2> QED BY <1>1, <1>3, <1>4, <2>1 DEF ResealType
<1>5. CASE ~reseal.last
  <2>1. reseal' = [reseal EXCEPT !.at = "listing", !.offset = reseal.offset + PageSize]
    BY <1>5 DEF NextPage
  <2>2. reseal.offset + PageSize \in Nat
    BY <1>2
  <2> QED BY <1>1, <1>3, <1>5, <2>1, <2>2 DEF ResealType
<1> QED BY <1>4, <1>5

LEMMA ResealFailsEffect ==
  ASSUME APITypeOK, ResealFails
  PROVE  /\ reseal' \in ResealType /\ reseal'.at = "aborted"
         /\ UNCHANGED <<endpoints, created, hubVars, call, raced, initially>>
<1>1. reseal \in ResealType
  BY DEF APITypeOK, ResealType
<1> QED BY <1>1 DEF ResealFails, ResealType

LEMMA SkipItemEffect ==
  ASSUME APITypeOK, NEW item \in reseal.page, SkipItem(item)
  PROVE  /\ reseal' = [reseal EXCEPT !.page = @ \ {item}]
         /\ ~Resealable(item.row.config)
         /\ UNCHANGED <<endpoints, created, hubVars, call, raced, initially>>
BY DEF SkipItem

LEMMA ResealTypes ==
  ASSUME APITypeOK, ResealSecrets
  PROVE  APITypeOK'
<1> HIDE DEF Id
<1>1. ASSUME reseal' \in ResealType, UNCHANGED <<endpoints, created, hubVars, call, raced, initially>>
      PROVE  APITypeOK'
  BY <1>1 DEF APITypeOK, ResealType, hubVars
<1>2. CASE ListPage
  BY <1>1, <1>2, ListPageEffect
<1>3. ASSUME NEW item \in reseal.page, SkipItem(item) PROVE APITypeOK'
  BY <1>1, <1>3, SkipItemEffect, PageShrinks
<1>4. ASSUME NEW item \in reseal.page, ResealItem(item) PROVE APITypeOK'
  <2>1. reseal' \in ResealType
    BY <1>4, ResealRow, PageShrinks
  <2>2. /\ endpoints' \in [Id -> Endpoint \cup {NoEndpoint}] /\ raced' \in SUBSET Id
        /\ UNCHANGED <<created, hubVars, call, initially>>
    BY <1>4, ResealRow DEF OnlyRow
  <2> QED BY <2>1, <2>2 DEF APITypeOK, ResealType, hubVars
<1>5. CASE NextPage
  BY <1>1, <1>5, NextPageEffect
<1>6. CASE ResealFails
  BY <1>1, <1>6, ResealFailsEffect
<1> QED BY <1>2, <1>3, <1>4, <1>5, <1>6 DEF ResealSecrets

LEMMA TypesStep ==
  ASSUME APITypeOK, CallsInv, APINext
  PROVE  APITypeOK'
<1> HIDE DEF Id
<1>1. ASSUME NEW c \in Caller, Begin(c) PROVE APITypeOK'
  BY <1>1, BeginEffect DEF Began, OnlyCall, APITypeOK, hubVars
<1>2. ASSUME NEW c \in Caller, Continue(c) PROVE APITypeOK'
  <2>1. /\ call' \in [Caller -> CallState \cup {Absent}] /\ initially' = initially
    BY <1>2, CallerMoves DEF CallsInv, Moved, OnlyCall
  <2>2. /\ endpoints' \in [Id -> Endpoint \cup {NoEndpoint}]
        /\ created' \in 0..MaxEndpoints /\ raced' \in SUBSET Id
        /\ buffers' \in SUBSET Buffered /\ orphans' \in SUBSET Buffered /\ captures' = captures
        /\ reseal' = reseal
    BY <1>2, CallerTypes DEF CallsInv
  <2> QED BY <2>1, <2>2 DEF APITypeOK
<1>3. CASE ResealSecrets
  BY <1>3, ResealTypes
<1>4. CASE HubStep
  BY <1>4, HubOnly, HubTypes DEF APITypeOK
<1> QED BY <1>1, <1>2, <1>3, <1>4 DEF APINext, HubStep

-----------------------------------------------------------------------------
\* What a step does to the endpoints, for the invariants about them: it leaves
\* them and the race history alone, or is one of the five writes.
Still == UNCHANGED <<endpoints, created, raced, initially>>

LEMMA CallerWrites ==
  ASSUME APITypeOK, NEW c \in Caller, CallInv(c), Begin(c) \/ Continue(c),
         ~Insert(c), ~Rename(c), ~DeleteRow(c), ~Save(c)
  PROVE  Still
BY BeginEffect, TryAgainEffect, RemoveBufferEffect, StoreFailsEffect DEF Began, Continue, Still

LEMMA ResealWrites ==
  ASSUME APITypeOK, ResealSecrets \/ HubStep, ~\E item \in reseal.page : ResealItem(item)
  PROVE  Still
BY HubOnly DEF ResealSecrets, ListPage, SkipItem, NextPage, ResealFails, Still

LEMMA RenameId ==
  ASSUME APITypeOK, NEW c \in Caller, CallInv(c), Rename(c)
  PROVE  call[c].id \in Id /\ Live(call[c].id) /\ OnlyRow(call[c].id)
         /\ endpoints'[call[c].id] \in Endpoint
         /\ endpoints'[call[c].id].name = endpoints[call[c].id].name
         /\ endpoints'[call[c].id].config = endpoints[call[c].id].config
         /\ UNCHANGED <<created, reseal, raced, initially>>
<1>1. call[c].id \in Id
  BY RenameEffect, CallFields DEF CallInv, Progress, KeepsConfig
<1> HIDE DEF Id
<1> QED BY <1>1, RenameEffect, RenameRow

LEMMA DeleteId ==
  ASSUME APITypeOK, NEW c \in Caller, DeleteRow(c)
  PROVE  /\ \A id \in Id : endpoints'[id] \in {endpoints[id], NoEndpoint}
         /\ UNCHANGED <<created, reseal, raced, initially>>
         /\ "delete" \in call'[c].did
BY DeleteRowEffect DEF APITypeOK

\* Ids are given in order.
CreatedInv == \A id \in Id : id > created => ~Live(id)

LEMMA CreatedStep ==
  ASSUME APITypeOK, CallsInv, CreatedInv, APINext
  PROVE  CreatedInv'
<1>1. CASE Still
  BY <1>1 DEF Still, CreatedInv, Live
<1>2. ASSUME NEW c \in Caller, Insert(c) PROVE CreatedInv'
  <2>1. OnlyRow(created') /\ created' = created + 1 /\ created \in Nat
    BY <1>2, InsertRow, InsertEffect DEF CallsInv, APITypeOK
  <2> QED BY <2>1 DEF OnlyRow, CreatedInv, Live
<1>3. ASSUME NEW c \in Caller, Rename(c) PROVE CreatedInv'
  BY <1>3, RenameId DEF CallsInv, OnlyRow, CreatedInv, Live
<1>4. ASSUME NEW c \in Caller, DeleteRow(c) PROVE CreatedInv'
  BY <1>4, DeleteId DEF CreatedInv, Live
<1>5. ASSUME NEW c \in Caller, Save(c) PROVE CreatedInv'
  BY <1>5, SaveRow DEF CallsInv, OnlyRow, CreatedInv, Live
<1>6. ASSUME NEW item \in reseal.page, ResealItem(item) PROVE CreatedInv'
  BY <1>6, ResealRow DEF OnlyRow, CreatedInv, Live
<1> QED BY <1>1, <1>2, <1>3, <1>4, <1>5, <1>6, CallerWrites, ResealWrites DEF APINext, HubStep, CallsInv

-----------------------------------------------------------------------------
\* What an endpoint may have in the clear grows.
Clear(config, id) == InTheClear(config) \subseteq Excuses(id)

\* ... and holds of the endpoints, and of all that is to be written to them.
ClearInv ==
  /\ ClearOnlyAsSent
  /\ \A item \in reseal.page : Clear(item.row.config, item.id)
  /\ \A c \in Caller : Patching(c) => Clear(call[c].read.config, call[c].id)

LEMMA ExcusesGrow ==
  ASSUME NEW c \in Caller, Moved(c), NEW id \in Id
  PROVE  Excuses(id) \subseteq Excuses(id)'
<1> SUFFICES ASSUME NEW s \in Excuses(id) PROVE s \in Excuses(id)'
  OBVIOUS
<1>1. CASE initially[id] # NoEndpoint /\ s \in InTheClear(initially[id].config)
  BY <1>1 DEF Excuses, Moved, InTheClear
<1>2. ASSUME NEW d \in Caller, Answered(d, id, {"create", "edit"}), s \in Respelled(call[d].body.config)
      PROVE  s \in Excuses(id)'
  <2>1. call'[d] = call[d]
    BY <1>2 DEF Moved, OnlyCall, Answered
  <2> QED BY <1>2, <2>1 DEF Excuses, Respelled, Answered, At
<1> QED BY <1>1, <1>2 DEF Excuses

LEMMA StillClear ==
  ASSUME NEW c \in Caller, Moved(c), NEW id \in Id, NEW config, Clear(config, id)
  PROVE  InTheClear(config) \subseteq Excuses(id)'
BY ExcusesGrow DEF Clear

LEMMA PatchGoesOn ==
  ASSUME APITypeOK, NEW c \in Caller, CallInv(c), Continue(c), Patching(c)'
  PROVE  Patching(c) /\ call'[c].id = call[c].id /\ call'[c].read = call[c].read
<1>1. call'[c].at # "replied" /\ call'[c].op = "patch" /\ call[c] # Absent
  BY ContinueInv DEF Patching
<1>2. CASE TryAgain(c)
  BY <1>1, <1>2, TryAgainEffect DEF Patching, SameTask, SameBasis, CallInv, Progress
<1>3. CASE Rename(c)
  BY <1>1, <1>3, RenameEffect DEF Patching, SameTask, SameBasis
<1>4. CASE RemoveBuffer(c)
  BY <1>1, <1>4, RemoveBufferEffect DEF Patching, SameTask, SameBasis
<1>5. ~Insert(c) /\ ~Save(c) /\ ~StoreFails(c)
  BY <1>1, InsertEffect, SaveEffect, StoreFailsEffect
<1>6. ~DeleteRow(c)
  BY <1>1, DeleteRowEffect DEF SameTask, CallInv, Progress
<1> QED BY <1>2, <1>3, <1>4, <1>5, <1>6 DEF Continue

\* A step of a caller leaves what was read clear, if it leaves the rows so.
LEMMA CallerClear ==
  ASSUME APITypeOK, CallsInv, ClearInv, NEW c \in Caller, Moved(c), Begin(c) \/ Continue(c), ClearOnlyAsSent'
  PROVE  ClearInv'
<1>1. reseal' = reseal
  BY BeginEffect, CallerTypes DEF Began, CallsInv
<1>2. ASSUME NEW item \in reseal'.page PROVE Clear(item.row.config, item.id)'
  <2>1. item \in reseal.page /\ item.id \in Id /\ Clear(item.row.config, item.id)
    BY <1>1, <1>2, ItemFields DEF ClearInv
  <2> HIDE DEF Id
  <2> QED BY <2>1, StillClear DEF Clear, InTheClear
<1>3. ASSUME NEW d \in Caller \ {c}, Patching(d)' PROVE Clear(call[d].read.config, call[d].id)'
  <2>1. call'[d] = call[d] /\ Patching(d)
    BY <1>3 DEF Moved, OnlyCall, Patching
  <2>2. call[d].id \in Id /\ Clear(call[d].read.config, call[d].id)
    BY <2>1 DEF ClearInv, CallsInv, CallInv, Patching, KeepsConfig
  <2> HIDE DEF Id
  <2> QED BY <2>1, <2>2, StillClear DEF Clear, InTheClear
<1>4. ASSUME Patching(c)' PROVE Clear(call[c].read.config, call[c].id)'
  <2>1. call'[c].id \in Id
    BY <1>4 DEF Moved, CallInv, Patching, KeepsConfig
  <2>2. CASE Begin(c)
    <3>1. Live(call'[c].id) /\ call'[c].read = endpoints[call'[c].id]
      BY <1>4, <2>2, BeginEffect DEF ReadsRow
    <3>2. Clear(endpoints[call'[c].id].config, call'[c].id)
      BY <2>1, <3>1 DEF ClearInv, ClearOnlyAsSent, Clear
    <3> HIDE DEF Id
    <3> QED BY <2>1, <3>1, <3>2, StillClear DEF Clear, InTheClear
  <2>3. CASE Continue(c)
    <3>1. Patching(c) /\ call'[c].id = call[c].id /\ call'[c].read = call[c].read
      BY <1>4, <2>3, PatchGoesOn DEF CallsInv
    <3>2. Clear(call[c].read.config, call[c].id)
      BY <3>1 DEF ClearInv
    <3> HIDE DEF Id
    <3> QED BY <2>1, <3>1, <3>2, StillClear DEF Clear, InTheClear
  <2> QED BY <2>2, <2>3
<1> QED BY <1>2, <1>3, <1>4 DEF ClearInv

RowClear(id) == Live(id) => Clear(endpoints[id].config, id)

LEMMA ClearByRow == ClearOnlyAsSent <=> \A id \in Id : RowClear(id)
BY DEF ClearOnlyAsSent, RowClear, Clear

LEMMA CallerClearRows ==
  ASSUME APITypeOK, CallsInv, ClearInv, NEW c \in Caller, Moved(c), Begin(c) \/ Continue(c)
  PROVE  ClearOnlyAsSent'
<1>1. \A id \in Id : RowClear(id)
  BY ClearByRow DEF ClearInv
<1>2. ASSUME NEW id \in Id, Live(id)' => Live(id) /\ endpoints'[id].config = endpoints[id].config
      PROVE  RowClear(id)'
  <2> HIDE DEF Id
  <2> QED BY <1>1, <1>2, StillClear DEF RowClear, Clear, InTheClear
<1>3. CASE Insert(c)
  <2>1. PICK new \in Id : new = created'
    BY <1>3, InsertEffect
  <2>2. /\ OnlyRow(new) /\ endpoints'[new].config = call[c].config
        /\ call[c].at = "naming" /\ call[c] # Absent
        /\ call'[c].id = new /\ call'[c].body = call[c].body /\ call'[c] # Absent
        /\ call'[c].at = "replied" /\ call'[c].did = {"create"}
    BY <1>3, <2>1, InsertRow, InsertEffect, CallFields DEF CallsInv, OnlyCall
  <2>3. InTheClear(call[c].config) \subseteq Respelled(call[c].body.config)
    BY <2>2 DEF CallsInv, CallInv, MakesConfig
  <2>4. Respelled(call[c].body.config) \subseteq Excuses(new)'
    BY <2>2 DEF Respelled, Excuses, Answered, At
  <2>5. RowClear(new)'
    BY <2>2, <2>3, <2>4 DEF RowClear, Clear, InTheClear
  <2>6. \A id \in Id \ {new} : RowClear(id)'
    BY <1>2, <2>2 DEF OnlyRow, Live
  <2> QED BY <2>5, <2>6 DEF ClearOnlyAsSent, RowClear, Clear
<1>4. CASE Save(c)
  <2>1. PICK saved \in Id : saved = call[c].id
    BY <1>4, SaveRow DEF CallsInv
  <2>2. OnlyRow(saved) /\ KeepsConfig(c) /\ endpoints'[saved].config = call[c].config
    BY <1>4, <2>1, SaveRow DEF CallsInv
  <2>3. Patching(c) /\ call[c] # Absent
    BY <1>4, SaveEffect, CallFields DEF CallsInv, CallInv, Progress, Patching
  <2>4. Respelled(call[c].body.config) \subseteq Excuses(saved)'
    <3>1. /\ call'[c] # Absent /\ call'[c].at = "replied" /\ "edit" \in call'[c].did
          /\ call'[c].id = saved /\ call'[c].body = call[c].body
      BY <1>4, <2>1, SaveEffect, CallFields DEF OnlyCall, SameTask
    <3> QED BY <3>1 DEF Respelled, Excuses, Answered, At
  <2> HIDE DEF Id
  <2>5. RowClear(saved)'
    <3>1. InTheClear(call[c].config) \subseteq InTheClear(call[c].read.config) \cup Respelled(call[c].body.config)
      BY <2>2 DEF KeepsConfig
    <3>2. InTheClear(call[c].read.config) \subseteq Excuses(saved)
      BY <2>1, <2>3 DEF ClearInv, Clear
    <3> QED BY <2>2, <2>4, <3>1, <3>2, ExcusesGrow DEF RowClear, Clear, InTheClear
  <2>6. \A id \in Id \ {saved} : RowClear(id)'
    BY <1>2, <2>2 DEF OnlyRow, Live
  <2> QED BY <2>5, <2>6 DEF ClearOnlyAsSent, RowClear, Clear
<1>5. CASE Rename(c)
  <2>1. /\ OnlyRow(call[c].id) /\ Live(call[c].id)
        /\ endpoints'[call[c].id].config = endpoints[call[c].id].config
    BY <1>5, RenameId DEF CallsInv
  <2>2. \A id \in Id : Live(id)' => Live(id) /\ endpoints'[id].config = endpoints[id].config
    BY <2>1 DEF OnlyRow, Live
  <2> QED BY <1>2, <2>2 DEF ClearOnlyAsSent, RowClear, Clear
<1>6. CASE DeleteRow(c)
  <2>1. \A id \in Id : endpoints'[id] \in {endpoints[id], NoEndpoint}
    BY <1>6, DeleteId
  <2>2. \A id \in Id : Live(id)' => Live(id) /\ endpoints'[id].config = endpoints[id].config
    BY <2>1 DEF Live
  <2> QED BY <1>2, <2>2 DEF ClearOnlyAsSent, RowClear, Clear
<1>7. CASE ~Insert(c) /\ ~Rename(c) /\ ~DeleteRow(c) /\ ~Save(c)
  <2>1. endpoints' = endpoints
    BY <1>7, CallerWrites DEF CallsInv, Still
  <2> QED BY <1>2, <2>1 DEF ClearOnlyAsSent, RowClear, Clear, Live
<1> QED BY <1>3, <1>4, <1>5, <1>6, <1>7

LEMMA ClearStep ==
  ASSUME APITypeOK, CallsInv, ClearInv, APINext
  PROVE  ClearInv'
<1>1. ASSUME NEW c \in Caller, Begin(c) \/ Continue(c) PROVE ClearInv'
  <2>1. Moved(c)
    BY <1>1, CallerMoves DEF CallsInv
  <2> QED BY <1>1, <2>1, CallerClearRows, CallerClear
<1>2. ASSUME UNCHANGED <<call, initially>>
      PROVE  /\ \A id : Excuses(id)' = Excuses(id)
             /\ \A c \in Caller : Patching(c)' => Clear(call[c].read.config, call[c].id)'
  <2>1. \A id : Excuses(id)' = Excuses(id)
    BY <1>2 DEF Excuses, InTheClear, Respelled, Answered, At
  <2> QED BY <1>2, <2>1 DEF ClearInv, Patching, Clear, InTheClear
<1>3. ASSUME UNCHANGED <<endpoints, call, initially>>,
             \A item \in reseal'.page : \/ item \in reseal.page
                                        \/ item.id \in Id /\ Live(item.id) /\ item.row = endpoints[item.id]
      PROVE  ClearInv'
  <2>1. ClearOnlyAsSent'
    BY <1>2, <1>3 DEF ClearInv, ClearOnlyAsSent, InTheClear, Live
  <2>2. ASSUME NEW item \in reseal'.page PROVE Clear(item.row.config, item.id)'
    <3>1. Clear(item.row.config, item.id)
      BY <1>3, <2>2 DEF ClearInv, ClearOnlyAsSent, Clear
    <3> QED BY <1>2, <1>3, <3>1 DEF Clear, InTheClear
  <2> QED BY <1>2, <1>3, <2>1, <2>2 DEF ClearInv
<1>4. CASE ListPage
  <2>1. /\ UNCHANGED <<endpoints, call, initially>>
        /\ reseal'.page = {[id |-> id, row |-> endpoints[id]] : id \in Listed}
    BY <1>4, ListPageEffect
  <2>2. \A id \in Listed : id \in Id /\ Live(id)
    BY DEF Listed
  <2> HIDE DEF Id
  <2> QED BY <1>3, <2>1, <2>2
<1>5. CASE NextPage \/ ResealFails
  <2>1. reseal'.page = {} /\ UNCHANGED <<endpoints, call, initially>>
    BY <1>5, NextPageEffect DEF ResealFails, APITypeOK
  <2> QED BY <1>3, <2>1
<1>6. ASSUME NEW item \in reseal.page, SkipItem(item) PROVE ClearInv'
  BY <1>3, <1>6, SkipItemEffect, PageShrinks
<1>7. CASE HubStep
  BY <1>3, <1>7, HubOnly
<1>8. ASSUME NEW item \in reseal.page, ResealItem(item) PROVE ClearInv'
  <2>1. /\ OnlyRow(item.id) /\ UNCHANGED <<call, initially>> /\ item.row.config \in Config
        /\ endpoints'[item.id].config = Resealed(item.row.config) /\ Resealable(item.row.config)
        /\ reseal'.page \subseteq reseal.page
    BY <1>8, ResealRow, ItemFields, PageShrinks
  <2>2. InTheClear(Resealed(item.row.config)) \subseteq InTheClear(item.row.config)
    BY <2>1, ResealedFacts
  <2>3. RowClear(item.id)'
    BY <1>2, <2>1, <2>2 DEF ClearInv, RowClear, Clear, InTheClear
  <2>4. ASSUME NEW id \in Id \ {item.id} PROVE RowClear(id)'
    <3>1. endpoints'[id] = endpoints[id] /\ RowClear(id)
      BY <2>1, ClearByRow DEF OnlyRow, ClearInv
    <3> QED BY <1>2, <2>1, <3>1 DEF RowClear, Clear, InTheClear, Live
  <2>5. ClearOnlyAsSent'
    BY <2>3, <2>4 DEF ClearOnlyAsSent, RowClear, Clear
  <2>6. \A other \in reseal'.page : Clear(other.row.config, other.id)'
    BY <1>2, <2>1 DEF ClearInv, Clear, InTheClear
  <2> QED BY <1>2, <2>1, <2>5, <2>6 DEF ClearInv
<1> QED BY <1>1, <1>4, <1>5, <1>6, <1>7, <1>8 DEF APINext, HubStep, ResealSecrets

-----------------------------------------------------------------------------
\* BuffersHaveOwner, of one entry.
LeftTo(b, c) ==
  /\ At(c, "removing")
  /\ Home[c] = b.on
  /\ call[c].id = b.id
  /\ call[c].read.slug = b.slug

Owned(b) == HasUrl(b) \/ \E c \in Caller : LeftTo(b, c)

LEMMA OwnedBuffers == BuffersHaveOwner <=> \A b \in buffers \ orphans : Owned(b)
BY DEF BuffersHaveOwner, Owned, LeftTo

\* A call that was not removing leaves to the others what they are left with.
LEMMA LeftToStays ==
  ASSUME NEW c \in Caller, Moved(c), ~At(c, "removing"), NEW b, NEW d \in Caller, LeftTo(b, d)
  PROVE  LeftTo(b, d)'
<1>1. d # c
  BY DEF LeftTo
<1> QED BY <1>1 DEF LeftTo, Moved, OnlyCall, At

\* Rows that keep their slugs keep their buffers.
LEMMA OwnedStays ==
  ASSUME NEW b \in Buffered,
         \A id \in Id : Live(id) => Live(id)' /\ endpoints'[id].slug = endpoints[id].slug,
         \A d \in Caller : LeftTo(b, d) => LeftTo(b, d)',
         Owned(b)
  PROVE  Owned(b)'
<1>1. b.id \in Id
  BY DEF Buffered
<1>2. CASE HasUrl(b)
  BY <1>1, <1>2 DEF Owned, HasUrl
<1>3. CASE \E d \in Caller : LeftTo(b, d)
  <2>1. \E d \in Caller : LeftTo(b, d)'
    BY <1>3
  <2> QED BY <2>1 DEF Owned
<1> QED BY <1>2, <1>3 DEF Owned

\* Of what is buffered under a URL that a call takes away, it is left with what
\* is not an orphan.
LEMMA TakenAway ==
  ASSUME APITypeOK, NEW c \in Caller, Moved(c), ~At(c, "removing"), TakeUrl(c),
         call'[c].at = "removing", call'[c].id = call[c].id, call'[c].read = call[c].read,
         \A other \in Id : other # call[c].id => endpoints'[other] = endpoints[other],
         BuffersHaveOwner
  PROVE  BuffersHaveOwner'
<1> SUFFICES ASSUME NEW b \in buffers', b \notin orphans' PROVE Owned(b)'
  BY DEF BuffersHaveOwner, Owned, LeftTo
<1>1. b \in buffers /\ b \notin orphans /\ b \in Buffered /\ b.id \in Id
  BY DEF TakeUrl, APITypeOK, Buffered
<1>2. Owned(b)
  BY <1>1, OwnedBuffers
<1>3. CASE \E d \in Caller : LeftTo(b, d)
  <2>1. \E d \in Caller : LeftTo(b, d)'
    BY <1>3, LeftToStays
  <2> QED BY <2>1 DEF Owned
<1>4. CASE HasUrl(b) /\ b.id # call[c].id
  BY <1>1, <1>4 DEF HasUrl, Live, Owned
<1>5. CASE HasUrl(b) /\ b.id = call[c].id
  <2>1. b.on = Home[c] /\ b.slug = call[c].read.slug
    BY <1>1, <1>5 DEF TakeUrl
  <2>2. LeftTo(b, c)'
    BY <1>5, <2>1, CallFields DEF LeftTo, At, Moved, OnlyCall
  <2> QED BY <2>2 DEF Owned
<1> QED BY <1>2, <1>3, <1>4, <1>5 DEF Owned

\* A slug forgotten by a hub takes along what its calls were left with there.
LEMMA ForgottenBuffers ==
  ASSUME NEW on, NEW slug, Forget(on, slug), NEW b \in buffers', b \notin orphans'
  PROVE  b \in buffers /\ b \notin orphans /\ (b.on # on \/ b.slug # slug)
BY DEF Forget

LEMMA BuffersStep ==
  ASSUME APITypeOK, CallsInv, CreatedInv, BuffersHaveOwner, APINext
  PROVE  BuffersHaveOwner'
<1> DEFINE Owners == \A b \in buffers' \ orphans' : Owned(b)'
<1>1. \A b \in buffers \ orphans : Owned(b) /\ b \in Buffered
  BY OwnedBuffers DEF APITypeOK
<1>2. ASSUME NEW c \in Caller, Begin(c) \/ TryAgain(c) \/ StoreFails(c) PROVE Owners
  <2>1. Moved(c) /\ ~At(c, "removing") /\ UNCHANGED <<endpoints, hubVars>>
    BY <1>2, CallerMoves, BeginEffect, TryAgainEffect, StoreFailsEffect DEF CallsInv, Continue, Began, At
  <2> QED BY <1>1, <2>1, LeftToStays, OwnedStays DEF Live, hubVars
<1>3. ASSUME NEW c \in Caller, Insert(c) PROVE Owners
  <2>1. Moved(c) /\ ~At(c, "removing") /\ UNCHANGED hubVars
    BY <1>3, CallerMoves, InsertEffect DEF CallsInv, Continue, At
  <2>2. OnlyRow(created') /\ created' > created
    BY <1>3, InsertRow, InsertEffect DEF CallsInv, APITypeOK
  <2>3. \A id \in Id : Live(id) => Live(id)' /\ endpoints'[id].slug = endpoints[id].slug
    BY <2>2 DEF OnlyRow, CreatedInv, Live
  <2> QED BY <1>1, <2>1, <2>3, LeftToStays, OwnedStays DEF hubVars
<1>4. ASSUME NEW c \in Caller, Rename(c) PROVE BuffersHaveOwner'
  <2>1. /\ Moved(c) /\ ~At(c, "removing") /\ TakeUrl(c) /\ call'[c].id = call[c].id
        /\ call'[c].at = "removing" /\ call'[c].read = call[c].read
    BY <1>4, CallerMoves, RenameEffect DEF CallsInv, Continue, At, SameBasis, SameTask
  <2>2. \A other \in Id : other # call[c].id => endpoints'[other] = endpoints[other]
    BY <1>4, RenameId DEF CallsInv, OnlyRow
  <2> HIDE DEF Id
  <2> QED BY <2>1, <2>2, TakenAway
<1>5. ASSUME NEW c \in Caller, DeleteRow(c) PROVE BuffersHaveOwner'
  <2>1. /\ Moved(c) /\ ~At(c, "removing") /\ TakeUrl(c) /\ call'[c].id = call[c].id
        /\ call'[c].at = "removing" /\ call'[c].read = call[c].read
    BY <1>5, CallerMoves, DeleteRowEffect DEF CallsInv, Continue, At, SameBasis, SameTask
  <2>2. \A other \in Id : other # call[c].id => endpoints'[other] = endpoints[other]
    BY <1>5, DeleteRowEffect DEF APITypeOK
  <2> HIDE DEF Id
  <2> QED BY <2>1, <2>2, TakenAway
<1>6. ASSUME NEW c \in Caller, RemoveBuffer(c) PROVE Owners
  <2>1. Moved(c) /\ At(c, "removing") /\ UNCHANGED endpoints /\ Forget(Home[c], call[c].read.slug)
    BY <1>6, CallerMoves, RemoveBufferEffect, CallFields DEF CallsInv, Continue, At
  <2>2. ASSUME NEW b \in buffers' \ orphans', NEW d \in Caller, LeftTo(b, d) PROVE LeftTo(b, d)'
    <3>1. d # c
      BY <2>1, <2>2, ForgottenBuffers DEF LeftTo
    <3> QED BY <2>1, <2>2, <3>1 DEF LeftTo, Moved, OnlyCall, At
  <2> QED BY <1>1, <2>1, <2>2, ForgottenBuffers, OwnedStays DEF Live
<1>7. ASSUME NEW c \in Caller, Save(c) PROVE Owners
  <2>1. Moved(c) /\ ~At(c, "removing")
    BY <1>7, CallerMoves, SaveEffect DEF CallsInv, Continue, At
  <2>2. /\ OnlyRow(call[c].id) /\ UNCHANGED hubVars /\ Live(call[c].id)
        /\ endpoints'[call[c].id] \in Endpoint
        /\ endpoints'[call[c].id].slug = endpoints[call[c].id].slug
    BY <1>7, SaveRow DEF CallsInv
  <2>3. \A id \in Id : Live(id) => Live(id)' /\ endpoints'[id].slug = endpoints[id].slug
    BY <2>2, EndpointFields DEF OnlyRow, Live
  <2> QED BY <1>1, <2>1, <2>2, <2>3, LeftToStays, OwnedStays DEF hubVars
<1>8. ASSUME NEW item \in reseal.page, ResealItem(item) PROVE Owners
  <2>1. /\ OnlyRow(item.id) /\ UNCHANGED <<hubVars, call>>
        /\ endpoints'[item.id] \in Endpoint
        /\ endpoints'[item.id].slug = endpoints[item.id].slug
    BY <1>8, ResealRow
  <2>2. \A id \in Id : Live(id) => Live(id)' /\ endpoints'[id].slug = endpoints[id].slug
    BY <2>1, EndpointFields DEF OnlyRow, Live
  <2>3. \A b : \A d \in Caller : LeftTo(b, d) => LeftTo(b, d)'
    BY <2>1 DEF LeftTo, At
  <2> QED BY <1>1, <2>1, <2>2, <2>3, OwnedStays DEF hubVars
<1>9. ASSUME UNCHANGED <<endpoints, call>>, NEW b \in buffers \ orphans PROVE Owned(b)'
  BY <1>1, <1>9 DEF Owned, HasUrl, Live, LeftTo, At
<1>10. ASSUME ListPage \/ NextPage \/ ResealFails \/ \E item \in reseal.page : SkipItem(item) PROVE Owners
  <2>1. UNCHANGED <<endpoints, hubVars, call>>
    BY <1>10 DEF ListPage, NextPage, ResealFails, SkipItem
  <2> QED BY <1>9, <2>1 DEF hubVars
<1>11. ASSUME NEW q \in Request, Lookup(q) \/ NotBuffered(q) PROVE Owners
  <2>1. UNCHANGED <<endpoints, buffers, orphans, call>>
    BY <1>11 DEF Lookup, NotBuffered
  <2> QED BY <1>9, <2>1
<1>12. ASSUME NEW q \in Request, Publish(q) PROVE Owners
  <2>1. /\ UNCHANGED <<endpoints, call>> /\ buffers' = buffers \cup {captures[q]} /\ orphans \subseteq orphans'
        /\ captures[q] \notin orphans' => HasUrl(captures[q])
    BY <1>12 DEF Publish
  <2>2. PICK b : b = captures[q]
    OBVIOUS
  <2>3. HasUrl(b) => Owned(b)'
    BY <2>1 DEF Owned, HasUrl, Live
  <2> QED BY <1>9, <2>1, <2>2, <2>3
<1>13. ASSUME NEW on \in Instance, NEW slug \in Slug, SweepBuffer(on, slug) PROVE Owners
  <2>1. UNCHANGED <<endpoints, call>> /\ Forget(on, slug)
    BY <1>13 DEF SweepBuffer
  <2> QED BY <1>9, <2>1, ForgottenBuffers
<1>14. Owners => BuffersHaveOwner'
  BY DEF BuffersHaveOwner, Owned, LeftTo
<1> QED BY <1>2, <1>3, <1>4, <1>5, <1>6, <1>7, <1>8, <1>10, <1>11, <1>12, <1>13, <1>14 DEF APINext, Continue, ResealSecrets

-----------------------------------------------------------------------------
\* AnsweredChangesStay, of one endpoint.
NameStays(id) ==
  IF NamedBy(id) = {} THEN endpoints[id].name = initially[id].name
                      ELSE \E c \in NamedBy(id) : endpoints[id].name = call[c].body.name

ConfigStays(id) ==
  IF ConfiguredBy(id) = {} THEN SameSecret(endpoints[id].config, initially[id].config)
                           ELSE \E c \in ConfiguredBy(id) : Holds(endpoints[id].config, call[c].body.config)

Stays(id) == id \notin raced /\ Live(id) => NameStays(id) /\ ConfigStays(id)

LEMMA StaysById == AnsweredChangesStay <=> \A id \in Id : Stays(id)
BY DEF AnsweredChangesStay, Stays, NameStays, ConfigStays

\* The calls that have changed the endpoint are the same, or one more.
SameNaming(id) == NamedBy(id)' = NamedBy(id) /\ \A c \in NamedBy(id) : call'[c].body = call[c].body

SameConfiguring(id) ==
  ConfiguredBy(id)' = ConfiguredBy(id) /\ \A c \in ConfiguredBy(id) : call'[c].body = call[c].body

LEMMA OtherAnswers ==
  ASSUME NEW d, call'[d] = call[d], NEW id, NEW what
  PROVE  Answered(d, id, what)' <=> Answered(d, id, what)
BY DEF Answered, At

LEMMA QuietCall ==
  ASSUME NEW c \in Caller, NEW id, Moved(c), call'[c].id # id \/ call'[c].did \cap {"create", "edit"} = {}
  PROVE  SameNaming(id) /\ SameConfiguring(id)
<1>1. /\ ~Answered(c, id, {"create", "edit"}) /\ ~Answered(c, id, {"create"}) /\ ~Answered(c, id, {"edit"})
      /\ ~Answered(c, id, {"create", "edit"})' /\ ~Answered(c, id, {"create"})' /\ ~Answered(c, id, {"edit"})'
  BY DEF Moved, Answered
<1>2. \A d \in Caller \ {c} : call'[d] = call[d]
  BY DEF Moved, OnlyCall
<1>3. SameNaming(id)
  BY <1>1, <1>2, OtherAnswers DEF SameNaming, NamedBy
<1>4. SameConfiguring(id)
  BY <1>1, <1>2, OtherAnswers DEF SameConfiguring, ConfiguredBy
<1> QED BY <1>3, <1>4

LEMMA SameNameStays ==
  ASSUME NEW id, SameNaming(id), endpoints'[id].name = endpoints[id].name, initially' = initially, NameStays(id)
  PROVE  NameStays(id)'
BY DEF SameNaming, NameStays

LEMMA SameConfigStays ==
  ASSUME NEW id, SameConfiguring(id), endpoints'[id].config = endpoints[id].config, initially' = initially,
         ConfigStays(id)
  PROVE  ConfigStays(id)'
BY DEF SameConfiguring, ConfigStays

\* A row with the name and config it had, and the same changes.
LEMMA SameRowStays ==
  ASSUME NEW id, SameNaming(id), SameConfiguring(id), initially' = initially,
         Live(id)' => Live(id) /\ endpoints'[id].name = endpoints[id].name
                      /\ endpoints'[id].config = endpoints[id].config,
         raced \subseteq raced', Stays(id)
  PROVE  Stays(id)'
<1> SUFFICES ASSUME id \notin raced', Live(id)' PROVE NameStays(id)' /\ ConfigStays(id)'
  BY DEF Stays
<1>1. NameStays(id) /\ ConfigStays(id)
  BY DEF Stays
<1> QED BY <1>1, SameNameStays, SameConfigStays

LEMMA SameSecretTransitive ==
  ASSUME NEW a, NEW b, NEW z, SameSecret(a, b), SameSecret(b, z)
  PROVE  SameSecret(a, z)
BY DEF SameSecret

LEMMA InsertStays ==
  ASSUME APITypeOK, NEW c \in Caller, CallInv(c), NEW id \in Id, Stays(id), Insert(c)
  PROVE  Stays(id)'
<1>1. /\ Moved(c) /\ OnlyRow(created') /\ call'[c].id = created' /\ call'[c].body = call[c].body
      /\ call'[c].at = "replied" /\ call'[c].did = {"create"} /\ call'[c] # Absent
      /\ UNCHANGED <<raced, initially>> /\ call[c].at = "naming" /\ call[c] # Absent
  BY CallerMoves, InsertRow, InsertEffect, CallFields DEF Continue, OnlyCall
<1>2. CASE id # created'
  <2>1. SameNaming(id) /\ SameConfiguring(id)
    BY <1>1, <1>2, QuietCall
  <2>2. endpoints'[id] = endpoints[id]
    BY <1>1, <1>2 DEF OnlyRow
  <2> QED BY <1>1, <2>1, <2>2, SameRowStays DEF Live
<1>3. CASE id = created'
  <2>1. MakesConfig(c)
    BY <1>1 DEF CallInv
  <2>2. Answered(c, id, {"create", "edit"})' /\ Answered(c, id, {"create"})'
    BY <1>1, <1>3 DEF Answered, At
  <2>3. endpoints'[id].name = call'[c].body.name /\ Holds(endpoints'[id].config, call'[c].body.config)
    BY <1>1, <1>3, <2>1, InsertRow DEF MakesConfig
  <2>4. c \in NamedBy(id)' /\ c \in ConfiguredBy(id)'
    BY <1>1, <2>1, <2>2 DEF MakesConfig, NamedBy, ConfiguredBy
  <2>5. NameStays(id)'
    BY <2>3, <2>4 DEF NameStays
  <2>6. ConfigStays(id)'
    BY <2>3, <2>4 DEF ConfigStays
  <2> QED BY <2>5, <2>6 DEF Stays
<1> QED BY <1>2, <1>3

LEMMA SaveStays ==
  ASSUME APITypeOK, NEW c \in Caller, CallInv(c), NEW id \in Id, Stays(id), Save(c)
  PROVE  Stays(id)'
<1>1. /\ Moved(c) /\ SameTask(call[c], call'[c]) /\ call'[c].at = "replied"
      /\ call'[c].did = call[c].did \cup {"edit"} /\ call'[c] # Absent /\ initially' = initially
      /\ call[c].at = "saving" /\ call[c] # Absent /\ call'[c].id = call[c].id /\ call'[c].body = call[c].body
  BY CallerMoves, SaveEffect, CallFields DEF Continue, OnlyCall, SameTask
<1>2. /\ OnlyRow(call[c].id) /\ KeepsConfig(c) /\ raced \subseteq raced' /\ Live(call[c].id)
      /\ endpoints'[call[c].id].name = NewName(c)
      /\ endpoints'[call[c].id].config = call[c].config
      /\ call[c].id \notin raced' => /\ endpoints[call[c].id].name = call[c].read.name
                                     /\ endpoints[call[c].id].config = call[c].read.config
  BY SaveRow
<1>3. CASE id # call[c].id
  <2>1. SameNaming(id) /\ SameConfiguring(id)
    BY <1>1, <1>3, QuietCall
  <2>2. endpoints'[id] = endpoints[id]
    BY <1>2, <1>3 DEF OnlyRow
  <2> QED BY <1>1, <1>2, <2>1, <2>2, SameRowStays DEF Live
<1>4. CASE id = call[c].id
  <2> SUFFICES ASSUME id \notin raced' PROVE NameStays(id)' /\ ConfigStays(id)'
    BY DEF Stays
  <2>1. NameStays(id) /\ ConfigStays(id)
    BY <1>2, <1>4 DEF Stays
  <2>2. /\ endpoints[id].name = call[c].read.name /\ endpoints[id].config = call[c].read.config
        /\ endpoints'[id].name = NewName(c) /\ endpoints'[id].config = call[c].config
    BY <1>2, <1>4
  <2>3. /\ Answered(c, id, {"create", "edit"})' /\ Answered(c, id, {"edit"})' /\ ~Answered(c, id, {"create"})'
        /\ ~Answered(c, id, {"create", "edit"}) /\ ~Answered(c, id, {"create"}) /\ ~Answered(c, id, {"edit"})
    <3>1. call[c].did \subseteq {"rename"}
      BY <1>1 DEF CallInv, Progress
    <3> QED BY <1>1, <1>4, <3>1 DEF Answered, At
  <2>4. \A d \in Caller \ {c} : call'[d] = call[d]
    BY <1>1 DEF Moved, OnlyCall
  <2>5. NameStays(id)'
    <3>1. CASE call[c].body.name = Absent
      <4>1. SameNaming(id)
        BY <1>1, <2>3, <2>4, <3>1, OtherAnswers DEF SameNaming, NamedBy
      <4> QED BY <1>1, <2>1, <2>2, <3>1, <4>1, SameNameStays DEF NewName
    <3>2. CASE call[c].body.name # Absent
      <4>1. c \in NamedBy(id)' /\ endpoints'[id].name = call'[c].body.name
        BY <1>1, <2>2, <2>3, <3>2 DEF NamedBy, NewName
      <4> QED BY <4>1 DEF NameStays
    <3> QED BY <3>1, <3>2
  <2>6. ConfigStays(id)'
    <3>1. CASE call[c].body.config = Absent
      <4>1. SameConfiguring(id)
        BY <1>1, <2>3, <2>4, <3>1, OtherAnswers DEF SameConfiguring, ConfiguredBy
      <4> QED BY <1>1, <1>2, <2>1, <2>2, <3>1, <4>1, SameConfigStays DEF KeepsConfig
    <3>2. CASE call[c].body.config # Absent
      <4>1. c \in ConfiguredBy(id)' /\ Holds(endpoints'[id].config, call'[c].body.config)
        BY <1>1, <1>2, <2>2, <2>3, <3>2 DEF ConfiguredBy, KeepsConfig
      <4> QED BY <4>1 DEF ConfigStays
    <3> QED BY <3>1, <3>2
  <2> QED BY <2>5, <2>6
<1> QED BY <1>3, <1>4

LEMMA ResealStays ==
  ASSUME APITypeOK, NEW item \in reseal.page, NEW id \in Id, Stays(id), ResealItem(item)
  PROVE  Stays(id)'
<1>1. /\ OnlyRow(item.id) /\ UNCHANGED <<call, initially>> /\ raced \subseteq raced' /\ Live(item.id)
      /\ endpoints'[item.id].name = item.row.name
      /\ endpoints'[item.id].config = Resealed(item.row.config)
      /\ item.id \notin raced' => /\ endpoints[item.id].name = item.row.name
                                  /\ endpoints[item.id].config = item.row.config
      /\ Resealable(item.row.config) /\ item.row.config \in Config
  BY ResealRow, ItemFields
<1>2. SameNaming(id) /\ SameConfiguring(id)
  BY <1>1 DEF SameNaming, SameConfiguring, NamedBy, ConfiguredBy, Answered, At
<1>3. CASE id # item.id
  <2>1. endpoints'[id] = endpoints[id]
    BY <1>1, <1>3 DEF OnlyRow
  <2> QED BY <1>1, <1>2, <2>1, SameRowStays DEF Live
<1>4. CASE id = item.id
  <2> SUFFICES ASSUME id \notin raced' PROVE NameStays(id)' /\ ConfigStays(id)'
    BY DEF Stays
  <2>1. NameStays(id) /\ ConfigStays(id)
    BY <1>1, <1>4 DEF Stays
  <2>2. endpoints'[id].name = endpoints[id].name /\ endpoints'[id].config = Resealed(endpoints[id].config)
    BY <1>1, <1>4
  <2>3. NameStays(id)'
    BY <1>1, <1>2, <2>1, <2>2, SameNameStays
  <2>4. /\ SameSecret(endpoints'[id].config, endpoints[id].config)
        /\ \A sent \in ConfigSent \cup {Absent} : Holds(endpoints[id].config, sent) => Holds(endpoints'[id].config, sent)
    BY <1>1, <1>4, <2>2, ResealedFacts
  <2>5. CASE ConfiguredBy(id) = {}
    <3>1. SameSecret(endpoints[id].config, initially[id].config) /\ ConfiguredBy(id)' = {}
      BY <1>2, <2>1, <2>5 DEF ConfigStays, SameConfiguring
    <3>2. SameSecret(endpoints'[id].config, initially'[id].config)
      BY <1>1, <2>4, <3>1, SameSecretTransitive
    <3>3. ConfigStays(id)'
      BY <3>1, <3>2 DEF ConfigStays
    <3> QED BY <2>3, <3>3
  <2>6. CASE ConfiguredBy(id) # {}
    <3>1. PICK c \in ConfiguredBy(id) : Holds(endpoints[id].config, call[c].body.config)
      BY <2>1, <2>6 DEF ConfigStays
    <3>2. c \in Caller /\ call[c] # Absent
      BY DEF ConfiguredBy, Answered, At
    <3>3. call[c].body.config \in ConfigSent \cup {Absent}
      BY <3>2, CallFields, BodyFields DEF APITypeOK
    <3>4. Holds(endpoints'[id].config, call'[c].body.config) /\ c \in ConfiguredBy(id)'
      BY <1>1, <1>2, <2>4, <3>1, <3>3 DEF SameConfiguring
    <3>5. ConfigStays(id)'
      BY <3>4 DEF ConfigStays
    <3> QED BY <2>3, <3>5
  <2> QED BY <2>5, <2>6
<1> QED BY <1>3, <1>4

LEMMA StaysStep ==
  ASSUME APITypeOK, CallsInv, AnsweredChangesStay, APINext
  PROVE  AnsweredChangesStay'
<1>1. \A id \in Id : Stays(id)
  BY StaysById
<1>2. ASSUME NEW c \in Caller, Begin(c) \/ Continue(c), ~Insert(c), ~Save(c), NEW id \in Id PROVE Stays(id)'
  <2>1. Moved(c) /\ call'[c].did \cap {"create", "edit"} = {}
    BY <1>2, CallerMoves DEF CallsInv, Moved
  <2>2. SameNaming(id) /\ SameConfiguring(id) /\ initially' = initially
    BY <2>1, QuietCall DEF Moved
  <2>3. CASE Rename(c)
    <3>1. /\ raced' = raced /\ OnlyRow(call[c].id) /\ Live(call[c].id)
          /\ endpoints'[call[c].id].name = endpoints[call[c].id].name
          /\ endpoints'[call[c].id].config = endpoints[call[c].id].config
      BY <2>3, RenameId DEF CallsInv
    <3>2. Live(id)' => Live(id) /\ endpoints'[id].name = endpoints[id].name
                       /\ endpoints'[id].config = endpoints[id].config
      BY <3>1 DEF OnlyRow, Live
    <3> QED BY <1>1, <2>2, <3>1, <3>2, SameRowStays
  <2>4. CASE DeleteRow(c)
    <3>1. raced' = raced /\ endpoints'[id] \in {endpoints[id], NoEndpoint}
      BY <2>4, DeleteId
    <3> QED BY <1>1, <2>2, <3>1, SameRowStays DEF Live
  <2>5. CASE ~Rename(c) /\ ~DeleteRow(c)
    <3>1. Still
      BY <1>2, <2>5, CallerWrites DEF CallsInv
    <3> QED BY <1>1, <2>2, <3>1, SameRowStays DEF Still, Live
  <2> QED BY <2>3, <2>4, <2>5
<1>3. ASSUME ResealSecrets \/ HubStep, ~\E item \in reseal.page : ResealItem(item),
             NEW id \in Id
      PROVE  Stays(id)'
  <2>1. Still /\ UNCHANGED <<call, initially>>
    BY <1>3, ResealCalls, ResealWrites
  <2>2. SameNaming(id) /\ SameConfiguring(id)
    BY <2>1 DEF SameNaming, SameConfiguring, NamedBy, ConfiguredBy, Answered, At
  <2> QED BY <1>1, <2>1, <2>2, SameRowStays DEF Still, Live
<1>4. \A id \in Id : Stays(id)'
  <2> TAKE id \in Id
  <2>1. Stays(id)
    BY <1>1
  <2>2. ASSUME NEW c \in Caller, Begin(c) \/ Continue(c) PROVE Stays(id)'
    BY <1>2, <2>1, <2>2, InsertStays, SaveStays DEF CallsInv
  <2>3. ASSUME ResealSecrets \/ HubStep PROVE Stays(id)'
    BY <1>3, <2>1, <2>3, ResealStays
  <2> QED BY <2>2, <2>3 DEF APINext, HubStep
<1> QED BY <1>4 DEF AnsweredChangesStay, Stays, NameStays, ConfigStays

-----------------------------------------------------------------------------
\* The second half of SecretsAtRest.  A secret that waits for the reseal is ...
Excused(id) ==
  \E c \in Caller : \/ Home[c] \in Outdated /\ Answered(c, id, {"create", "edit"})
                    \/ call[c] # Absent /\ "delete" \in call[c].did

Waiting(id) == id \notin raced /\ SecretUnder(id, {Plain, Former}) /\ ~Excused(id)

\* ... in its page or further down the list.
OnPage(id) == \E item \in reseal.page : item.id = id /\ Under(item.row.config, {Plain, Former})

Rank(id) == Cardinality(Newer(id))

Ahead(id) ==
  /\ reseal.at # "done"
  /\ reseal.at = "listing" => Rank(id) >= reseal.offset
  /\ reseal.at = "sealing" => OnPage(id) \/ (~reseal.last /\ Rank(id) >= reseal.offset + PageSize)

ResealInv == \A id \in Id : Waiting(id) => Ahead(id)

LEMMA Ranks ==
  \A id \in Id : /\ IsFiniteSet(Newer(id)) /\ Rank(id) \in Nat
                 /\ IsFiniteSet({other \in Id : Live(other)})
                 /\ Rank(id) <= Cardinality({other \in Id : Live(other)})
                 /\ Cardinality({other \in Id : Live(other)}) \in Nat
<1> TAKE id \in Id
<1>1. IsFiniteSet(Id)
  BY FS_Interval, EndpointAssumption
<1>2. {other \in Id : Live(other)} \subseteq Id /\ Newer(id) \subseteq {other \in Id : Live(other)}
  BY DEF Newer
<1>3. IsFiniteSet({other \in Id : Live(other)})
  BY <1>1, <1>2, FS_Subset
<1> HIDE DEF Id
<1> QED BY <1>2, <1>3, FS_Subset, FS_CardinalityType DEF Rank

LEMMA RanksGrow ==
  ASSUME NEW id \in Id, Newer(id) \subseteq Newer(id)'
  PROVE  Rank(id) \in Nat /\ Rank(id)' \in Nat /\ Rank(id) <= Rank(id)'
<1>1. IsFiniteSet(Id)
  BY FS_Interval, EndpointAssumption
<1>2. Newer(id)' \subseteq Id
  BY DEF Newer
<1>3. IsFiniteSet(Newer(id)')
  BY <1>1, <1>2, FS_Subset
<1> QED BY <1>3, FS_Subset, FS_CardinalityType DEF Rank

\* As long as the reseal does nothing and no endpoint goes, it has the same
\* secrets before it.
LEMMA StaysAhead ==
  ASSUME APITypeOK, NEW id \in Id, reseal' = reseal, \A other \in Id : Live(other) => Live(other)', Ahead(id)
  PROVE  Ahead(id)'
<1>1. Newer(id) \subseteq Newer(id)'
  BY DEF Newer
<1>2. Rank(id) \in Nat /\ Rank(id)' \in Nat /\ Rank(id) <= Rank(id)' /\ reseal.offset \in Nat /\ PageSize \in Nat
  <2>1. reseal.offset \in Nat /\ PageSize \in Nat
    BY EndpointAssumption DEF APITypeOK
  <2> QED BY <1>1, <2>1, RanksGrow
<1>3. OnPage(id)' <=> OnPage(id)
  BY DEF OnPage
<1> HIDE DEF Id
<1> QED BY <1>2, <1>3 DEF Ahead

LEMMA ExcusedStays ==
  ASSUME NEW c \in Caller, Moved(c), NEW id, Excused(id)
  PROVE  Excused(id)'
<1>1. PICK d \in Caller : \/ Home[d] \in Outdated /\ Answered(d, id, {"create", "edit"})
                          \/ call[d] # Absent /\ "delete" \in call[d].did
  BY DEF Excused
<1>2. CASE d = c
  <2>1. call[c] # Absent /\ "delete" \in call[c].did
    BY <1>1, <1>2 DEF Moved, Answered
  <2>2. call'[c] # Absent /\ "delete" \in call'[c].did
    BY <2>1, CallFields DEF Moved, OnlyCall
  <2> QED BY <2>2 DEF Excused
<1>3. CASE d # c
  BY <1>1, <1>3 DEF Excused, Moved, OnlyCall, Answered, At
<1> QED BY <1>2, <1>3

LEMMA CallerAhead ==
  ASSUME APITypeOK, CallsInv, CreatedInv, ResealInv, NEW c \in Caller, Begin(c) \/ Continue(c)
  PROVE  ResealInv'
<1>1. Moved(c) /\ CallInv(c)
  BY CallerMoves DEF CallsInv
<1>2. reseal' = reseal
  BY BeginEffect, CallerTypes DEF Began, CallsInv
<1>3. ASSUME NEW id \in Id, Waiting(id)',
             raced \subseteq raced', SecretUnder(id, {Plain, Former}), \A other \in Id : Live(other) => Live(other)'
      PROVE  Ahead(id)'
  <2>1. ~Excused(id) /\ id \notin raced
    BY <1>1, <1>3, ExcusedStays DEF Waiting
  <2>2. Ahead(id)
    BY <1>3, <2>1 DEF Waiting, ResealInv
  <2> HIDE DEF Id
  <2> QED BY <1>2, <1>3, <2>2, StaysAhead
<1> SUFFICES ASSUME NEW id \in Id, Waiting(id)' PROVE Ahead(id)'
  BY DEF ResealInv
<1>4. id \notin raced' /\ SecretUnder(id, {Plain, Former})' /\ ~Excused(id)'
  BY DEF Waiting
<1>5. CASE Insert(c)
  <2>1. /\ OnlyRow(created') /\ endpoints'[created'].config = call[c].config /\ raced' = raced
        /\ endpoints'[created'] \in Endpoint
        /\ call[c].at = "naming" /\ call[c] # Absent /\ call'[c].id = created' /\ call'[c].at = "replied"
        /\ call'[c].did = {"create"} /\ call'[c] # Absent
    BY <1>1, <1>5, InsertRow, InsertEffect, CallFields DEF OnlyCall
  <2>2. id # created'
    <3>1. CASE Home[c] \in Outdated
      <4>1. id = created' => Answered(c, id, {"create", "edit"})'
        BY <2>1 DEF Answered, At
      <4> QED BY <1>4, <3>1, <4>1 DEF Excused
    <3>2. CASE Home[c] \notin Outdated
      <4>1. ~Under(endpoints'[created'].config, {Plain, Former})
        BY <1>1, <2>1, <3>2 DEF CallInv, MakesConfig
      <4> QED BY <1>4, <4>1 DEF SecretUnder
    <3> QED BY <3>1, <3>2
  <2>3. SecretUnder(id, {Plain, Former})
    BY <1>4, <2>1, <2>2 DEF OnlyRow, SecretUnder, Live
  <2>4. \A other \in Id : Live(other) => Live(other)'
    BY <2>1, EndpointFields DEF OnlyRow, Live
  <2> QED BY <1>3, <2>1, <2>3, <2>4
<1>6. CASE Rename(c)
  <2>1. /\ OnlyRow(call[c].id) /\ Live(call[c].id) /\ raced' = raced
        /\ endpoints'[call[c].id] \in Endpoint
        /\ endpoints'[call[c].id].config = endpoints[call[c].id].config
    BY <1>1, <1>6, RenameId
  <2>2. SecretUnder(id, {Plain, Former})
    BY <1>4, <2>1 DEF OnlyRow, SecretUnder, Live
  <2>3. \A other \in Id : Live(other) => Live(other)'
    BY <2>1, EndpointFields DEF OnlyRow, Live
  <2> QED BY <1>3, <2>1, <2>2, <2>3
<1>7. CASE DeleteRow(c)
  <2>1. "delete" \in call'[c].did /\ call'[c] # Absent
    BY <1>1, <1>7, DeleteId, CallFields DEF Moved, OnlyCall
  <2> QED BY <1>4, <2>1 DEF Excused
<1>8. CASE Save(c)
  <2>1. /\ OnlyRow(call[c].id) /\ KeepsConfig(c) /\ raced \subseteq raced' /\ Live(call[c].id)
        /\ endpoints'[call[c].id] \in Endpoint
        /\ endpoints'[call[c].id].config = call[c].config
        /\ call[c].id \notin raced' => endpoints[call[c].id].config = call[c].read.config
    BY <1>1, <1>8, SaveRow
  <2>2. call'[c].id = call[c].id /\ call'[c].at = "replied" /\ "edit" \in call'[c].did /\ call'[c] # Absent
    BY <1>8, SaveEffect, CallFields DEF OnlyCall, SameTask
  <2>3. SecretUnder(id, {Plain, Former})
    <3>1. CASE id # call[c].id
      BY <1>4, <2>1, <3>1 DEF OnlyRow, SecretUnder, Live
    <3>2. CASE id = call[c].id
      <4>1. Home[c] \notin Outdated
        <5>1. Answered(c, id, {"create", "edit"})'
          BY <2>2, <3>2 DEF Answered, At
        <5> QED BY <1>4, <5>1 DEF Excused
      <4>2. Under(call[c].config, {Plain, Former})
        BY <1>4, <2>1, <3>2 DEF SecretUnder
      <4> QED BY <1>4, <2>1, <3>2, <4>1, <4>2 DEF KeepsConfig, SecretUnder
    <3> QED BY <3>1, <3>2
  <2>4. \A other \in Id : Live(other) => Live(other)'
    BY <2>1, EndpointFields DEF OnlyRow, Live
  <2> QED BY <1>3, <2>1, <2>3, <2>4
<1>9. CASE ~Insert(c) /\ ~Rename(c) /\ ~DeleteRow(c) /\ ~Save(c)
  <2>1. UNCHANGED <<endpoints, raced>>
    BY <1>1, <1>9, CallerWrites DEF Still
  <2> QED BY <1>3, <1>4, <2>1 DEF SecretUnder, Live
<1> QED BY <1>5, <1>6, <1>7, <1>8, <1>9

LEMMA SameWaiting ==
  ASSUME UNCHANGED <<endpoints, raced, call>>, NEW id
  PROVE  (Waiting(id)' <=> Waiting(id)) /\ Newer(id)' = Newer(id)
BY DEF Waiting, SecretUnder, Excused, Answered, At, Live, Newer

LEMMA ListPageAhead ==
  ASSUME APITypeOK, ResealInv, ListPage
  PROVE  ResealInv'
<1>1. /\ reseal.at = "listing" /\ reseal'.at = "sealing" /\ reseal'.offset = reseal.offset
      /\ reseal'.page = {[id |-> id, row |-> endpoints[id]] : id \in Listed}
      /\ reseal'.last = (Cardinality({id \in Id : Live(id)}) < reseal.offset + PageSize)
      /\ UNCHANGED <<endpoints, raced, call>>
  BY ListPageEffect
<1> SUFFICES ASSUME NEW id \in Id, Waiting(id)' PROVE Ahead(id)'
  BY DEF ResealInv
<1>2. Waiting(id) /\ Newer(id)' = Newer(id) /\ Rank(id)' = Rank(id)
  BY <1>1, SameWaiting DEF Rank
<1>3. Rank(id) >= reseal.offset /\ Live(id) /\ Under(endpoints[id].config, {Plain, Former})
  BY <1>1, <1>2 DEF ResealInv, Ahead, Waiting, SecretUnder
<1>4. reseal.offset \in Nat /\ PageSize \in Nat /\ Rank(id) \in Nat
  BY Ranks, EndpointAssumption DEF APITypeOK
<1>5. CASE Rank(id) < reseal.offset + PageSize
  <2>1. id \in Listed
    BY <1>3, <1>4, <1>5 DEF Listed, Rank
  <2> DEFINE item == [id |-> id, row |-> endpoints[id]]
  <2>2. item \in reseal'.page /\ item.id = id /\ item.row = endpoints[id]
    BY <1>1, <2>1
  <2> HIDE DEF item
  <2>3. OnPage(id)'
    BY <1>3, <2>2 DEF OnPage
  <2> QED BY <1>1, <2>3 DEF Ahead
<1>6. CASE Rank(id) >= reseal.offset + PageSize
  <2> DEFINE living == Cardinality({other \in Id : Live(other)})
  <2>1. ~reseal'.last
    <3>1. Rank(id) <= living /\ living \in Nat
      BY Ranks
    <3>2. reseal'.last = (living < reseal.offset + PageSize)
      BY <1>1
    <3> HIDE DEF living
    <3>3. ~(living < reseal.offset + PageSize)
      BY <1>4, <1>6, <3>1
    <3> QED BY <3>2, <3>3
  <2> QED BY <1>1, <1>2, <1>6, <2>1 DEF Ahead
<1> QED BY <1>4, <1>5, <1>6

\* A page without an item that could be left out: the secret is resealed, or
\* was already under the primary key.
LEMMA PageAhead ==
  ASSUME APITypeOK, ResealInv, NEW item \in reseal.page, SkipItem(item) \/ ResealItem(item)
  PROVE  ResealInv'
<1>1. /\ reseal'.at = reseal.at /\ reseal'.offset = reseal.offset /\ reseal'.last = reseal.last
      /\ reseal'.page = reseal.page \ {item} /\ call' = call /\ raced \subseteq raced'
  BY SkipItemEffect, ResealRow, PageShrinks
<1> SUFFICES ASSUME NEW id \in Id, Waiting(id)' PROVE Ahead(id)'
  BY DEF ResealInv
<1>2. Waiting(id) /\ Newer(id)' = Newer(id)
  <2>1. CASE SkipItem(item)
    BY <2>1, SkipItemEffect, SameWaiting
  <2>2. CASE ResealItem(item)
    <3>1. /\ OnlyRow(item.id) /\ Live(item.id) /\ endpoints'[item.id] \in Endpoint
          /\ endpoints'[item.id].config = Resealed(item.row.config)
          /\ Resealable(item.row.config) /\ item.row.config \in Config
      BY <2>2, ResealRow, ItemFields
    <3>2. id # item.id
      BY <3>1, ResealedFacts DEF Waiting, SecretUnder
    <3>3. Excused(id)' <=> Excused(id)
      BY <1>1 DEF Excused, Answered, At
    <3>4. SecretUnder(id, {Plain, Former}) /\ id \notin raced
      BY <1>1, <3>1, <3>2 DEF Waiting, SecretUnder, OnlyRow, Live
    <3>5. \A other \in Id : Live(other)' <=> Live(other)
      BY <3>1, EndpointFields DEF OnlyRow, Live
    <3> QED BY <3>3, <3>4, <3>5 DEF Waiting, Newer
  <2> QED BY <2>1, <2>2
<1>3. Ahead(id) /\ Rank(id)' = Rank(id)
  BY <1>2 DEF ResealInv, Rank
<1>4. OnPage(id) => OnPage(id)'
  <2> SUFFICES ASSUME NEW other \in reseal.page, other.id = id, Under(other.row.config, {Plain, Former})
               PROVE  OnPage(id)'
    BY DEF OnPage
  <2>1. CASE other # item
    BY <1>1, <2>1 DEF OnPage
  <2>2. CASE other = item
    <3>1. Resealable(item.row.config)
      BY <2>2, EndpointAssumption DEF Under, Resealable, Openable
    <3>2. ResealItem(item)
      BY <3>1, SkipItemEffect
    <3>3. ~Under(endpoints'[id].config, {Plain, Former})
      BY <2>2, <3>2, ResealRow, ResealedFacts, ItemFields
    <3> QED BY <3>3 DEF Waiting, SecretUnder
  <2> QED BY <2>1, <2>2
<1> QED BY <1>1, <1>3, <1>4 DEF Ahead

LEMMA NextPageAhead ==
  ASSUME APITypeOK, ResealInv, NextPage
  PROVE  ResealInv'
<1>1. /\ reseal.at = "sealing" /\ reseal.page = {}
      /\ \/ reseal.last /\ reseal'.at = "done"
         \/ ~reseal.last /\ reseal'.at = "listing" /\ reseal'.offset = reseal.offset + PageSize
      /\ UNCHANGED <<endpoints, raced, call>>
  BY NextPageEffect
<1> SUFFICES ASSUME NEW id \in Id, Waiting(id)' PROVE Ahead(id)'
  BY DEF ResealInv
<1>2. Waiting(id) /\ Rank(id)' = Rank(id)
  BY <1>1, SameWaiting DEF Rank
<1>3. ~reseal.last /\ Rank(id) >= reseal.offset + PageSize
  BY <1>1, <1>2 DEF ResealInv, Ahead, OnPage
<1> QED BY <1>1, <1>2, <1>3 DEF Ahead

LEMMA ResealStep ==
  ASSUME APITypeOK, CallsInv, CreatedInv, ResealInv, APINext
  PROVE  ResealInv'
<1>1. CASE ResealFails
  BY <1>1, ResealFailsEffect DEF ResealInv, Ahead
<1>2. CASE HubStep
  <2>1. UNCHANGED <<endpoints, raced, call, reseal>>
    BY <1>2, HubOnly
  <2>2. \A other \in Id : (Waiting(other)' => Waiting(other)) /\ Newer(other)' = Newer(other)
    BY <2>1, SameWaiting
  <2>3. \A other \in Id : Ahead(other) => Ahead(other)'
    BY <2>1, <2>2 DEF Ahead, Rank, OnPage
  <2> QED BY <2>2, <2>3 DEF ResealInv
<1> QED BY <1>1, <1>2, CallerAhead, ListPageAhead, PageAhead, NextPageAhead DEF APINext, HubStep, ResealSecrets

-----------------------------------------------------------------------------
APIInv ==
  /\ APITypeOK
  /\ CallsInv
  /\ CreatedInv
  /\ ClearInv
  /\ BuffersHaveOwner
  /\ AnsweredChangesStay
  /\ ResealInv

LEMMA StoredSecretType ==
  ASSUME NEW key \in {Plain, Former, Forgotten, NoKey}
  PROVE  StoredSecret(key) \in Config
<1>1. (CHOOSE s \in Secret : TRUE) \in Secret
  BY EndpointAssumption
<1> DEFINE value == CHOOSE s \in Secret : TRUE
<1> HIDE DEF value
<1>2. CASE key = NoKey
  BY <1>2 DEF StoredSecret, Config
<1>3. CASE key # NoKey
  <2>1. StoredSecret(key) = [resign |-> TRUE, secret |-> [value |-> value, key |-> key], respelled |-> NoSecret]
    BY <1>3 DEF StoredSecret, value
  <2>2. [value |-> value, key |-> key] \in Sealed
    BY <1>1, <1>3 DEF Sealed, value
  <2> QED BY <2>1, <2>2 DEF Config
<1> QED BY <1>2, <1>3

LEMMA InitialTypes ==
  ASSUME APIInit
  PROVE  APITypeOK /\ CreatedInv
<1>1. PICK slugs \in [DOMAIN StoredKeys -> Slug] :
        endpoints = [id \in Id |->
          IF id \notin DOMAIN StoredKeys THEN NoEndpoint
          ELSE [slug |-> slugs[id], name |-> CHOOSE n \in Name : TRUE, config |-> StoredSecret(StoredKeys[id])]]
  BY DEF APIInit
<1>2. (CHOOSE n \in Name : TRUE) \in Name
  BY EndpointAssumption
<1>3. \A id \in DOMAIN StoredKeys : StoredKeys[id] \in {Plain, Former, Forgotten, NoKey}
  BY EndpointAssumption
<1> DEFINE row(id) == [slug |-> slugs[id], name |-> CHOOSE n \in Name : TRUE, config |-> StoredSecret(StoredKeys[id])]
<1>4. \A id \in DOMAIN StoredKeys : row(id) \in Endpoint
  BY <1>2, <1>3, StoredSecretType DEF Endpoint
<1> HIDE DEF row
<1>5. endpoints = [id \in Id |-> IF id \notin DOMAIN StoredKeys THEN NoEndpoint ELSE row(id)]
  BY <1>1 DEF row
<1>6. endpoints \in [Id -> Endpoint \cup {NoEndpoint}]
  BY <1>4, <1>5
<1>7. created \in 0..MaxEndpoints /\ DOMAIN StoredKeys = 1..created /\ created \in Nat
  <2>1. StoredKeys \in Seq({Plain, Former, Forgotten, NoKey}) /\ Len(StoredKeys) <= MaxEndpoints
    BY EndpointAssumption
  <2>2. created = Len(StoredKeys)
    BY DEF APIInit
  <2> QED BY <2>1, <2>2, EndpointAssumption
<1>8. CreatedInv
  BY <1>5, <1>7 DEF CreatedInv, Live
<1>9. /\ call \in [Caller -> CallState \cup {Absent}] /\ raced \in SUBSET Id
      /\ captures \in [Request -> Buffered \cup {Absent, Done}]
      /\ buffers \in SUBSET Buffered /\ orphans \in SUBSET Buffered
  BY DEF APIInit
<1>10. reseal \in ResealType /\ initially = endpoints
  BY DEF APIInit, ResealType
<1> QED BY <1>6, <1>7, <1>8, <1>9, <1>10 DEF APITypeOK, ResealType

LEMMA Initially ==
  ASSUME APIInit
  PROVE  APIInv
<1>1. APITypeOK /\ CreatedInv
  BY InitialTypes
<1>2. /\ call = [c \in Caller |-> Absent] /\ initially = endpoints /\ buffers = {}
      /\ reseal = [at |-> "listing", offset |-> 0, last |-> FALSE, page |-> {}]
  BY DEF APIInit
<1>3. \A c \in Caller : call[c] = Absent
  BY <1>2
<1>4. CallsInv /\ BuffersHaveOwner
  BY <1>2, <1>3 DEF CallsInv, CallInv, BuffersHaveOwner
<1>5. ClearInv
  <2>1. ClearOnlyAsSent
    BY <1>2 DEF ClearOnlyAsSent, Excuses, InTheClear, Live
  <2> QED BY <1>2, <1>3, <2>1 DEF ClearInv, Patching
<1>6. AnsweredChangesStay
  BY <1>2, <1>3 DEF AnsweredChangesStay, NamedBy, ConfiguredBy, Answered, At, SameSecret
<1>7. ResealInv
  <2>1. reseal.at = "listing" /\ reseal.offset = 0
    BY <1>2
  <2>2. \A id \in Id : Rank(id) >= 0
    <3>1. \A id \in Id : Rank(id) \in Nat
      BY Ranks
    <3> HIDE DEF Id
    <3> QED BY <3>1
  <2> QED BY <2>1, <2>2 DEF ResealInv, Ahead
<1> QED BY <1>1, <1>4, <1>5, <1>6, <1>7 DEF APIInv

LEMMA InvStep ==
  ASSUME APIInv, [APINext]_apiVars
  PROVE  APIInv'
<1>1. CASE APINext
  BY <1>1, TypesStep, CallsInvStep, CreatedStep, ClearStep, BuffersStep, StaysStep, ResealStep DEF APIInv
<1>2. CASE UNCHANGED apiVars
  <2>1. APITypeOK' /\ CreatedInv' /\ BuffersHaveOwner'
    BY <1>2 DEF apiVars, hubVars, APIInv, APITypeOK, CreatedInv, BuffersHaveOwner, HasUrl, Live, At
  <2>2. CallsInv'
    BY <1>2, OtherCall DEF apiVars, APIInv, CallsInv
  <2>3. AnsweredChangesStay'
    BY <1>2 DEF apiVars, APIInv, AnsweredChangesStay, NamedBy, ConfiguredBy, Answered, At, Live
  <2>4. ResealInv'
    <3>1. \A id \in Id : (Waiting(id)' => Waiting(id)) /\ Newer(id)' = Newer(id) /\ reseal' = reseal
      BY <1>2, SameWaiting DEF apiVars
    <3>2. \A id \in Id : Ahead(id) => Ahead(id)'
      BY <3>1 DEF Ahead, Rank, OnPage
    <3> QED BY <3>1, <3>2 DEF ResealInv, APIInv
  <2>5. ClearInv'
    BY <1>2 DEF apiVars, APIInv, ClearInv, ClearOnlyAsSent, Clear, Excuses, InTheClear, Respelled, Answered, At, Patching, Live
  <2> QED BY <2>1, <2>2, <2>3, <2>4, <2>5 DEF APIInv
<1> QED BY <1>1, <1>2

LEMMA Invariance == APISpec => []APIInv
BY Initially, InvStep, PTL DEF APISpec

-----------------------------------------------------------------------------
\* Every variable keeps its type.  That a PATCH that leaves the name out never
\* stores an endpoint without one rests on what the handler read.
THEOREM EndpointTypeCorrect == APISpec => []APITypeOK
BY Invariance, PTL DEF APIInv

\* Nothing but a rename is kept of a call that was answered with an error, and
\* only after slugAttempts taken slugs is there a conflict.
THEOREM ErrorsKeepNoEdit == APISpec => []ErrorsLeaveNoEdit
<1>1. APIInv => ErrorsLeaveNoEdit
  BY DEF APIInv, CallsInv, CallInv, Progress, Outcome, ErrorsLeaveNoEdit, At
<1> QED BY <1>1, Invariance, PTL

\* What a ring buffer holds is of an endpoint that has its slug, or a handler is
\* left to remove it, or it is one of the orphans: the handler that takes a URL
\* away makes one only of what is under another slug or at another hub than its
\* own, a capture handler only of what lost its URL since the lookup.
THEOREM BuffersAreOwned == APISpec => []BuffersHaveOwner
BY Invariance, PTL DEF APIInv

\* Of an endpoint no write raced over, the name and the secret are those of a
\* call that changed them, or as at the start.
THEOREM ChangesStay == APISpec => []AnsweredChangesStay
BY Invariance, PTL DEF APIInv

\* A secret is unencrypted only if a client sent it so, under another spelling of
\* its key, in a call that made or changed the endpoint, or as it was at the
\* start; and when the reseal has ended every secret it could see and open is under the primary key, with
\* the three exceptions that SecretsAtRest names: nothing else keeps the former
\* key in use.
THEOREM FormerKeyUnused == APISpec => []SecretsAtRest
<1>1. APIInv => SecretsAtRest
  BY DEF APIInv, ClearInv, SecretsAtRest, ResealInv, Ahead, Waiting, Excused
<1> QED BY <1>1, Invariance, PTL
=============================================================================
