----------------------------- MODULE EndpointAPI -----------------------------
(***************************************************************************)
(* Creating, changing and deleting endpoints over the API                  *)
(* (internal/handler/api.go) by callers that overlap, on server instances  *)
(* that share a database, while one of them, at its start, brings the      *)
(* stored signature secrets under the primary key (ResealSecrets in        *)
(* internal/handler/secrets.go).                                           *)
(*                                                                         *)
(* A handler is its steps between two calls into the store or the hub.     *)
(* PATCH reads the endpoint, works out every column from what it read and  *)
(* what it was sent, and writes them all; so does the reseal.  raced is a  *)
(* history variable: the endpoints over which such a write went although   *)
(* they had changed since the read.                                        *)
(*                                                                         *)
(* Every instance has a hub of its own, with ring buffers by slug.  A      *)
(* handler that takes a URL away makes its own instance's hub forget the   *)
(* slug.  The capture handler reads the slug with the endpoint and         *)
(* publishes under it later, after store calls and scripts.  orphans is a  *)
(* history variable: what is buffered that no handler will remove.         *)
(*                                                                         *)
(* Of an endpoint's config this is the signature object, since the rest is *)
(* stored as sent.  A secret is its value and the key its envelope names,  *)
(* Plain for one that was stored before there was encryption.  The code    *)
(* that encrypts knows the keys "signature" and "secret" as spelled; the   *)
(* one that reads a config also takes them in another case.  So there is a *)
(* secret that seal and reseal leave alone, respelled, and an object they  *)
(* do not see.                                                             *)
(***************************************************************************)
EXTENDS Integers, Sequences, FiniteSets, Functions

CONSTANTS
  Caller,        \* API calls, one each
  MaxEndpoints,  \* bound on the endpoints ever created
  Slug, Name, Secret,
  Primary,       \* the primary key under the current settings
  Former,        \* the one under the settings before, NoKey if there was none
  Forgotten,     \* a key no instance has any more
  Instance,      \* the servers
  Home,          \* the instance that serves a call or a request
  Outdated,      \* instances that still have the former settings
  Attempts,      \* slugAttempts
  PageSize,      \* the reseal's page
  StoredKeys,    \* of each endpoint at the start, the key its secret is under
  Sent,          \* bound on the bodies that are sent
  Request,       \* requests to endpoints in browser mode, one each
  Busy,          \* bound on the endpoints that get them
  NoKey, Plain, NoSecret, Kept, Cleared, NoSignature, Absent, Done, Refused, NoEndpoint

ASSUME EndpointAssumption ==
  /\ MaxEndpoints \in Nat
  /\ Attempts \in Nat \ {0}
  /\ PageSize \in Nat \ {0}
  /\ Name # {}
  /\ Secret # {}
  /\ Plain # NoKey
  /\ Primary \notin {NoKey, Plain}
  /\ Former \notin {Primary, Plain}
  /\ Forgotten # NoKey
  /\ Home \in [Caller \cup Request -> Instance]
  /\ Outdated \subseteq Instance
  /\ StoredKeys \in Seq({Plain, Former, Forgotten, NoKey})
  /\ Len(StoredKeys) <= MaxEndpoints
  /\ Busy \subseteq 1..MaxEndpoints

Id == 1..MaxEndpoints

VARIABLES
  endpoints,   \* id -> its row, or NoEndpoint; ids are in order of creation
  created,     \* how many were ever created
  captures,    \* request -> what its handler looked up, until it is Done
  buffers,     \* what the ring buffers hold
  orphans,
  call,        \* caller -> its call
  reseal,      \* the reseal of the starting instance
  raced,
  initially    \* history: endpoints at the start

hubVars == <<captures, buffers, orphans>>

apiVars == <<endpoints, created, hubVars, call, reseal, raced, initially>>

Sealed == [value : Secret, key : {Primary, Former, Forgotten, Plain} \ {NoKey}]
Config ==
  {NoSignature} \cup [resign : BOOLEAN, secret : Sealed \cup {NoSecret}, respelled : Secret \cup {NoSecret}]
Endpoint == [slug : Slug, name : Name, config : Config]

\* A request of an endpoint, under the URL it came to, at the hub of an instance.
Buffered == [on : Instance, slug : Slug, id : Id]

\* What a client sends: a secret, none (Kept), or an empty one (Cleared), and one
\* under another spelling of its key; exact: with "signature" spelled as such.
ConfigSent ==
  {NoSignature} \cup [exact : BOOLEAN, resign : BOOLEAN,
                     secret : Secret \cup {Kept, Cleared}, respelled : Secret \cup {NoSecret}]
Body == [name : Name \cup {Absent}, rename : BOOLEAN, config : ConfigSent \cup {Absent}]

ASSUME SentAssumption == Sent \subseteq Body

\* What stands for a missing value is not one.
ASSUME MissingAssumption ==
  /\ NoEndpoint \notin Endpoint
  /\ {Absent, Done} \cap Buffered = {}
  /\ Absent # Done
  /\ NoSecret \notin Sealed \cup Secret
  /\ NoSignature \notin [resign : BOOLEAN, secret : Sealed \cup {NoSecret}, respelled : Secret \cup {NoSecret}]
  /\ {NoSignature, Absent} \cap [exact : BOOLEAN, resign : BOOLEAN, secret : Secret \cup {Kept, Cleared},
                                 respelled : Secret \cup {NoSecret}] = {}
  /\ NoSignature # Absent
  /\ Refused \notin Config \cup Sealed
  /\ {Kept, Cleared} \cap Secret = {}
  /\ Kept # Cleared

Status == {"pending", "ok", "refused", "notFound", "conflict", "failed"}

CallState ==
  [op : {"create", "patch", "delete"}, id : Id \cup {0}, body : Body,
   at : {"naming", "renaming", "removing", "saving", "deleting", "replied"},
   read : Endpoint \cup {NoEndpoint},        \* the row as the handler read it
   config : Config,                          \* what it is going to store
   tries : 0..Attempts, did : SUBSET {"create", "rename", "edit", "delete"}, status : Status]

ASSUME CallAssumption == Absent \notin CallState

APITypeOK ==
  /\ endpoints \in [Id -> Endpoint \cup {NoEndpoint}]
  /\ created \in 0..MaxEndpoints
  /\ captures \in [Request -> Buffered \cup {Absent, Done}]
  /\ buffers \in SUBSET Buffered
  /\ orphans \in SUBSET Buffered
  /\ call \in [Caller -> CallState \cup {Absent}]
  /\ reseal \in [at : {"listing", "sealing", "done", "aborted"}, offset : Nat, last : BOOLEAN,
                 page : SUBSET [id : Id, row : Endpoint]]    \* those still to be looked at
  /\ raced \in SUBSET Id
  /\ initially \in [Id -> Endpoint \cup {NoEndpoint}]

\* The endpoints there are at the start, of several ages: without a secret, with
\* one from before there was encryption, or under one of the keys since.
StoredSecret(key) ==
  IF key = NoKey THEN NoSignature
  ELSE [resign |-> TRUE, secret |-> [value |-> CHOOSE s \in Secret : TRUE, key |-> key], respelled |-> NoSecret]

APIInit ==
  /\ \E slugs \in [DOMAIN StoredKeys -> Slug] :
       /\ IsInjective(slugs)
       /\ endpoints = [id \in Id |->
            IF id \notin DOMAIN StoredKeys THEN NoEndpoint
            ELSE [slug |-> slugs[id], name |-> CHOOSE n \in Name : TRUE, config |-> StoredSecret(StoredKeys[id])]]
  /\ created = Len(StoredKeys)
  /\ captures = [r \in Request |-> Absent]
  /\ buffers = {}
  /\ orphans = {}
  /\ call = [c \in Caller |-> Absent]
  /\ reseal = [at |-> "listing", offset |-> 0, last |-> FALSE, page |-> {}]
  /\ raced = {}
  /\ initially = endpoints

Live(id) == endpoints[id] # NoEndpoint

Taken(slug, id) == \E other \in Id \ {id} : Live(other) /\ endpoints[other].slug = slug

Key(c) == IF Home[c] \in Outdated THEN Former ELSE Primary

\* An envelope names the key its data key is wrapped with; Rewrap changes that
\* and nothing else, and an instance can open those whose key it has.
EncryptString(secret, key) == [value |-> secret, key |-> key]

Rewrap(sealed, key) == [sealed EXCEPT !.key = key]

Openable(sealed) == sealed.key \in {Primary, Former}

\* encrypt a secret from the API: refused without a key.
store(secret, key) == IF key = NoKey THEN Refused ELSE EncryptString(secret, key)

\* The secret that ParseEndpointConfig finds: of two spellings the exact one,
\* which the stored form has later.
Found(config) ==
  IF config = NoSignature THEN NoSecret
  ELSE IF config.secret = NoSecret /\ config.respelled # NoSecret
       THEN [value |-> config.respelled, key |-> Plain]
       ELSE config.secret

\* The secret of an object that is stored as it was sent.
Verbatim(sent) == IF sent.secret \in Secret THEN sent.secret ELSE sent.respelled

\* seal, for what was sent in place of the config old.
seal(sent, old, key) ==
  LET previous == Found(old)
      secret == CASE sent.secret \in Secret -> store(sent.secret, key)
                  [] sent.secret = Cleared -> NoSecret
                  [] OTHER -> IF previous # NoSecret /\ previous.key = Plain /\ key # NoKey
                              THEN store(previous.value, key) ELSE previous
  IN IF sent = NoSignature THEN NoSignature
     ELSE IF ~sent.exact THEN [resign |-> sent.resign, secret |-> NoSecret, respelled |-> Verbatim(sent)]
     ELSE IF secret = Refused \/ (sent.resign /\ secret = NoSecret) THEN Refused
     ELSE [resign |-> sent.resign, secret |-> secret, respelled |-> sent.respelled]

At(c, at) == call[c] # Absent /\ call[c].at = at

Step(c, state) == call' = [call EXCEPT ![c] = state]

\* What the handler has read goes with it.
Reply(c, status, state) ==
  Step(c, [state EXCEPT !.at = "replied", !.status = status, !.read = NoEndpoint, !.config = NoSignature])

Arrived(op, id, body) ==
  [op |-> op, id |-> id, body |-> body, at |-> "replied", read |-> NoEndpoint, config |-> NoSignature,
   tries |-> 0, did |-> {}, status |-> "pending"]

NoBody == [name |-> Absent, rename |-> FALSE, config |-> Absent]

\* Of a call that is answered with an error what it asked for is not kept.
Unmet(state) == [state EXCEPT !.id = 0, !.body = NoBody]

Rejected(op, status) == [Arrived(op, 0, NoBody) EXCEPT !.status = status]

Arrive(c, state) ==
  /\ call[c] = Absent
  /\ call' = [call EXCEPT ![c] = state]
  /\ UNCHANGED <<endpoints, created, hubVars, reseal, raced, initially>>

\* CreateEndpoint up to its first slug.  A body without a config is one without
\* a signature; name and mode may be refused, whatever they are.
CreateEndpoint(c, body) ==
  LET sealed == seal(IF body.config = Absent THEN NoSignature ELSE body.config, NoSignature, Key(c))
      state == Arrived("create", 0, body)
  IN /\ body.name # Absent
     /\ \/ Arrive(c, Rejected("create", "refused"))
        \/ /\ sealed # Refused
           /\ Arrive(c, [state EXCEPT !.at = "naming", !.config = sealed])

\* UpdateEndpoint up to its first write: what it read, and every check.
UpdateEndpoint(c, id, body) ==
  LET state == [Arrived("patch", id, body) EXCEPT !.read = endpoints[id]]
      config == IF body.config = Absent THEN endpoints[id].config
                ELSE seal(body.config, endpoints[id].config, Key(c))
  IN \/ ~Live(id) /\ Arrive(c, Rejected("patch", "notFound"))
     \/ Live(id) /\ Arrive(c, Rejected("patch", "refused"))
     \/ /\ Live(id)
        /\ config # Refused
        /\ Arrive(c, [state EXCEPT !.at = IF body.rename THEN "renaming" ELSE "saving", !.config = config])

DeleteEndpoint(c, id) ==
  LET state == [Arrived("delete", id, NoBody) EXCEPT !.read = endpoints[id]]
  IN Arrive(c, IF Live(id) THEN [state EXCEPT !.at = "deleting"] ELSE Rejected("delete", "notFound"))

\* Fault: the first taken slug is the last.
SlugTakenOnce(c, id) ==
  /\ \E s \in Slug : Taken(s, id)
  /\ Reply(c, "conflict", [Unmet(call[c]) EXCEPT !.tries = 1])
  /\ UNCHANGED <<endpoints, created, hubVars, reseal, raced, initially>>

\* One round of withNewSlug, whose slug the table's unique index refuses.
SlugTaken(c, id) ==
  /\ \E s \in Slug : Taken(s, id)
  /\ IF call[c].tries + 1 < Attempts
     THEN Step(c, [call[c] EXCEPT !.tries = @ + 1])
     ELSE Reply(c, "conflict", [Unmet(call[c]) EXCEPT !.tries = Attempts])
  /\ UNCHANGED <<endpoints, created, hubVars, reseal, raced, initially>>

TryAgain(c) ==
  \/ At(c, "naming") /\ SlugTaken(c, 0)
  \/ At(c, "renaming") /\ Live(call[c].id) /\ SlugTaken(c, call[c].id)

InsertEndpoint(name, config) ==
  /\ created < MaxEndpoints
  /\ created' = created + 1
  /\ \E s \in Slug :
       /\ ~Taken(s, 0)
       /\ endpoints' = [endpoints EXCEPT ![created'] = [slug |-> s, name |-> name, config |-> config]]

Insert(c) ==
  /\ At(c, "naming")
  /\ InsertEndpoint(call[c].body.name, call[c].config)
  /\ Reply(c, "ok", [call[c] EXCEPT !.id = created', !.did = {"create"}])
  /\ UNCHANGED <<hubVars, reseal, raced, initially>>

\* The endpoint a request was captured for still has the URL it came to.
HasUrl(b) == Live(b.id) /\ endpoints[b.id].slug = b.slug

\* The URL of the call's endpoint goes, and with it the buffers under it that
\* the handler will not remove: other instances', and its own if the URL is
\* another one by now than the handler has read.
TakeUrl(c) ==
  /\ orphans' = orphans \cup {b \in buffers : /\ b.id = call[c].id
                                              /\ HasUrl(b)
                                              /\ b.on # Home[c] \/ b.slug # call[c].read.slug}
  /\ UNCHANGED <<captures, buffers>>

RenameEndpoint(id) ==
  /\ Live(id)
  /\ \E s \in Slug :
       /\ ~Taken(s, id)
       /\ endpoints' = [endpoints EXCEPT ![id].slug = s]

Rename(c) ==
  /\ At(c, "renaming")
  /\ RenameEndpoint(call[c].id)
  /\ Step(c, [call[c] EXCEPT !.at = "removing", !.did = {"rename"}])
  /\ TakeUrl(c)
  /\ UNCHANGED <<created, reseal, raced, initially>>

DeleteRow(c) ==
  /\ At(c, "deleting")
  /\ endpoints' = [endpoints EXCEPT ![call[c].id] = NoEndpoint]
  /\ Step(c, [call[c] EXCEPT !.at = "removing", !.did = {"delete"}])
  /\ TakeUrl(c)
  /\ UNCHANGED <<created, reseal, raced, initially>>

Forget(on, slug) ==
  LET kept(b) == b.on # on \/ b.slug # slug
  IN /\ buffers' = {b \in buffers : kept(b)}
     /\ orphans' = {b \in orphans : kept(b)}
     /\ UNCHANGED captures

\* Fault: the buffer of the URL the endpoint has by now.
RemoveCurrentBuffer(c) ==
  /\ At(c, "removing")
  /\ IF Live(call[c].id) THEN Forget(Home[c], endpoints[call[c].id].slug) ELSE UNCHANGED hubVars
  /\ IF call[c].op = "delete" THEN Reply(c, "ok", call[c]) ELSE Step(c, [call[c] EXCEPT !.at = "saving"])
  /\ UNCHANGED <<endpoints, created, reseal, raced, initially>>

\* The instance's hub forgets the slug that the handler read, then the handler
\* goes on.
RemoveBuffer(c) ==
  /\ At(c, "removing")
  /\ Forget(Home[c], call[c].read.slug)
  /\ IF call[c].op = "delete" THEN Reply(c, "ok", call[c]) ELSE Step(c, [call[c] EXCEPT !.at = "saving"])
  /\ UNCHANGED <<endpoints, created, reseal, raced, initially>>

\* All columns but the slug, over whatever they hold by now.
Write(id, read, name, config) ==
  /\ endpoints' = [endpoints EXCEPT ![id].name = name, ![id].config = config]
  /\ raced' = IF endpoints[id].name = read.name /\ endpoints[id].config = read.config
              THEN raced ELSE raced \cup {id}
  /\ UNCHANGED <<created, hubVars>>

\* Fault: a name that was left out is written as such.
NameAsSent(c) == call[c].body.name

NewName(c) == IF call[c].body.name = Absent THEN call[c].read.name ELSE call[c].body.name

Save(c) ==
  /\ At(c, "saving")
  /\ Live(call[c].id)
  /\ Write(call[c].id, call[c].read, NewName(c), call[c].config)
  /\ Reply(c, "ok", [call[c] EXCEPT !.did = @ \cup {"edit"}])
  /\ UNCHANGED <<reseal, initially>>

\* A store call fails and has changed nothing, or finds the endpoint deleted
\* since the read.
StoreFails(c) ==
  /\ \E at \in {"naming", "renaming", "saving", "deleting"} : At(c, at)
  /\ Reply(c, "failed", Unmet(call[c]))
  /\ UNCHANGED <<endpoints, created, hubVars, reseal, raced, initially>>

\* The capture handler reads the endpoint ...
Lookup(r) ==
  /\ captures[r] = Absent
  /\ \E id \in Busy :
       /\ Live(id)
       /\ captures' = [captures EXCEPT ![r] = [on |-> Home[r], slug |-> endpoints[id].slug, id |-> id]]
  /\ UNCHANGED <<endpoints, created, buffers, orphans, call, reseal, raced, initially>>

\* ... and publishes the request under what it read, to its own instance's hub:
\* an orphan, if the endpoint has lost that URL meanwhile.
Publish(r) ==
  /\ captures[r] \in Buffered
  /\ buffers' = buffers \cup {captures[r]}
  /\ orphans' = IF HasUrl(captures[r]) THEN orphans ELSE orphans \cup {captures[r]}
  /\ captures' = [captures EXCEPT ![r] = Done]
  /\ UNCHANGED <<endpoints, created, call, reseal, raced, initially>>

\* It is held for a tab's reply instead, or fails.
NotBuffered(r) ==
  /\ captures[r] \in Buffered
  /\ captures' = [captures EXCEPT ![r] = Done]
  /\ UNCHANGED <<endpoints, created, buffers, orphans, call, reseal, raced, initially>>

\* The hub's sweep deletes a buffer that has expired.
SweepBuffer(on, slug) ==
  /\ \E b \in buffers : b.on = on /\ b.slug = slug
  /\ Forget(on, slug)
  /\ UNCHANGED <<endpoints, created, call, reseal, raced, initially>>

\* ResealSecrets: a page of endpoints, newest first, which is short when the
\* list ends on it ...
Newer(id) == {other \in Id : Live(other) /\ other > id}

Listed == {id \in Id : Live(id) /\ Cardinality(Newer(id)) \in reseal.offset..(reseal.offset + PageSize - 1)}

ListPage ==
  /\ reseal.at = "listing"
  /\ reseal' = [reseal EXCEPT !.at = "sealing",
                              !.page = {[id |-> id, row |-> endpoints[id]] : id \in Listed},
                              !.last = Cardinality({id \in Id : Live(id)}) < reseal.offset + PageSize]
  /\ UNCHANGED <<endpoints, created, hubVars, call, raced, initially>>

\* A config whose secret is under one of the keys.
Under(config, keys) ==
  /\ config # NoSignature
  /\ config.secret # NoSecret
  /\ config.secret.key \in keys

\* ... of which those are written whose secret is not under the primary key
\* and can be brought under it ...
\* Fault: encrypted is enough.
ResealableIfPlain(config) == Under(config, {Plain})

Resealable(config) ==
  /\ config # NoSignature
  /\ config.secret # NoSecret
  /\ config.secret.key # Primary
  /\ config.secret.key = Plain \/ Openable(config.secret)

\* The next of the page.
First(item) == item \in reseal.page /\ \A other \in reseal.page : other.id <= item.id

SkipItem(item) ==
  /\ First(item)
  /\ ~Resealable(item.row.config)
  /\ reseal' = [reseal EXCEPT !.page = @ \ {item}]
  /\ UNCHANGED <<endpoints, created, hubVars, call, raced, initially>>

ResealItem(item) ==
  /\ First(item)
  /\ Resealable(item.row.config)
  /\ Live(item.id)
  /\ Write(item.id, item.row, item.row.name, [item.row.config EXCEPT !.secret = Rewrap(@, Primary)])
  /\ reseal' = [reseal EXCEPT !.page = @ \ {item}]
  /\ UNCHANGED <<call, initially>>

\* ... until a page is short.
NextPage ==
  /\ reseal.at = "sealing"
  /\ reseal.page = {}
  /\ reseal' = IF reseal.last
               THEN [reseal EXCEPT !.at = "done"]
               ELSE [reseal EXCEPT !.at = "listing", !.offset = @ + PageSize]
  /\ UNCHANGED <<endpoints, created, hubVars, call, raced, initially>>

\* A failing store call, or an endpoint deleted since it was listed, ends it.
ResealFails ==
  /\ \/ reseal.at = "listing"
     \/ \E item \in reseal.page : First(item) /\ Resealable(item.row.config)
  /\ reseal' = [reseal EXCEPT !.at = "aborted", !.page = {}]
  /\ UNCHANGED <<endpoints, created, hubVars, call, raced, initially>>

Begin(c) ==
  \/ \E body \in Sent : CreateEndpoint(c, body)
  \/ \E id \in Id, body \in Sent : UpdateEndpoint(c, id, body)
  \/ \E id \in Id : DeleteEndpoint(c, id)

Continue(c) == TryAgain(c) \/ Insert(c) \/ Rename(c) \/ DeleteRow(c) \/ RemoveBuffer(c) \/ Save(c) \/ StoreFails(c)

ResealSecrets ==
  \/ ListPage
  \/ \E item \in reseal.page : SkipItem(item) \/ ResealItem(item)
  \/ NextPage
  \/ ResealFails

APINext ==
  \/ \E c \in Caller : Begin(c) \/ Continue(c)
  \/ ResealSecrets
  \/ \E r \in Request : Lookup(r) \/ Publish(r) \/ NotBuffered(r)
  \/ \E on \in Instance, slug \in Slug : SweepBuffer(on, slug)

APISpec == APIInit /\ [][APINext]_apiVars

-----------------------------------------------------------------------------
Answered(c, id, what) == At(c, "replied") /\ call[c].id = id /\ call[c].did \cap what # {}

\* The calls that have given an endpoint a name, or a config.
NamedBy(id) == {c \in Caller : Answered(c, id, {"create", "edit"}) /\ call[c].body.name # Absent}

ConfiguredBy(id) ==
  {c \in Caller : \/ Answered(c, id, {"create"})
                  \/ Answered(c, id, {"edit"}) /\ call[c].body.config # Absent}

\* What an endpoint holds of a config that was sent for it.
Holds(config, sent) ==
  IF sent \in {Absent, NoSignature} THEN config = NoSignature
  ELSE /\ config # NoSignature
       /\ config.resign = sent.resign
       /\ ~sent.exact => config.secret = NoSecret /\ config.respelled = Verbatim(sent)
       /\ sent.exact =>
            /\ config.respelled = sent.respelled
            /\ sent.secret = Cleared => config.secret = NoSecret
            /\ sent.secret \in Secret => config.secret # NoSecret /\ config.secret.value = sent.secret

SameSecret(config, before) ==
  \/ config = before
  \/ /\ NoSignature \notin {config, before}
     /\ config.resign = before.resign
     /\ config.respelled = before.respelled
     /\ NoSecret \notin {config.secret, before.secret}
     /\ config.secret.value = before.secret.value

\* Except for the writes that raced, an endpoint's name and its secret are what
\* a call that changed it was sent, or as at the start if none was: neither a
\* PATCH that leaves them out nor a reseal loses them or puts others there.
AnsweredChangesStay ==
  \A id \in Id \ raced : Live(id) =>
    /\ IF NamedBy(id) = {} THEN endpoints[id].name = initially[id].name
                           ELSE \E c \in NamedBy(id) : endpoints[id].name = call[c].body.name
    /\ IF ConfiguredBy(id) = {} THEN SameSecret(endpoints[id].config, initially[id].config)
                                ELSE \E c \in ConfiguredBy(id) : Holds(endpoints[id].config, call[c].body.config)

\* An answer other than success means that nothing was changed, but for a PATCH
\* that renames and edits: there the new URL may stay without the edit.  Only
\* after slugAttempts taken slugs is there a conflict.
ErrorsLeaveNoEdit ==
  \A c \in Caller : At(c, "replied") =>
    CASE call[c].status = "ok" -> {"create", "edit", "delete"} \cap call[c].did # {}
      [] call[c].status = "failed" -> call[c].did \subseteq {"rename"}
      [] call[c].status = "conflict" -> call[c].did = {} /\ call[c].tries = Attempts
      [] OTHER -> call[c].did = {}

SecretUnder(id, keys) == Live(id) /\ Under(endpoints[id].config, keys)

\* The secrets that a config has in the clear, and those that a body does not
\* have under the exact keys.
InTheClear(config) ==
  {s \in Secret : /\ config # NoSignature
                  /\ config.respelled = s \/ config.secret = [value |-> s, key |-> Plain]}

Respelled(sent) ==
  {s \in Secret : /\ sent \notin {Absent, NoSignature}
                  /\ sent.respelled = s \/ (~sent.exact /\ sent.secret = s)}

\* What may be in the clear at an endpoint.
Excuses(id) ==
  {s \in Secret : \/ initially[id] # NoEndpoint /\ s \in InTheClear(initially[id].config)
                  \/ \E c \in Caller : Answered(c, id, {"create", "edit"}) /\ s \in Respelled(call[c].body.config)}

ClearOnlyAsSent == \A id \in Id : Live(id) => InTheClear(endpoints[id].config) \subseteq Excuses(id)

\* The API stores a secret in the clear only if a client sent it so, under
\* another spelling of its key, in a call that made or changed that endpoint, or
\* as it was at the start; and when the reseal has ended, every secret it could
\* see and open is under the primary key, so that the former one can be removed,
\* unless an instance with the former settings saved it, a PATCH that had read
\* the endpoint earlier wrote it back, or a deletion moved it from one page of
\* the list to another.
SecretsAtRest ==
  /\ ClearOnlyAsSent
  /\ reseal.at = "done" =>
       \A id \in Id \ raced : SecretUnder(id, {Plain, Former}) =>
         \E c \in Caller : \/ Home[c] \in Outdated /\ Answered(c, id, {"create", "edit"})
                           \/ call[c] # Absent /\ "delete" \in call[c].did

\* What a ring buffer holds was sent to an endpoint that still has the URL, or
\* the handler that took the URL away has yet to remove it; otherwise an endpoint
\* that is given the URL later would replay another's requests.  Nobody removes
\* an orphan: a buffer on another instance than the one that took the URL away,
\* that of a URL the endpoint had got since the handler read it, and one that a
\* request made again which was looked up before.
BuffersHaveOwner ==
  \A b \in buffers \ orphans :
    \/ HasUrl(b)
    \/ \E c \in Caller : /\ At(c, "removing")
                         /\ Home[c] = b.on
                         /\ call[c].id = b.id
                         /\ call[c].read.slug = b.slug
=============================================================================
