------------------------------ MODULE KeyStore ------------------------------
(***************************************************************************)
(* The API keys of a server (key_manager.py, server/routes_keys.py, the    *)
(* key tools of server/mcp.py, server/middleware_auth.py): the default key *)
(* in .search.env and in memory, the records of keys.json and the cached   *)
(* view of them, rotations in flight, other processes on the same file,    *)
(* and crashes.  A token is a number, in the order of issue; 0 is none.    *)
(* The environment variable, which overrides .search.env and refuses every *)
(* rotation, is not set; the tokens of [namespaces] are left out.          *)
(***************************************************************************)
EXTENDS Integers, FiniteSets

CONSTANTS Rotators,     \* the requests that may rotate: POST /keys/rotate, MCP rotate_key
          MaxToken,     \* bound: tokens issued
          MaxMishaps    \* bound: crashes, corruptions and failed writes

VARIABLES keyfile,      \* the token in .search.env
          keys,         \* keys.json: the record of each token
          readable,     \* keys.json can be parsed
          api,          \* app.state.api_key; 0 while the server is down
          view, loadingView,       \* KeyStore._cache, and a load() that another process interrupts
          rotation, lastToken, mishaps,
          gone, byHand, incomplete \* history: retired tokens, revoked ones, rotations that ended half way

keyVars == <<keyfile, keys, readable, api, view, loadingView, rotation, lastToken, mishaps,
             gone, byHand, incomplete>>

Tokens == 1..MaxToken
NoRecord == [status |-> "none", expiry |-> "never", admin |-> FALSE]
Active(expiry, admin) == [status |-> "active", expiry |-> expiry, admin |-> admin]
NoView == [fresh |-> FALSE, keys |-> <<>>]
NoRotation == [at |-> "idle", old |-> 0, new |-> 0, grace |-> FALSE, cancelled |-> FALSE]

KeyInit ==
  /\ keyfile = 1 /\ keys = [t \in Tokens |-> NoRecord] /\ readable = TRUE
  /\ api = 1 /\ view = NoView /\ loadingView = NoView
  /\ rotation = [r \in Rotators |-> NoRotation] /\ lastToken = 1 /\ mishaps = 0
  /\ gone = {} /\ byHand = {} /\ incomplete = FALSE

Up == api # 0
\* A mutation parses the file afresh and refuses one that it cannot parse.
Usable == readable
Base == IF readable THEN keys ELSE [t \in Tokens |-> NoRecord]

\* The signature of the file changes with every replacement.
Replaced(v) == [v EXCEPT !.fresh = FALSE]
\* _write: the whole file, and the cached view is dropped.
Write(ks) == keys' = ks /\ readable' = TRUE /\ view' = NoView /\ loadingView' = Replaced(loadingView)

\* authenticate_token: a live record, else the default key unless a record retires it.
Records == IF readable THEN keys ELSE [t \in Tokens |-> NoRecord]
Expired(k) == k.expiry = "past"
Live(k) == k.status = "active" /\ ~Expired(k)
RetiredByRecord(k) == k.status = "revoked" \/ Expired(k)
Accepts(t) == Up /\ (Live(Records[t]) \/ (t = api /\ ~RetiredByRecord(Records[t])))
AcceptsAdmin(t) == Accepts(t) /\ (Live(Records[t]) => Records[t].admin)
SomeAdmin == \E t \in Tokens : AcceptsAdmin(t)

-----------------------------------------------------------------------------
\* load: the signature first, then the content; another process may write in between.
LoadBegins ==
  /\ Up /\ loadingView = NoView /\ ~view.fresh
  /\ loadingView' = [fresh |-> TRUE, keys |-> <<>>]
  /\ UNCHANGED <<keyfile, keys, readable, api, view, rotation, lastToken, mishaps, gone, byHand, incomplete>>
LoadEnds ==
  /\ loadingView # NoView
  /\ view' = [fresh |-> loadingView.fresh, keys |-> Records] /\ loadingView' = NoView
  /\ UNCHANGED <<keyfile, keys, readable, api, rotation, lastToken, mishaps, gone, byHand, incomplete>>

\* POST /keys and create_key: a non-admin caller gets no admin key.
Create ==
  /\ Up /\ Usable /\ lastToken < MaxToken /\ lastToken' = lastToken + 1
  /\ \E caller \in Tokens, expiry \in {"never", "pending"}, admin \in BOOLEAN :
       /\ Accepts(caller) /\ (admin => AcceptsAdmin(caller))
       /\ Write([Base EXCEPT ![lastToken'] = Active(expiry, admin)])
  /\ UNCHANGED <<keyfile, api, rotation, mishaps, gone, byHand, incomplete>>

\* DELETE /keys/{id} and revoke_key, here or through another process of the same data directory.
Revoked(t) == [Base EXCEPT ![t].status = "revoked"]
Revoke(t) ==
  /\ Usable /\ Base[t].status = "active" /\ SomeAdmin
  /\ \/ Write(Revoked(t))
     \/ keys' = Revoked(t) /\ readable' = TRUE /\ view' = Replaced(view) /\ loadingView' = Replaced(loadingView)
  /\ gone' = gone \cup {t} /\ byHand' = byHand \cup {t}
  /\ UNCHANGED <<keyfile, api, rotation, lastToken, mishaps, incomplete>>

GraceEnds(t) ==
  /\ keys[t].expiry = "pending" /\ keys' = [keys EXCEPT ![t].expiry = "past"]
  /\ view' = IF view.keys # <<>> /\ view.keys[t].expiry = "pending" THEN [view EXCEPT !.keys[t].expiry = "past"] ELSE view
  /\ gone' = gone \cup {t}
  /\ UNCHANGED <<keyfile, readable, api, loadingView, rotation, lastToken, mishaps, byHand, incomplete>>

-----------------------------------------------------------------------------
\* rotate_and_persist_default_key: under the lock, the current key and a readable store.
LockFree == \A r \in Rotators : rotation[r].at = "idle"
RotateBegin(r, grace) ==
  /\ Up /\ rotation[r].at = "idle" /\ LockFree /\ SomeAdmin /\ Usable /\ lastToken < MaxToken
  /\ lastToken' = lastToken + 1
  /\ rotation' = [rotation EXCEPT ![r] = [at |-> "commit", old |-> api, new |-> lastToken', grace |-> grace, cancelled |-> FALSE]]
  /\ UNCHANGED <<keyfile, keys, readable, api, view, loadingView, mishaps, gone, byHand, incomplete>>
\* The caller gives up; the commit is shielded and goes on.
Cancel(r) ==
  /\ rotation[r].at \in {"commit", "written"} /\ ~rotation[r].cancelled
  /\ rotation' = [rotation EXCEPT ![r].cancelled = TRUE]
  /\ UNCHANGED <<keyfile, keys, readable, api, view, loadingView, lastToken, mishaps, gone, byHand, incomplete>>
\* _write_key_file; a write that fails ends the rotation.
WriteKeyFile(r) ==
  /\ rotation[r].at = "commit"
  /\ \/ keyfile' = rotation[r].new /\ rotation' = [rotation EXCEPT ![r].at = "written"] /\ UNCHANGED mishaps
     \/ /\ mishaps < MaxMishaps /\ mishaps' = mishaps + 1
        /\ rotation' = [rotation EXCEPT ![r] = NoRotation] /\ UNCHANGED keyfile
  /\ UNCHANGED <<keys, readable, api, view, loadingView, lastToken, gone, byHand, incomplete>>

\* record_rotation: the old key's record is retired; one that has none gets a record for its grace.
NotActive(k) == k.status # "active"
Unseen(k) == k.status = "none"
Retired(k, grace) ==
  CASE k.status = "active" /\ ~grace -> [k EXCEPT !.status = "revoked"]
    [] k.status = "active" /\ grace  -> [k EXCEPT !.expiry = "pending"]
    [] Unseen(k) /\ grace            -> Active("pending", TRUE)
    [] OTHER                         -> k
\* The record, then the new key is published; a failure leaves the rotation incomplete.
RecordRotation(r) ==
  /\ rotation[r].at = "written"
  /\ LET job == rotation[r] IN
     \/ /\ Usable
        /\ Write([Base EXCEPT ![job.old] = Retired(@, job.grace), ![job.new] = Active("never", TRUE)])
        /\ api' = job.new
        /\ gone' = gone \cup (IF job.grace THEN {} ELSE {job.old})
                        \cup (IF api = job.old THEN {} ELSE {api})     \* the default key that this one replaces
        /\ UNCHANGED <<mishaps, incomplete>>
     \/ /\ ~readable \/ mishaps < MaxMishaps
        /\ mishaps' = IF readable THEN mishaps + 1 ELSE mishaps
        /\ incomplete' = TRUE /\ UNCHANGED <<keys, readable, api, view, loadingView, gone>>
  /\ rotation' = [rotation EXCEPT ![r] = NoRotation]
  /\ UNCHANGED <<keyfile, lastToken, byHand>>

-----------------------------------------------------------------------------
Crash ==
  /\ Up /\ mishaps < MaxMishaps /\ mishaps' = mishaps + 1
  /\ api' = 0 /\ view' = NoView /\ loadingView' = NoView
  /\ incomplete' = (incomplete \/ \E r \in Rotators : rotation[r].at = "written")
  /\ rotation' = [r \in Rotators |-> NoRotation]
  /\ UNCHANGED <<keyfile, keys, readable, lastToken, gone, byHand>>
\* create_app: the key of .search.env becomes the default key.
Start ==
  /\ ~Up /\ api' = keyfile
  /\ UNCHANGED <<keyfile, keys, readable, view, loadingView, rotation, lastToken, mishaps, gone, byHand, incomplete>>
\* Somebody damages keys.json, or restores it.
Damage == /\ mishaps < MaxMishaps /\ readable /\ readable' = FALSE /\ mishaps' = mishaps + 1
          /\ view' = Replaced(view) /\ loadingView' = Replaced(loadingView)
          /\ UNCHANGED <<keyfile, keys, api, rotation, lastToken, gone, byHand, incomplete>>
Restore == /\ ~readable /\ readable' = TRUE
           /\ view' = Replaced(view) /\ loadingView' = Replaced(loadingView)
           /\ UNCHANGED <<keyfile, keys, api, rotation, lastToken, mishaps, gone, byHand, incomplete>>

KeyNext ==
  \/ LoadBegins \/ LoadEnds \/ Create \/ Crash \/ Start \/ Damage \/ Restore
  \/ \E t \in Tokens : Revoke(t) \/ GraceEnds(t)
  \/ \E r \in Rotators : (\E grace \in BOOLEAN : RotateBegin(r, grace)) \/ Cancel(r) \/ WriteKeyFile(r) \/ RecordRotation(r)

KeySpec == KeyInit /\ [][KeyNext]_keyVars

KeyTypeOK ==
  /\ keyfile \in Tokens /\ api \in 0..MaxToken /\ lastToken \in Tokens /\ readable \in BOOLEAN
  /\ \A t \in Tokens : keys[t].status \in {"none", "active", "revoked"} /\ keys[t].expiry \in {"never", "pending", "past"}
  /\ \A r \in Rotators : rotation[r].at \in {"idle", "commit", "written"}

-----------------------------------------------------------------------------
\* A token that was revoked, whose grace ended or that an acknowledged rotation replaced
\* opens nothing again, whatever rotations, crashes and restarts follow.
RetiredStaysOut == readable => \A t \in gone : ~Accepts(t)

\* The operator is not locked out: the default key of a running server is accepted as
\* admin unless somebody revoked it, also after a crash inside a rotation.
NoLockOut == Up => (AcceptsAdmin(api) \/ api \in byHand)

\* .search.env is ahead of keys.json only while a rotation runs or after one that
\* ended half way; cancelling its caller alone never does it.
KeyFileFollowed == Up => (keyfile = api \/ incomplete \/ ~LockFree)

\* load() never serves an old file: a view under the current signature is the current file.
ViewIsFile == view.fresh => view.keys = Records

\* A change of keys never loses the record of another one, also when the file was unreadable.
RecordsKept == [][\A t \in Tokens : keys[t].status # "none" => keys'[t].status # "none"]_keyVars
=============================================================================
