---------------------------- MODULE ConfigTables ----------------------------
(***************************************************************************)
(* The three tables of vestibule.yaml (Config in src/configuration.rs) and *)
(* what the admin handlers do to them.  A table is a sequence, as the      *)
(* Vec<User>, Vec<App> and Vec<Dav> of the code; an item is a record whose *)
(* field key is the login of a user or the id of an app or dav.  The       *)
(* fields no operation looks at (name, icon, color, openpath...) are left  *)
(* out.                                                                    *)
(***************************************************************************)
EXTENDS SequencesExt

CONSTANTS
    Logins,  \* the logins of users
    Texts,   \* the password texts a client may send
    Empty,   \* the empty text, the password of a user that has none
    Trim,    \* what str::trim does to a text
    Users,   \* the user payloads sent, [key, pw, admin]
    Apps,    \* app items, [key, parses]: parses is whether forward_to is a URI
             \* with an authority (AppWithUri::from_app_domain_and_http_port)
    Davs     \* dav items, [key]

ASSUME TextsAssumption == Empty \in Texts /\ Trim \in [Texts -> Texts]

ASSUME EmptyAssumption == Empty \notin [hash : Texts]

ASSUME ItemsAssumption == /\ Users \subseteq [key : Logins, pw : Texts, admin : BOOLEAN]
                          /\ \A a \in Apps : a.parses \in BOOLEAN
                          /\ \A d \in Davs : "key" \in DOMAIN d

Tables == {"users", "apps", "davs"}

-----------------------------------------------------------------------------
(* The items and the tables.                                               *)

\* A user in the file; admin is "ADMINS" \in roles.  The password is an argon2 hash,
\* or missing (serde default).
StoredUser == [key : Logins, pw : {Empty} \cup [hash : Texts], admin : BOOLEAN]

Item(t) == CASE t = "users" -> StoredUser
             [] t = "apps"  -> Apps
             [] t = "davs"  -> Davs

Config == {f \in [Tables -> Seq(StoredUser \cup Apps \cup Davs)] :
             \A t \in Tables : f[t] \in Seq(Item(t))}

\* The iter().position(|x| x.key == k) of every handler; 0 when there is none.
Position(table, k) == SelectInSeq(table, LAMBDA x : x.key = k)

HasKey(table, k) == Position(table, k) # 0

Lookup(table, k) == table[Position(table, k)]

\* Slip: push without looking for the key.
UpsertAppends(table, item) == Append(table, item)

\* Slip: a new key is not pushed.
UpsertReplacesOnly(table, item) ==
    IF HasKey(table, item.key) THEN ReplaceAt(table, Position(table, item.key), item) ELSE table

\* *item = payload for the first item with the key, else push(payload).
Upsert(table, item) ==
    IF HasKey(table, item.key)
    THEN ReplaceAt(table, Position(table, item.key), item)
    ELSE Append(table, item)

\* remove(pos) of the first item with the key.
Delete(table, k) == RemoveAt(table, Position(table, k))

\* hash_password: the text is trimmed before it is hashed.
HashPassword(text) == [hash |-> Trim[text]]

\* verify_password: the text sent at login is not trimmed.
Verifies(text, stored) == stored = [hash |-> text]

\* Slip: the password is stored as it was sent.
UserToStoreRaw(table, payload) == payload

\* The user add_user stores: an empty password keeps the hash of the user it replaces.
UserToStore(table, payload) ==
    [payload EXCEPT !.pw = IF payload.pw # Empty
                           THEN HashPassword(payload.pw)
                           ELSE Lookup(table, payload.key).pw]

\* from_app_domain_and_http_port panics when forward_to is no URI with a host.
AppLoads(app) == app.parses

\* load_config builds every app.
ConfigLoads(config) == \A i \in DOMAIN config["apps"] : AppLoads(config["apps"][i])

AdminsOf(config) ==
    {config["users"][i].key : i \in {j \in DOMAIN config["users"] :
                                        config["users"][j].admin}}

-----------------------------------------------------------------------------
(* What a good configuration is.                                           *)

KeysUnique(table) == \A i, j \in DOMAIN table : table[i].key = table[j].key => i = j

UsersHaveHash(config) == \A i \in DOMAIN config["users"] : config["users"][i].pw # Empty

WellFormed(config) == /\ \A t \in Tables : KeysUnique(config[t])
                      /\ UsersHaveHash(config)
=============================================================================
