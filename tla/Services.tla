------------------------------ MODULE Services ------------------------------
(***************************************************************************)
(* Who reaches which service, across edits and reloads: load_config and    *)
(* HostType of src/configuration.rs, the router of src/server.rs, the      *)
(* cookie and the checks of src/users.rs, proxy_handler of src/apps.rs.    *)
(* Logins read vestibule.yaml as it is now; routes, services and the key   *)
(* that signs cookies are those of the last build.                         *)
(***************************************************************************)
EXTENDS Integers, Sequences

CONSTANTS
    Browsers, Users, Roles,
    Hosts,      \* full host names, <service>.<hostname>, and those of targets
    Within,     \* <<h, k>>: the name k is a substring of the name h
    Under,      \* <<h, k>>: h is the name k, or a name in the domain k
    Files,      \* contents vestibule.yaml may get
    MaxBuilds,  \* bound: reloads
    None        \* no user, no Location, no target

Service == [kind : {"app", "dav"}, host : Hosts, secured : BOOLEAN,
            roles : SUBSET Roles, forward : Hosts \cup {None}]
File == [apps : Seq(Service), davs : Seq(Service), tls : BOOLEAN,
         users : UNION {[logins -> SUBSET Roles] : logins \in SUBSET Users}]

ASSUME FilesAssumption == Files \subseteq File /\ MaxBuilds \in Nat
ASSUME NamesAssumption == Under \subseteq Within
ASSUME NoneAssumption == None \notin Hosts /\ None \notin Users

VARIABLES
    file,       \* vestibule.yaml
    map,        \* the ConfigMap of the running server: host to service
    build,      \* counts the builds; stands for the key of Key::generate
    tls,        \* auto_tls as main read it when it started
    frontTls,   \* auto_tls as the running server was built with it
    cookie,     \* per browser: the user as local_auth found it, and the key
    listing,    \* per browser: the last answer of list_services
    answer,     \* the last answer to a visit
    had         \* history: per user, the roles in the file since the build

front == <<map, build, tls, frontTls>>
vars == <<file, front, cookie, listing, answer, had>>

NoUser == [user |-> None, roles |-> {}, key |-> 0]
Cookie == [user : Users \cup {None}, roles : SUBSET Roles, key : 0 .. MaxBuilds + 1]
NoAnswer == [kind |-> "none", by |-> NoUser, host |-> None, from |-> None,
             location |-> None]

\* collect: of two services with one host the later stays, a dav over an app.
Built(f) ==
    LET all == f.apps \o f.davs
        Last(h) == CHOOSE i \in DOMAIN all :
                     all[i].host = h /\ \A j \in DOMAIN all : all[j].host = h => j <= i
    IN  [h \in {all[i].host : i \in DOMAIN all} |-> all[Last(h)]]

RolesIn(f, u) == IF u \in DOMAIN f.users THEN f.users[u] ELSE {}

TypeOK ==
    /\ file \in Files
    /\ DOMAIN map \subseteq Hosts /\ \A h \in DOMAIN map : map[h] \in Service
    /\ build \in 1 .. MaxBuilds + 1 /\ tls \in BOOLEAN /\ frontTls \in BOOLEAN
    /\ cookie \in [Browsers -> Cookie] /\ \A b \in Browsers : cookie[b].key <= build
    /\ listing \in [Browsers -> [by : Cookie, services : SUBSET Hosts]]
    /\ had \in [Users -> SUBSET Roles]

Init ==
    /\ file \in Files
    /\ map = Built(file) /\ build = 1 /\ tls = file.tls /\ frontTls = file.tls
    /\ cookie = [b \in Browsers |-> NoUser]
    /\ listing = [b \in Browsers |-> [by |-> NoUser, services |-> {}]]
    /\ answer = NoAnswer
    /\ had = [u \in Users |-> RolesIn(file, u)]

\* An admin, or the operator, changes the file; nothing is reloaded.
Edit(f) ==
    /\ file' = f
    /\ had' = [u \in Users |-> had[u] \cup RolesIn(f, u)]
    /\ UNCHANGED <<front, cookie, listing, answer>>

\* Slip: the key is kept over a reload.
ReloadKeepsKey ==
    /\ map' = Built(file) /\ frontTls' = file.tls /\ build' = build
    /\ answer' = NoAnswer
    /\ had' = [u \in Users |-> RolesIn(file, u)]
    /\ UNCHANGED <<file, tls, cookie, listing>>

\* GET /reload: the next server is built, with a new key.
Reload ==
    /\ build <= MaxBuilds
    /\ map' = Built(file) /\ frontTls' = file.tls /\ build' = build + 1
    /\ answer' = NoAnswer
    /\ had' = [u \in Users |-> RolesIn(file, u)]
    /\ UNCHANGED <<file, tls, cookie, listing>>

\* Slip: the cookie is signed with a key drawn for it.
LoginFreshKey(b, u) ==
    /\ u \in DOMAIN file.users
    /\ cookie' = [cookie EXCEPT ![b] = [user |-> u, roles |-> file.users[u],
                                       key |-> build + 1]]
    /\ UNCHANGED <<file, front, listing, answer, had>>

\* local_auth, with the right password.
Login(b, u) ==
    /\ u \in DOMAIN file.users
    /\ cookie' = [cookie EXCEPT ![b] = [user |-> u, roles |-> file.users[u], key |-> build]]
    /\ UNCHANGED <<file, front, listing, answer, had>>

\* The user a request comes from; a cookie of another key is not one.
UserOf(b) == IF cookie[b].key = build THEN cookie[b] ELSE NoUser

\* Slip: a secured service without roles is for every user.
AuthorizedIfNoRoles(s, user) ==
    s.secured => s.roles = {} \/ \E role \in user.roles : role \in s.roles

\* check_authorization, and check_user_has_role_or_forbid in it.
Authorized(s, user) ==
    s.secured => user # NoUser /\ \E role \in user.roles : role \in s.roles

\* The test of list_services.
Shown(s, user) ==
    ~s.secured \/ \E role \in s.roles : \E own \in user.roles : own = role

\* list_services is for users; a service of the map is in it or not.
List(b) ==
    /\ UserOf(b) # NoUser
    /\ listing' = [listing EXCEPT ![b] =
           [by |-> UserOf(b), services |-> {h \in DOMAIN map : Shown(map[h], UserOf(b))}]]
    /\ UNCHANGED <<file, front, cookie, answer, had>>

Answers(kind, b, h, from, location) ==
    answer' = [kind |-> kind, by |-> UserOf(b), host |-> h, from |-> from,
               location |-> location]

\* A host with no service is the main site's.
VisitSite(b, h) ==
    /\ h \notin DOMAIN map
    /\ Answers("site", b, h, None, None)
    /\ UNCHANGED <<file, front, cookie, listing, had>>

Refuse(b, h) ==
    /\ h \in DOMAIN map /\ ~Authorized(map[h], UserOf(b))
    /\ Answers("forbidden", b, h, None, None)
    /\ UNCHANGED <<file, front, cookie, listing, had>>

\* A dav, or an app whose target answers without a Location, or not at all.
Serve(b, h) ==
    /\ h \in DOMAIN map /\ Authorized(map[h], UserOf(b))
    /\ Answers("served", b, h, None, None)
    /\ UNCHANGED <<file, front, cookie, listing, had>>

\* Slip: only the target's own name is replaced, not names under it.
RewrittenExact(s, host, secure) ==
    IF host = s.forward THEN [host |-> s.host, secure |-> frontTls]
                        ELSE [host |-> host, secure |-> secure]

\* proxy_handler: a Location that contains the target's name gets the app's
\* own scheme and authority, which were worked out when the server was built.
Rewritten(s, host, secure) ==
    IF <<host, s.forward>> \in Within THEN [host |-> s.host, secure |-> frontTls]
                                      ELSE [host |-> host, secure |-> secure]

\* The target redirects to a name, over https or not.
Redirect(b, h, to, secure) ==
    /\ h \in DOMAIN map /\ map[h].kind = "app" /\ Authorized(map[h], UserOf(b))
    /\ Answers("redirected", b, h, to, Rewritten(map[h], to, secure))
    /\ UNCHANGED <<file, front, cookie, listing, had>>

Visit(b, h) == \/ VisitSite(b, h) \/ Refuse(b, h) \/ Serve(b, h)
               \/ \E to \in Hosts, secure \in BOOLEAN : Redirect(b, h, to, secure)

Next == \/ \E f \in Files : Edit(f)
        \/ Reload
        \/ \E b \in Browsers : \/ \E u \in Users : Login(b, u)
                               \/ List(b)
                               \/ \E h \in Hosts : Visit(b, h)

Spec == Init /\ [][Next]_vars

----------------------------------------------------------------------------
Served == answer.kind \in {"served", "redirected"}

\* The two places that compare roles agree: what list_services showed a user
\* of this build and nothing else is what a visit of that user is let into.
ListedIffGranted ==
    \A b \in Browsers :
       (listing[b].by # NoUser /\ listing[b].by.key = build) =>
          \A h \in DOMAIN map : h \in listing[b].services <=> Authorized(map[h], listing[b].by)

\* A secured service is reached only with one of its roles, which the user had
\* in the file at some time since the server was built: a role, or a user,
\* that is taken away is gone at the next reload, with every cookie.
GrantedIsCurrent ==
    (Served /\ map[answer.host].secured) =>
       \E role \in map[answer.host].roles :
          answer.by.user \in Users /\ role \in had[answer.by.user]

\* A redirect of a target to itself, or to a name under its own, brings the
\* browser back to the same app and not to the target: the rewritten Location
\* is a host the map has this app under, over the scheme main listens on, as
\* long as auto_tls is what main started with.
RedirectReturns ==
    answer.kind = "redirected" =>
       LET s == map[answer.host] IN
       <<answer.from, s.forward>> \in Under =>
          /\ answer.location.host \in DOMAIN map /\ map[answer.location.host] = s
          /\ tls = frontTls => answer.location.secure = tls

\* tests/backend/apps.rs: "Redirect must be kept intact when is to another
\* website", one that is neither the target nor under its name.
OtherSitesKept ==
    (/\ answer.kind = "redirected"
     /\ <<answer.from, map[answer.host].forward>> \notin Under)
    => answer.location.host = answer.from
=============================================================================
