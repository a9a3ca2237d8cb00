--------------------------- MODULE ServicesProofs ---------------------------
(***************************************************************************)
(* Invariants of Services for every file, user, role and host.  Dated adds *)
(* what the properties need: a cookie or an answer that bears the key of   *)
(* this build is of a user who had these roles since it, a listing that    *)
(* bears it was made from this map, and the map has services under their   *)
(* own hosts.                                                              *)
(***************************************************************************)
EXTENDS Services, WellFoundedInduction, TLAPS

\* A user of a request, as local_auth found it at some time of this build.
Genuine(user) == user.user \in Users /\ user.roles \subseteq had[user.user]

Logged == \A b \in Browsers : cookie[b].key = build => Genuine(cookie[b])

HadInFile == \A u \in Users : RolesIn(file, u) \subseteq had[u]

Listed ==
    \A b \in Browsers :
       /\ listing[b].by.key <= build
       /\ (listing[b].by # NoUser /\ listing[b].by.key = build) =>
             listing[b].services = {h \in DOMAIN map : Shown(map[h], listing[b].by)}

Answered ==
    /\ Served => /\ answer.host \in DOMAIN map
                 /\ Authorized(map[answer.host], answer.by)
                 /\ answer.by # NoUser => Genuine(answer.by)
    /\ answer.kind = "redirected" =>
          \E secure \in BOOLEAN :
             answer.location = Rewritten(map[answer.host], answer.from, secure)

Hosted == \A h \in DOMAIN map : map[h].host = h

Dated == TypeOK /\ Logged /\ HadInFile /\ Listed /\ Answered /\ Hosted

----------------------------------------------------------------------------
LEMMA HasLeast ==
    ASSUME NEW S, S \subseteq Nat, S # {}
    PROVE  \E x \in S : \A y \in S : x <= y
<1>1. PICK x \in S : \A y \in S : ~ (<<y, x>> \in OpToRel(<, Nat))
  BY NatLessThanWellFounded, WFMin
<1>2. \A y \in S : ~ (y < x)
  BY <1>1 DEF OpToRel
<1> QED BY <1>2

LEMMA HasGreatest ==
    ASSUME NEW n \in Nat, NEW S, S \subseteq 1 .. n, S # {}
    PROVE  \E x \in S : \A y \in S : y <= x
<1> DEFINE T == {n - x : x \in S}
<1>1. \A x \in S : x \in Int /\ x <= n /\ n - x \in Nat
  OBVIOUS
<1>2. T \subseteq Nat /\ T # {}
  BY <1>1
<1>3. PICK t \in T : \A u \in T : t <= u
  <2> HIDE DEF T
  <2> QED BY <1>2, HasLeast
<1>4. PICK x \in S : t = n - x
  OBVIOUS
<1>5. ASSUME NEW y \in S PROVE y <= x
  <2>1. n - y \in T
    OBVIOUS
  <2> QED BY <1>1, <1>3, <1>4, <2>1
<1> QED BY <1>5

\* Of the services that claim a host one is the last, so that the map of a
\* build has, under a host, a service with that host.
LEMMA BuiltHosts ==
    ASSUME NEW f \in File
    PROVE  /\ DOMAIN Built(f) \subseteq Hosts
           /\ \A h \in DOMAIN Built(f) : Built(f)[h] \in Service /\ Built(f)[h].host = h
<1> DEFINE all == f.apps \o f.davs
<1>1. all \in Seq(Service)
  BY DEF File
<1>2. \A seq \in Seq(Service) :
        /\ DOMAIN seq = 1 .. Len(seq) /\ Len(seq) \in Nat
        /\ \A i \in DOMAIN seq : seq[i] \in Service
  OBVIOUS
<1>3. \A s \in Service : s.host \in Hosts
  BY DEF Service
<1>4. /\ DOMAIN all = 1 .. Len(all) /\ Len(all) \in Nat
      /\ \A i \in DOMAIN all : all[i] \in Service /\ all[i].host \in Hosts
  <2> HIDE DEF all
  <2> QED BY <1>1, <1>2, <1>3
<1> DEFINE Last(h) == CHOOSE i \in DOMAIN all :
                        all[i].host = h /\ \A j \in DOMAIN all : all[j].host = h => j <= i
<1>6. Built(f) = [h \in {all[i].host : i \in DOMAIN all} |-> all[Last(h)]]
  BY DEF Built
<1> HIDE DEF all
<1>5. ASSUME NEW h \in {all[i].host : i \in DOMAIN all}
      PROVE  Last(h) \in DOMAIN all /\ all[Last(h)].host = h
  <2> DEFINE S == {i \in DOMAIN all : all[i].host = h}
  <2>1. S \subseteq 1 .. Len(all) /\ S # {}
    BY <1>4
  <2>2. PICK i \in S : \A j \in S : j <= i
    <3> HIDE DEF S
    <3> QED BY <1>4, <2>1, HasGreatest
  <2> QED BY <2>2
<1> HIDE DEF Last
<1> QED BY <1>4, <1>5, <1>6

LEMMA RolesInTyped ==
    ASSUME NEW f \in Files, NEW u
    PROVE  RolesIn(f, u) \in SUBSET Roles
BY FilesAssumption DEF RolesIn, File

LEMMA NoUserTyped == NoUser \in Cookie /\ NoUser.key = 0 /\ NoUser.user = None
BY FilesAssumption DEF NoUser, Cookie

----------------------------------------------------------------------------
LEMMA InitDated == Init => Dated
<1> SUFFICES ASSUME Init PROVE Dated
  OBVIOUS
<1>1. file \in File /\ file.tls \in BOOLEAN
  BY FilesAssumption DEF Init, File
<1>2. had \in [Users -> SUBSET Roles] /\ HadInFile
  BY RolesInTyped DEF Init, HadInFile
<1>3. listing \in [Browsers -> [by : Cookie, services : SUBSET Hosts]] /\ Listed
  BY NoUserTyped DEF Init, Listed
<1>4. cookie \in [Browsers -> Cookie] /\ Logged /\ \A b \in Browsers : cookie[b].key <= build
  BY NoUserTyped DEF Init, Logged
<1>5. Answered
  BY DEF Init, Answered, Served, NoAnswer
<1>6. /\ DOMAIN map \subseteq Hosts /\ \A h \in DOMAIN map : map[h] \in Service
      /\ Hosted
  BY <1>1, BuiltHosts DEF Init, Hosted
<1>7. build \in 1 .. MaxBuilds + 1
  BY FilesAssumption DEF Init
<1> QED BY <1>1, <1>2, <1>3, <1>4, <1>5, <1>6, <1>7 DEF Init, Dated, TypeOK

LEMMA EditDated ==
    ASSUME Dated, NEW f \in Files, Edit(f)
    PROVE  Dated'
<1> USE DEF Dated, Edit, front
<1>1. RolesIn(f, NoUser) \in SUBSET Roles /\ \A u \in Users : RolesIn(f, u) \in SUBSET Roles
  BY RolesInTyped
<1>2. had' \in [Users -> SUBSET Roles] /\ HadInFile'
  BY <1>1 DEF TypeOK, HadInFile, RolesIn
<1>3. \A user : Genuine(user) => Genuine(user)'
  BY DEF Genuine, TypeOK
<1>4. Logged'
  BY <1>3 DEF Logged, Genuine
<1>5. Listed'
  BY DEF Listed
<1>6. Answered'
  BY <1>3 DEF Answered, Served, Rewritten, Genuine
<1> QED BY <1>2, <1>4, <1>5, <1>6 DEF TypeOK, Hosted

LEMMA ReloadDated ==
    ASSUME Dated, Reload
    PROVE  Dated'
<1> USE DEF Dated, Reload
<1>1. file \in File /\ file.tls \in BOOLEAN
  BY FilesAssumption DEF TypeOK, File
<1>2. /\ DOMAIN map' \subseteq Hosts /\ \A h \in DOMAIN map' : map'[h] \in Service
      /\ Hosted'
  BY <1>1, BuiltHosts DEF Hosted
<1>3. had' \in [Users -> SUBSET Roles] /\ HadInFile'
  BY RolesInTyped DEF TypeOK, HadInFile, RolesIn
<1>4. /\ build' \in 1 .. MaxBuilds + 1
      /\ \A key \in 0 .. MaxBuilds + 1 : key <= build => key <= build' /\ key # build'
  BY FilesAssumption DEF TypeOK
<1>5. Logged' /\ (\A b \in Browsers : cookie'[b].key <= build')
  BY <1>4 DEF TypeOK, Logged, Cookie
<1>6. Listed'
  BY <1>4 DEF TypeOK, Listed, Cookie
<1>7. Answered'
  BY DEF Answered, Served, NoAnswer
<1> QED BY <1>1, <1>2, <1>3, <1>4, <1>5, <1>6, <1>7 DEF TypeOK

LEMMA LoginDated ==
    ASSUME Dated, NEW b \in Browsers, NEW u \in Users, Login(b, u)
    PROVE  Dated'
<1> USE DEF Dated, Login, front
<1> DEFINE new == [user |-> u, roles |-> file.users[u], key |-> build]
<1>1. new.user = u /\ new.roles = RolesIn(file, u) /\ new.key = build
  BY DEF RolesIn
<1>2. new \in Cookie
  BY RolesInTyped DEF TypeOK, Cookie, RolesIn
<1>3. cookie' = [cookie EXCEPT ![b] = new]
  OBVIOUS
<1>4. Genuine(new)
  BY <1>1 DEF Genuine, HadInFile
<1> HIDE DEF new
<1>5. cookie' \in [Browsers -> Cookie] /\ \A a \in Browsers : cookie'[a].key <= build'
  BY <1>1, <1>2, <1>3 DEF TypeOK
<1>6. Logged'
  BY <1>3, <1>4 DEF TypeOK, Logged, Genuine
<1>7. Listed' /\ Answered' /\ HadInFile' /\ Hosted'
  BY DEF Listed, Answered, Served, Rewritten, Genuine, HadInFile, RolesIn, Hosted
<1> QED BY <1>5, <1>6, <1>7 DEF TypeOK

LEMMA UserTyped ==
    ASSUME Dated, NEW b \in Browsers
    PROVE  /\ UserOf(b) \in Cookie /\ UserOf(b).key <= build
           /\ UserOf(b) # NoUser => Genuine(UserOf(b))
BY NoUserTyped DEF Dated, TypeOK, Logged, UserOf

LEMMA ListDated ==
    ASSUME Dated, NEW b \in Browsers, List(b)
    PROVE  Dated'
<1> USE DEF Dated, List, front
<1> DEFINE new == [by |-> UserOf(b), services |-> {h \in DOMAIN map : Shown(map[h], UserOf(b))}]
<1>1. /\ new.by = UserOf(b)
      /\ new.services = {h \in DOMAIN map : Shown(map[h], UserOf(b))}
  OBVIOUS
<1>2. new \in [by : Cookie, services : SUBSET Hosts]
  BY UserTyped DEF TypeOK
<1>3. listing' = [listing EXCEPT ![b] = new]
  OBVIOUS
<1> HIDE DEF new
<1>4. Listed'
  <2> SUFFICES ASSUME NEW a \in Browsers
               PROVE  /\ listing'[a].by.key <= build
                      /\ (listing'[a].by # NoUser /\ listing'[a].by.key = build) =>
                           listing'[a].services = {h \in DOMAIN map : Shown(map[h], listing'[a].by)}
    BY DEF Listed, Shown
  <2>1. CASE a = b
    <3>1. listing'[a] = new
      BY <1>3, <2>1 DEF TypeOK
    <3> QED BY <1>1, <3>1, UserTyped
  <2>2. CASE a # b
    <3>1. listing'[a] = listing[a]
      BY <1>3, <2>2 DEF TypeOK
    <3> QED BY <3>1 DEF Listed
  <2> QED BY <2>1, <2>2
<1>5. listing' \in [Browsers -> [by : Cookie, services : SUBSET Hosts]]
  BY <1>2, <1>3 DEF TypeOK
<1>6. Logged' /\ Answered' /\ HadInFile' /\ Hosted'
  BY DEF Logged, Answered, Served, Rewritten, Genuine, HadInFile, RolesIn, Hosted
<1> QED BY <1>4, <1>5, <1>6 DEF TypeOK

LEMMA VisitDated ==
    ASSUME Dated, NEW b \in Browsers, NEW h \in Hosts, Visit(b, h)
    PROVE  Dated'
<1> USE DEF Dated, Visit, VisitSite, Refuse, Serve, Redirect, Answers, front
<1>1. TypeOK' /\ Logged' /\ Listed' /\ HadInFile' /\ Hosted'
  BY DEF TypeOK, Logged, Listed, Genuine, HadInFile, RolesIn, Hosted
<1>2. Answered'
  <2>1. CASE VisitSite(b, h) \/ Refuse(b, h)
    BY <2>1 DEF Answered, Served
  <2>2. CASE Serve(b, h)
    BY <2>2, UserTyped DEF Answered, Served, Authorized, Genuine
  <2>3. ASSUME NEW to \in Hosts, NEW secure \in BOOLEAN, Redirect(b, h, to, secure)
        PROVE  Answered'
    BY <2>3, UserTyped DEF Answered, Served, Authorized, Genuine, Rewritten
  <2> QED BY <2>1, <2>2, <2>3
<1> QED BY <1>1, <1>2

LEMMA DatedAlways == Spec => []Dated
<1>1. Dated /\ [Next]_vars => Dated'
  <2> SUFFICES ASSUME Dated, [Next]_vars PROVE Dated'
    OBVIOUS
  <2>1. CASE Next
    BY <2>1, EditDated, ReloadDated, LoginDated, ListDated, VisitDated DEF Next
  <2>2. CASE UNCHANGED vars
    <3> USE <2>2 DEF vars, front, Dated
    <3>1. TypeOK' /\ HadInFile' /\ Hosted'
      BY DEF TypeOK, HadInFile, RolesIn, Hosted
    <3>2. Logged' /\ Listed'
      BY DEF Logged, Genuine, Listed, Shown
    <3>3. Answered'
      BY DEF Answered, Served, Authorized, Genuine, Rewritten
    <3> QED BY <3>1, <3>2, <3>3
  <2> QED BY <2>1, <2>2
<1> QED BY <1>1, InitDated, PTL DEF Spec

----------------------------------------------------------------------------
\* Every variable keeps its type; of a cookie, that its key is not of a build
\* still to come.
THEOREM ServicesTypeCorrect == Spec => []TypeOK
<1>1. Dated => TypeOK
  BY DEF Dated
<1> QED BY <1>1, DatedAlways, PTL

\* list_services and check_authorization agree, whatever the roles of users and
\* services, in every build and after any edits of the file.
THEOREM ListedIffGrantedAlways == Spec => []ListedIffGranted
<1>1. Dated => ListedIffGranted
  BY DEF Dated, Listed, ListedIffGranted, Authorized, Shown
<1> QED BY <1>1, DatedAlways, PTL

\* No visit to a secured service is granted on a role that the user did not have
\* at some time since the running server was built.
THEOREM GrantedIsCurrentAlways == Spec => []GrantedIsCurrent
<1>1. Dated => GrantedIsCurrent
  BY DEF Dated, Answered, GrantedIsCurrent, Authorized, Genuine
<1> QED BY <1>1, DatedAlways, PTL

\* Whatever services share a host, a redirect inside a target comes back to the
\* app that was asked.
THEOREM RedirectReturnsAlways == Spec => []RedirectReturns
<1>1. Dated => RedirectReturns
  <2> SUFFICES ASSUME Dated, answer.kind = "redirected",
                      <<answer.from, map[answer.host].forward>> \in Under
               PROVE  /\ answer.location.host \in DOMAIN map
                      /\ map[answer.location.host] = map[answer.host]
                      /\ tls = frontTls => answer.location.secure = tls
    BY DEF RedirectReturns
  <2>1. <<answer.from, map[answer.host].forward>> \in Within
    BY NamesAssumption
  <2> QED BY <2>1 DEF Dated, Answered, Hosted, Rewritten, Served
<1> QED BY <1>1, DatedAlways, PTL
=============================================================================
