----------------------------- MODULE MCServices -----------------------------
(***************************************************************************)
(* A small instance of Services: an app for one role, an app and a dav     *)
(* that claim one host, a user whose role comes and goes.                  *)
(***************************************************************************)
EXTENDS Services, TLC

CONSTANTS b1, ann, bob, staff, guest, wiki, files, target, under, lookalike, other

App(host, secured, roles, forward) ==
    [kind |-> "app", host |-> host, secured |-> secured, roles |-> roles, forward |-> forward]
Dav(host, secured, roles) == [App(host, secured, roles, None) EXCEPT !.kind = "dav"]
Content(apps, davs, users, auto) == [apps |-> apps, davs |-> davs, users |-> users, tls |-> auto]

Wiki == App(wiki, TRUE, {staff, guest}, target)

MCFiles ==
    {Content(<<Wiki>>, <<Dav(files, TRUE, {staff})>>, ann :> {staff} @@ bob :> {guest}, FALSE),
     Content(<<Wiki>>, <<Dav(files, TRUE, {staff})>>, ann :> {guest}, FALSE),
     Content(<<App(wiki, FALSE, {}, target), App(files, FALSE, {}, other)>>,
             <<Dav(files, TRUE, {})>>, ann :> {} @@ bob :> {staff, guest}, TRUE)}

MCUnder == {<<target, target>>, <<under, target>>, <<other, other>>, <<wiki, wiki>>}

\* As 192.168.1.10 contains 192.168.1.1.
MCWithin == MCUnder \cup {<<lookalike, target>>}
=============================================================================
