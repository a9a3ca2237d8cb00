------------------------------ MODULE MCWebdav ------------------------------
(***************************************************************************)
(* Small instances of ZipDownload, and of WebdavTree in it: two clients,   *)
(* one request each.                                                       *)
(***************************************************************************)
EXTENDS ZipDownload

CONSTANTS c1, c2, a, b, x, y, u, v

Ask(op, path) ==
    [op |-> op, path |-> path, dest |-> << >>, overwrite |-> "none",
     depth |-> "none", body |-> NoFile, match |-> {}]
Put(path, body) == [Ask("PUT", path) EXCEPT !.body = body]
To(op, path, dest) == [Ask(op, path) EXCEPT !.dest = dest]
Depth(r, depth) == [r EXCEPT !.depth = depth]
KeepDest(r) == [r EXCEPT !.overwrite = "F"]

\* A directory with a file, one with an empty directory, and a file.
MCTrees ==
    {<< >> :> Dir @@ <<a>> :> Dir @@ <<a, x>> :> u @@ <<b>> :> Dir @@ <<b, a>> :> Dir
       @@ <<x>> :> v}

First ==
    {Put(<<a, x>>, v), Put(<<y, a>>, v), Put(<<x, a>>, v), Put(<<a>>, v), Put(<<a, b>>, v),
     Ask("MKCOL", <<y>>), [Ask("MKCOL", <<y>>) EXCEPT !.body = u], Ask("MKCOL", <<y, b>>),
     Ask("DELETE", <<a>>), Ask("DELETE", <<x>>), Ask("DELETE", Bad),
     To("COPY", <<a>>, <<b>>), To("COPY", <<a>>, <<y>>), To("COPY", <<a>>, <<a, b>>),
     To("COPY", <<b>>, <<a>>), To("COPY", <<a>>, <<x>>),
     To("COPY", <<x>>, <<a, x>>), To("COPY", <<x>>, <<y>>), To("COPY", <<a, x>>, <<a>>),
     KeepDest(To("COPY", <<a>>, <<b>>)), Depth(To("COPY", <<a>>, <<y>>), "0"),
     To("MOVE", <<a>>, <<b>>), To("MOVE", <<a>>, <<y>>), To("MOVE", <<a>>, <<a, b>>),
     To("MOVE", <<a>>, <<a>>), To("MOVE", <<x>>, <<a, x>>), To("MOVE", <<b, a>>, <<b>>),
     Depth(To("MOVE", <<a>>, <<b>>), "1"), To("MOVE", <<a>>, <<y, b>>)}

Second ==
    {Put(<<a, x>>, u), Put(<<y, b>>, u), Ask("MKCOL", <<y>>), Ask("DELETE", <<a>>),
     To("COPY", <<b>>, <<a, b>>), To("MOVE", <<a>>, <<y>>),
     Ask("PROPFIND", << >>), Ask("PROPFIND", <<x>>),
     [Ask("SEARCH", <<a>>) EXCEPT !.match = {x, b}], Ask("ZIP", <<a>>),
     Ask("LOCK", <<x>>)}

MCRequests == c1 :> First @@ c2 :> Second
=============================================================================
