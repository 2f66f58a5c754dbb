------------------------------ MODULE RoleBook ------------------------------
(***************************************************************************)
(* The role book: which permissions a role grants and which principals     *)
(* hold it.  A principal is an (organization, actor) pair.  Each operator  *)
(* is what one method makes of a book; the caller checks its guard.        *)
(***************************************************************************)
EXTENDS Functions, TLC

\* A book: role name -> permissions, and <<principal, role name>> pairs.
EmptyBook == [roles |-> <<>>, grants |-> {}]

has_role(book, name) == name \in DOMAIN book.roles

permissions_of(book, name) == IF has_role(book, name) THEN book.roles[name] ELSE {}

holders_of(book, name) == {p[1] : p \in {g \in book.grants : g[2] = name}}

roles_of(book, who) == {p[2] : p \in {g \in book.grants : g[1] = who}}

\* Also what add_role does, which its caller offers for a new name only.
redefine_role(book, name, permissions) ==
    [book EXCEPT !.roles = (name :> permissions) @@ @]

\* The role and every grant of it.
remove_role(book, name) ==
    [roles |-> Restrict(book.roles, DOMAIN book.roles \ {name}),
     grants |-> {g \in book.grants : g[2] # name}]

assign(book, who, name) == [book EXCEPT !.grants = @ \cup {<<who, name>>}]

unassign(book, who, name) == [book EXCEPT !.grants = @ \ {<<who, name>>}]

remove_actor(book, who) == [book EXCEPT !.grants = {g \in @ : g[1] # who}]

\* Some role the principal holds grants the permission.
allows(book, who, permission) ==
    \E name \in roles_of(book, who) : permission \in permissions_of(book, name)
=============================================================================
