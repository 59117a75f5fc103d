------------------------------ MODULE MCAccounts ------------------------------
(***************************************************************************)
(* Small instances of Entrance: an account with up to three requests       *)
(* together and no calls, one call at each door, or many calls at one.     *)
(***************************************************************************)
EXTENDS Entrance, TLC

CONSTANTS r1, r2, r3, p1

Alone ==
    [slots |-> 1, start |-> "registered", acts |-> {}, links |-> MaxLinks, sessions |-> MaxSessions + 3,
     doors |-> "none", roles |-> {"OWNER"}, scopes |-> {{}}, next |-> {}, moves |-> 0, again |-> FALSE]

(* One request at a time. *)
Enrolling == [Alone EXCEPT !.acts = {"login", "enroll", "disable", "logout"}]
Resetting == [Alone EXCEPT !.start = "enrolled", !.acts = {"login", "reset", "disable"}]
Verifying == [Alone EXCEPT !.start = "invited", !.acts = {"register", "verify", "reset", "login"}]

(* Requests that meet. *)
Registering == [Alone EXCEPT !.slots = 2, !.start = "absent", !.acts = {"register", "verify"}]
LoggingIn == [Alone EXCEPT !.slots = 3, !.start = "enrolled", !.acts = {"login", "logout"}]
EnrollingTogether == [Alone EXCEPT !.slots = 2, !.acts = {"login", "enroll", "disable"}]
ResettingTogether ==
    [Alone EXCEPT !.slots = 2, !.start = "enrolled", !.acts = {"login", "reset"}, !.links = 2]

(* One call at any door, by a member who may log out or be changed meanwhile. *)
Calling ==
    [Alone EXCEPT !.acts = {"login", "logout"}, !.sessions = 1,
                  !.doors = "all", !.moves = 1,
                  !.next = D!RoleNames \ {"OWNER"}]
CallingAs == [Calling EXCEPT !.roles = D!RoleNames]
CallingFor == [Calling EXCEPT !.roles = {"SEO_MANAGER"}, !.scopes = D!Scopes \ {{}}]

(* Many calls at a door that is limited. *)
Repeating == [Alone EXCEPT !.sessions = 0, !.doors = "login", !.again = TRUE]

Environments ==
    {Enrolling, Resetting, Verifying, Registering, LoggingIn, EnrollingTogether,
     ResettingTogether, CallingAs, CallingFor, Repeating}

Interchangeable == Permutations(Reqs)
===============================================================================
