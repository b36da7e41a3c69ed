---------------------------- MODULE MCGuestAccess ----------------------------
(* One member who starts without access, as a former member whose Guest was  *)
(* revoked, confirmed, or newly linked; two requests, one of which may       *)
(* already be open.                                                          *)
EXTENDS GuestAccess, TLC
CONSTANTS a1, a2, c1, c2, manual, none

Start(link, former, fresh, revoked) ==
  [link |-> link, former |-> former, fresh |-> fresh, revoked |-> revoked,
   loss |-> FALSE, cooling |-> FALSE]
MCStarts ==
  {Start("none", FALSE, TRUE, FALSE), Start("none", TRUE, TRUE, TRUE),
   Start("confirmed", TRUE, FALSE, FALSE), Start("absent", FALSE, TRUE, FALSE)}
=============================================================================
