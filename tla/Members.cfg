SPECIFICATION MembersSpec
CONSTANTS
  Users = {u1, u2, u3, u4}
  Founder = u1
  Requests = {r1, r2}
  Seats = 2
  MaxRequests = 6
SYMMETRY Symmetry
INVARIANTS OneOwner SeatsBounded InvitationsSound
CHECK_DEADLOCK FALSE
