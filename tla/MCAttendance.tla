---------------------------- MODULE MCAttendance -----------------------------
(* Instances of Attendance for TLC. *)
EXTENDS Attendance, TLC

CONSTANTS u1, u2, t1, x1

Mobile(users, tokens, bases) ==
  [route : {"mobile"}, kind : {"in", "out"}, user : users,
   token : tokens, ext : {None}, base : bases]

Device(users, exts) ==
  [route : {"device"}, kind : {"in", "out"}, user : users,
   token : {None}, ext : exts, base : {0}]

(* One employee: plain and QR punches, some already close to the blocking  *)
(* score, and a device that may send event x1 again.                       *)
MixedInputs ==
  Mobile({u1}, {t1}, {0, 45}) \cup Mobile({u1}, {None}, {0}) \cup Device({u1}, {x1})

(* One employee without tokens, room for two whole shifts: mobile punches  *)
(* and clock-outs the device dates itself.                                 *)
ShiftInputs ==
  Mobile({u1}, {None}, {0}) \cup {b \in Device({u1}, {None}) : b.kind = "out"}

Anyone == Permutations(Requests)
=============================================================================
