------------------------- MODULE FirmwareProgrammer -------------------------
(***************************************************************************)
(* What the firmware answers to a verdict of its frame decoder:            *)
(* programmer_putByte (firmware/common/src/firmware/programmer.c:35-111).  *)
(* The reply is built in a ProtoPkt on the stack, which only an accepted   *)
(* frame fills in.                                                         *)
(***************************************************************************)
EXTENDS Naturals

CONSTANTS
    IdSpace,      \* values of an id, 256 in the code
    StackIds,     \* what may be on the stack where the packet's id is
    StackCodes    \* and where its code is

NoError == 0      \* PROTO_NO_ERROR
Errors  == 1 .. 5

ASSUME IdAssumption == IdSpace \in Nat /\ IdSpace >= 2
ASSUME StackAssumption ==
    StackIds \subseteq 0 .. IdSpace - 1 /\ StackCodes \subseteq {NoError} \cup Errors

\* What a request asks for: "good" is a GET_INFO or a transfer whose answer
\* fits, "long" a transfer whose answer does not, "unknown" any other command.
Kinds == {"good", "long", "unknown"}

Reply(serial, id, code) == [serial |-> serial, id |-> id, code |-> code]

\* _sendError: the error it is given is not used, the packet keeps its code.
SendError(serial, id, code, error) == Reply(serial, id, code)

\* The reply to an accepted request, which proto_pkt_init has given NO_ERROR:
\* a refusal leaves it at that, so that the test of line 93 lets the request
\* through to the callback, refused or not.
Respond(request) ==
    CASE request.kind = "good"    -> Reply(request.serial, request.id, NoError)
      [] request.kind = "long"    -> SendError(request.serial, request.id, NoError, 5)
      [] request.kind = "unknown" -> SendError(request.serial, request.id, NoError, 1)

\* The reply to a frame the decoder has refused: id and code are what was on
\* the stack.  No command has the number 0.
RefusalOf(error) == {SendError(0, i, c, error) : i \in StackIds, c \in StackCodes}
=============================================================================
