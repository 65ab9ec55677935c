---------------------------- MODULE MCDraftStream ----------------------------
(* Six versions of a reply: the first, and the one after a tool, are too    *)
(* short to open a message with, and the last is too long to show.          *)
EXTENDS DraftStream

MCTexts == 6
MCShort == {1, 4}
MCLong == {6}
=============================================================================
