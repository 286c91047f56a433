--------------------------- MODULE MCSpeakerReview ---------------------------
(* Two primary parts, one part of adjudication, of the final review and of *)
(* its retry.                                                              *)
EXTENDS SpeakerReview

MCPartCount == <<2, 1, 1, 1>>

MCParts == {<<1, 1>>, <<1, 2>>, <<2, 1>>, <<3, 1>>, <<4, 1>>}
=============================================================================
