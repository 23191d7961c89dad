------------------------------ MODULE MCHttpCalls ------------------------------
(***************************************************************************)
(* HttpCalls for TLC.  Methods with the same row of the table behave       *)
(* alike: one of each treatment of the body is enough, with Image, which   *)
(* decodes twice.                                                          *)
(***************************************************************************)
EXTENDS HttpCalls

OneOfEach == {"DeleteImage", "Image", "Push", "Pull", "LoadContainer", "Logs"}
================================================================================
