------------------------- MODULE MCS3TemplateStorage -------------------------
(* Objects of 0..3 bytes read with buffers of 1..3 bytes at every offset;  *)
(* a build prefix of three keys listed two to a page, so RemoveDir needs   *)
(* two pages and can delete between them.                                  *)
EXTENDS S3TemplateStorage

MCObjectSizes == 0..3
MCBufLens == 1..3
MCKeys == {1, 2, 3}
MCPageSize == 2
=============================================================================
