---------------------------- MODULE MCS3ObjectRead ----------------------------
EXTENDS S3ObjectRead

MCObjectSizes == 0..3

MCBufLens == 1..3

MCBufLensWithEmpty == 0..2
=============================================================================
