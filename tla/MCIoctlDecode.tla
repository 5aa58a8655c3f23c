---------------------------- MODULE MCIoctlDecode ----------------------------
EXTENDS IoctlDecode

\* Around the size of every structure of an escape, and around MaxBlob.
MCSizes ==
    {0, 1, 3, 4, 7, 8, 11, 12, 15, 16, 19, 20, 31, 32, 39, 40, 47, 48, 55, 56,
     71, 72, 73, 144, 148, 149, 152, 559, 560, 16383}
=============================================================================
