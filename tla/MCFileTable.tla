---------------------------- MODULE MCFileTable -----------------------------
\* The descriptors of a small pool.
EXTENDS FileTable

\* Reading; writing; writing without waiting; an attempt to set a private flag.
MCOpens == {{}, {"WRONLY"}, {"WRONLY", "NONBLOCK"}, {"RDWR", "EXCL"}}
=============================================================================
