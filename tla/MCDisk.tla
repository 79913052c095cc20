------------------------------- MODULE MCDisk -------------------------------
EXTENDS Disk

Both == {"ide", "memide"}
=============================================================================
