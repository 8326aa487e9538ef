------------------------------ MODULE MCKprintf ------------------------------
EXTENDS Kprintf
=============================================================================
