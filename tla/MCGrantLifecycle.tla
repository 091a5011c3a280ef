-------------------------- MODULE MCGrantLifecycle --------------------------
EXTENDS GrantProperties, Chain
=============================================================================
