----------------------------- MODULE MCNewsletter -----------------------------
EXTENDS NewsletterProperties
=============================================================================
