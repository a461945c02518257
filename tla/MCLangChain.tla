---------------------------- MODULE MCLangChain ----------------------------
EXTENDS LangChain
=============================================================================
