------------------------------ MODULE MCBundle ------------------------------
EXTENDS BundleStream
=============================================================================
