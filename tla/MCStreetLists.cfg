SPECIFICATION Spec
CONSTANTS
  Cars = {c1, c2, c3}
  Places <- FourPlaces
  MaxLights = 3
  Nobody = Nobody
INVARIANTS TypeOK LightFinderIsNearest SearchesFindNearest RemovalTakesTheRightOnes
PROPERTIES AddLightKeepsLights
